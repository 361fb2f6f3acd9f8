--------------------------- MODULE BackgroundProofs ---------------------------
(***************************************************************************)
(* Theorems about what runs in the background.                             *)
(*                                                                         *)
(* ConnectionSync, for any connections, requests and bounds: a connection  *)
(* has one run at most and every sync one final answer, because a run on a *)
(* made sync of a running server, and a request whose insert is under way, *)
(* hold the connection's claim.                                            *)
(*                                                                         *)
(* Attention, for any books, readers, months and alerts: a scan nobody     *)
(* disturbed leaves exactly the alerts the books call for; an alert is     *)
(* raised once a month unless two scans met or two findings have one name; *)
(* and no topic with news is silenced.                                     *)
(***************************************************************************)
EXTENDS ConnectionSync, Attention, FiniteSetTheorems, SequenceTheorems, NaturalsInduction, WellFoundedInduction, TLAPS

Creating(q) == request[q].pc = "creating"

(* A run is on a made sync of a running server and holds its connection's  *)
(* claim; so does a request whose insert is under way.                     *)
ClaimHeld ==
    /\ \A s \in Syncs : Live(s) => s <= made /\ of[s] \in active /\ server # "down"
    /\ \A q \in Requests : request[q].pc # "idle"
                            => request[q].connection \in Connections /\ server # "down"
    /\ \A q \in Requests : Creating(q) => request[q].connection \in active

(* No two of them hold the same claim. *)
OneHolder ==
    /\ OneRunPerConnection
    /\ \A p, q \in Requests :
          Creating(p) /\ Creating(q) /\ request[p].connection = request[q].connection => p = q
    /\ \A q \in Requests, s \in Syncs : Creating(q) /\ Live(s) => of[s] # request[q].connection

(* What the row of a sync can hold at each point of its run. *)
RowOfRun ==
    /\ \A s \in Syncs : s > made => row[s] = "absent"
    /\ \A s \in Syncs : s <= made => of[s] \in Connections
    /\ \A s \in Syncs : row[s] = "succeeded" => worker[s].phase \in {"none", "releasing"}
    /\ \A s \in Syncs : progress[s] # <<>>
                          => worker[s].phase \in {"scraping", "scraped", "throwing"}

IInv == TypeOK /\ ClaimHeld /\ OneHolder /\ RowOfRun

(* Init establishes the invariant. *)
LEMMA InitIInv == Init => IInv
  BY BoundsAssumption, NoneAssumption DEF Init, IInv, TypeOK, ClaimHeld, OneHolder, RowOfRun, Creating, Live,
     OneRunPerConnection, NoRequest, NoWorker, Connection, Request, Worker, Syncs, Versions,
     Statuses, Alive, Ended, Phases

(* A run that only moves on keeps its type. *)
LEMMA GoTyped ==
  ASSUME worker \in [Syncs -> Worker], NEW s \in Syncs, NEW phase \in Phases, Go(s, phase)
  PROVE  worker' \in [Syncs -> Worker]
<1>1. [worker[s] EXCEPT !.phase = phase] \in Worker
  BY DEF Worker
<1> QED
  BY <1>1 DEF Go

(* Every step keeps the types. *)
LEMMA TypeStep == IInv /\ [Next]_vars => TypeOK'
<1> SUFFICES ASSUME IInv, [Next]_vars PROVE TypeOK'
  OBVIOUS
<1> USE BoundsAssumption, NoneAssumption DEF IInv, TypeOK, Syncs, Versions, Statuses, Alive, Ended, Phases,
        NoRequest, NoWorker, run, bounds
<1>1. CASE UNCHANGED vars
  BY <1>1 DEF vars
<1>2. CASE \E q \in Requests, c \in Connections : ReadConnection(q, c)
  BY <1>2 DEF ReadConnection, Connection, Request
<1>3. ASSUME NEW q \in Requests, RequestStep(q) PROVE TypeOK'
  <2>1. CASE ReadRunning(q)
    <3> DEFINE free == AliveRows(request[q].connection) = {}
    <3>2. free \in BOOLEAN
      OBVIOUS
    <3>3. request' = [request EXCEPT ![q].pc = "checked", ![q].free = free]
      BY <2>1 DEF ReadRunning
    <3> HIDE DEF free
    <3>4. request[q] \in Request
      OBVIOUS
    <3>5. [request[q] EXCEPT !.pc = "checked", !.free = free] \in Request
      BY <3>2, <3>4 DEF Request
    <3>1. request' \in [Requests -> Request]
      BY <3>3, <3>5
    <3> QED
      BY <2>1, <3>1 DEF ReadRunning
  <2>2. CASE Claim(q)
    BY <2>2 DEF Claim, ClaimHeld, Request
  <2>3. CASE Conflict(q)
    BY <2>3 DEF Conflict, Request
  <2>4. CASE CreateRow(q)
    BY <2>4 DEF CreateRow, ClaimHeld, Request, Worker
  <2>5. CASE CreateRefused(q)
    BY <2>5 DEF CreateRefused, Request
  <2> QED
    BY <1>3, <2>1, <2>2, <2>3, <2>4, <2>5 DEF RequestStep
<1>4. ASSUME NEW s \in Syncs, RunStep(s) PROVE TypeOK'
  <2>1. CASE ReadTargets(s)
    BY <2>1, GoTyped DEF ReadTargets
  <2>2. CASE AwaitProgress(s)
    BY <2>2, GoTyped DEF AwaitProgress, AfterScrape
  <2>3. CASE Verify(s)
    <3>1. worker' \in [Syncs -> Worker]
      BY <2>3, GoTyped DEF Verify
    <3>2. of[s] \in Connections
      BY <2>3 DEF Verify, At, ClaimHeld, RowOfRun, Live
    <3>4. stored[of[s]] \in Connection
      BY <3>2
    <3>3. [stored[of[s]] EXCEPT !.verified = TRUE] \in Connection
      BY <3>4 DEF Connection
    <3> QED
      BY <2>3, <3>1, <3>2, <3>3 DEF Verify
  <2>4. CASE Import(s)
    BY <2>4, GoTyped DEF Import
  <2>5. CASE Throw(s)
    BY <2>5, GoTyped DEF Throw
  <2>6. CASE Finish(s)
    BY <2>6, GoTyped DEF Finish, Written
  <2>7. CASE FinishRefused(s)
    BY <2>7, GoTyped DEF FinishRefused
  <2>8. CASE Release(s)
    BY <2>8 DEF Release, At, Worker
  <2> QED
    BY <1>4, <2>1, <2>2, <2>3, <2>4, <2>5, <2>6, <2>7, <2>8 DEF RunStep
<1>5. ASSUME NEW s \in Syncs, WriteProgress(s) PROVE TypeOK'
  <2>1. Head(progress[s]) \in Alive /\ Tail(progress[s]) \in Seq(Alive)
    <3>1. progress[s] \in Seq(Alive) /\ progress[s] # <<>>
      BY <1>5 DEF WriteProgress
    <3> QED
      BY <3>1, HeadTailProperties
  <2> QED
    BY <1>5, <2>1 DEF WriteProgress, Written
<1>6. ASSUME NEW s \in Syncs, NEW status \in Alive, Report(s, status) PROVE TypeOK'
  <2>1. Append(progress[s], status) \in Seq(Alive)
    <3>1. progress[s] \in Seq(Alive)
      OBVIOUS
    <3> QED
      BY <3>1, AppendProperties
  <2> QED
    BY <1>6, <2>1 DEF Report
<1>7. ASSUME NEW s \in Syncs, NEW success \in BOOLEAN, ScrapeEnds(s, success) PROVE TypeOK'
  <2>1. At(s, "scraping")
    BY <1>7 DEF ScrapeEnds
  <2>2. of[s] \in Connections
    BY <2>1 DEF At, ClaimHeld, RowOfRun, Live
  <2>3. worker[s].version \in Versions
    BY DEF Worker
  <2>7. worker[s] \in Worker
    OBVIOUS
  <2>4. [worker[s] EXCEPT !.phase = "scraped", !.success = success] \in Worker
    BY <2>7 DEF Worker
  <2>5. worker' \in [Syncs -> Worker]
    BY <1>7, <2>4 DEF ScrapeEnds
  <2>6. loggedIn' \in [Connections -> SUBSET Versions]
    BY <1>7, <2>2, <2>3 DEF ScrapeEnds
  <2> QED
    BY <1>7, <2>5, <2>6 DEF ScrapeEnds
<1>8. ASSUME NEW c \in Connections, UpdateCredentials(c) \/ RemoveConnection(c) PROVE TypeOK'
  <2>1. CASE UpdateCredentials(c)
    BY <2>1 DEF UpdateCredentials, Connection
  <2>2. CASE RemoveConnection(c)
    BY <2>2 DEF RemoveConnection, Connection
  <2> QED
    BY <1>8, <2>1, <2>2
<1>9. CASE Crash
  BY <1>9 DEF Crash, Request, Worker
<1>10. CASE Restart
  BY <1>10 DEF Restart
<1>11. CASE FailInterrupted \/ FailInterruptedRefused
  BY <1>11 DEF FailInterrupted, FailInterruptedRefused
<1> QED
  BY <1>1, <1>2, <1>3, <1>4, <1>5, <1>6, <1>7, <1>8, <1>9, <1>10, <1>11 DEF Next

(* A run that moves on is still a run. *)
LEMMA GoLive ==
  ASSUME worker \in [Syncs -> Worker], NEW s \in Syncs, NEW phase, phase # "none",
         Live(s), Go(s, phase)
  PROVE  \A t \in Syncs : Live(t)' <=> Live(t)
  BY DEF Go, Live, Worker

(* A step of a run that is neither its first nor its last holds what it held. *)
LEMMA SameHolders ==
  ASSUME ClaimHeld, OneHolder, server' = server, made' = made, UNCHANGED <<of, active, request>>,
         \A s \in Syncs : Live(s)' <=> Live(s)
  PROVE  ClaimHeld' /\ OneHolder'
  BY DEF ClaimHeld, OneHolder, OneRunPerConnection, Creating

(* Every step keeps the claims and their holders. *)
LEMMA HolderStep == IInv /\ [Next]_vars => ClaimHeld' /\ OneHolder'
<1> SUFFICES ASSUME IInv, [Next]_vars PROVE ClaimHeld' /\ OneHolder'
  OBVIOUS
<1> USE BoundsAssumption, NoneAssumption DEF IInv, Syncs, run, bounds
<1>1. CASE UNCHANGED vars
  BY <1>1, SameHolders DEF vars, Live
<1>2. ASSUME NEW q \in Requests, NEW c \in Connections, ReadConnection(q, c)
      PROVE  ClaimHeld' /\ OneHolder'
  BY <1>2 DEF ReadConnection, TypeOK, ClaimHeld, OneHolder, OneRunPerConnection, Creating, Live
<1>3. ASSUME NEW q \in Requests, RequestStep(q) PROVE ClaimHeld' /\ OneHolder'
  <2> USE DEF ClaimHeld, OneHolder, OneRunPerConnection, Creating, Live, TypeOK, NoRequest, Request
  <2>1. CASE ReadRunning(q)
    BY <2>1 DEF ReadRunning
  <2>2. CASE Claim(q)
    BY <2>2 DEF Claim
  <2>3. CASE Conflict(q)
    BY <2>3 DEF Conflict
  <2>4. CASE CreateRow(q)
    <3> DEFINE s == made + 1
               c == request[q].connection
    <3>1. s \in Syncs /\ ~Live(s) /\ c \in Connections /\ c \in active
      BY <2>4 DEF CreateRow
    <3>2. /\ of' = [of EXCEPT ![s] = c] /\ made' = s /\ UNCHANGED <<active, server>>
          /\ request' = [request EXCEPT ![q] = NoRequest]
      BY <2>4 DEF CreateRow
    <3>3. \A t \in Syncs : t # s => (Live(t)' <=> Live(t)) /\ of'[t] = of[t]
      BY <2>4 DEF CreateRow
    <3>4. of'[s] = c
      BY <3>1, <3>2
    <3>5. \A p \in Requests : request'[p].pc # "idle" => p # q /\ request'[p] = request[p]
      BY <3>2
    <3>6. Creating(q) /\ c = request[q].connection /\ server # "down"
      BY <2>4 DEF CreateRow
    <3> HIDE DEF c
    <3>7. \A t \in Syncs : Live(t)' => t <= made'
      BY <3>1, <3>2, <3>3
    <3>8. \A t \in Syncs : Live(t)' => of'[t] \in active' /\ server' # "down"
      BY <3>1, <3>2, <3>3, <3>4, <3>6
    <3>9. ClaimHeld'
      BY <3>2, <3>5, <3>7, <3>8
    <3>13. \A t \in Syncs : t # s /\ Live(t) => of[t] # c
      BY <3>6
    <3> HIDE DEF s, Live
    <3>14. \A t \in Syncs : t # s /\ Live(t)' => of'[t] # c
      BY <3>3, <3>13
    <3>10. OneRunPerConnection'
      BY <3>3, <3>4, <3>14
    <3>11. \A p \in Requests, t \in Syncs : Creating(p)' /\ Live(t)' => of'[t] # request'[p].connection
      <4> SUFFICES ASSUME NEW p \in Requests, NEW t \in Syncs, Creating(p)', Live(t)'
                   PROVE  of'[t] # request[p].connection
        BY <3>5
      <4>1. p # q /\ Creating(p)
        BY <3>5
      <4>2. CASE t = s
        BY <3>4, <3>6, <4>1, <4>2
      <4>3. CASE t # s
        BY <3>3, <4>1, <4>3
      <4> QED
        BY <4>2, <4>3
    <3>12. OneHolder'
      BY <3>5, <3>10, <3>11
    <3> QED
      BY <3>9, <3>12
  <2>5. CASE CreateRefused(q)
    BY <2>5 DEF CreateRefused
  <2> QED
    BY <1>3, <2>1, <2>2, <2>3, <2>4, <2>5 DEF RequestStep
<1>4. ASSUME NEW s \in Syncs, RunStep(s) PROVE ClaimHeld' /\ OneHolder'
  <2>1. CASE ReadTargets(s) \/ AwaitProgress(s) \/ Verify(s) \/ Import(s) \/ Throw(s)
             \/ Finish(s) \/ FinishRefused(s)
    <3>3. Live(s)
      BY <2>1 DEF ReadTargets, AwaitProgress, Verify, Import, Throw, Finish, FinishRefused, At, Live
    <3>4. PICK phase \in Phases \ {"none"} : Go(s, phase)
      BY <2>1 DEF ReadTargets, AwaitProgress, Verify, Import, Throw, Finish, FinishRefused, AfterScrape, Phases
    <3>1. \A t \in Syncs : Live(t)' <=> Live(t)
      BY <3>3, <3>4, GoLive DEF TypeOK
    <3>2. server' = server /\ made' = made /\ UNCHANGED <<of, active, request>>
      BY <2>1 DEF ReadTargets, AwaitProgress, Verify, Import, Throw, Finish, FinishRefused
    <3> QED
      BY <3>1, <3>2, SameHolders
  <2>2. CASE Release(s)
    BY <2>2 DEF Release, At, NoWorker, ClaimHeld, OneHolder, OneRunPerConnection, Creating, Live, TypeOK, Worker
  <2> QED
    BY <1>4, <2>1, <2>2 DEF RunStep
<1>5. ASSUME NEW s \in Syncs, WriteProgress(s) PROVE ClaimHeld' /\ OneHolder'
  BY <1>5, SameHolders DEF WriteProgress, Live
<1>6. ASSUME NEW s \in Syncs, NEW status \in Alive, Report(s, status) PROVE ClaimHeld' /\ OneHolder'
  BY <1>6, SameHolders DEF Report, Live
<1>7. ASSUME NEW s \in Syncs, NEW success \in BOOLEAN, ScrapeEnds(s, success)
      PROVE  ClaimHeld' /\ OneHolder'
  <2>1. \A t \in Syncs : Live(t)' <=> Live(t)
    BY <1>7 DEF ScrapeEnds, Live, At, TypeOK, Worker
  <2> QED
    BY <1>7, <2>1, SameHolders DEF ScrapeEnds
<1>8. ASSUME NEW c \in Connections, UpdateCredentials(c) \/ RemoveConnection(c) PROVE ClaimHeld' /\ OneHolder'
  BY <1>8, SameHolders DEF UpdateCredentials, RemoveConnection, Live
<1>9. CASE Crash
  BY <1>9 DEF Crash, NoWorker, NoRequest, ClaimHeld, OneHolder, OneRunPerConnection, Creating, Live
<1>10. CASE Restart
  BY <1>10 DEF Restart, ClaimHeld, OneHolder, OneRunPerConnection, Creating, Live
<1>11. CASE FailInterrupted \/ FailInterruptedRefused
  BY <1>11 DEF FailInterrupted, FailInterruptedRefused, ClaimHeld, OneHolder, OneRunPerConnection, Creating, Live
<1> QED
  BY <1>1, <1>2, <1>3, <1>4, <1>5, <1>6, <1>7, <1>8, <1>9, <1>10, <1>11 DEF Next

(* Every step keeps what the rows can hold. *)
LEMMA RowStep == IInv /\ [Next]_vars => RowOfRun'
<1> SUFFICES ASSUME IInv, [Next]_vars PROVE RowOfRun'
  OBVIOUS
<1> USE BoundsAssumption, NoneAssumption DEF IInv, Syncs, run, bounds, RowOfRun, TypeOK
<1>1. CASE UNCHANGED vars
  BY <1>1 DEF vars
<1>2. ASSUME NEW q \in Requests, NEW c \in Connections, ReadConnection(q, c) PROVE RowOfRun'
  BY <1>2 DEF ReadConnection
<1>3. ASSUME NEW q \in Requests, RequestStep(q) PROVE RowOfRun'
  <2>1. CASE CreateRow(q)
    <3>1. request[q].connection \in Connections
      BY <2>1 DEF CreateRow, ClaimHeld
    <3>2. made \in Nat /\ made + 1 \in Syncs
      BY <2>1 DEF CreateRow
    <3>3. worker[made + 1].phase = "none"
      BY <3>2 DEF ClaimHeld, Live
    <3>4. progress[made + 1] = <<>>
      BY <3>2, <3>3
    <3>5. \A t \in Syncs : t > made' => row'[t] = "absent"
      BY <2>1, <3>2 DEF CreateRow
    <3>6. \A t \in Syncs : t <= made' => of'[t] \in Connections
      BY <2>1, <3>1, <3>2 DEF CreateRow
    <3>7. \A t \in Syncs : row'[t] = "succeeded" => worker'[t].phase \in {"none", "releasing"}
      BY <2>1, <3>2 DEF CreateRow
    <3>8. \A t \in Syncs : progress'[t] # <<>> => worker'[t].phase \in {"scraping", "scraped", "throwing"}
      BY <2>1, <3>2, <3>4 DEF CreateRow
    <3> QED
      BY <3>5, <3>6, <3>7, <3>8
  <2> QED
    BY <1>3, <2>1 DEF RequestStep, ReadRunning, Claim, Conflict, CreateRefused
<1>4. ASSUME NEW s \in Syncs, RunStep(s) PROVE RowOfRun'
  <2> USE DEF At, Go, Worker
  <2>1. CASE ReadTargets(s)
    BY <2>1 DEF ReadTargets
  <2>2. CASE AwaitProgress(s)
    BY <2>2 DEF AwaitProgress, AfterScrape
  <2>3. CASE Verify(s)
    BY <2>3 DEF Verify
  <2>4. CASE Import(s)
    BY <2>4 DEF Import
  <2>5. CASE Throw(s)
    BY <2>5 DEF Throw
  <2>6. CASE Finish(s)
    BY <2>6 DEF Finish, Written
  <2>7. CASE FinishRefused(s)
    BY <2>7 DEF FinishRefused
  <2>8. CASE Release(s)
    BY <2>8 DEF Release, NoWorker
  <2> QED
    BY <1>4, <2>1, <2>2, <2>3, <2>4, <2>5, <2>6, <2>7, <2>8 DEF RunStep
<1>5. ASSUME NEW s \in Syncs, WriteProgress(s) PROVE RowOfRun'
  <2>1. Head(progress[s]) \in Alive
    <3>1. progress[s] \in Seq(Alive) /\ progress[s] # <<>>
      BY <1>5 DEF WriteProgress
    <3> QED
      BY <3>1, HeadTailProperties
  <2>2. \A t \in Syncs : row'[t] = "succeeded" => row[t] = "succeeded"
    BY <1>5, <2>1 DEF WriteProgress, Written, Alive
  <2>3. \A t \in Syncs : row[t] = "absent" => row'[t] = "absent"
    BY <1>5 DEF WriteProgress, Written
  <2>4. \A t \in Syncs : progress'[t] # <<>> => progress[t] # <<>>
    BY <1>5 DEF WriteProgress
  <2> QED
    BY <1>5, <2>2, <2>3, <2>4 DEF WriteProgress
<1>6. ASSUME NEW s \in Syncs, NEW status \in Alive, Report(s, status) PROVE RowOfRun'
  <2>1. \A t \in Syncs : progress'[t] # <<>> => t = s \/ progress[t] # <<>>
    BY <1>6 DEF Report
  <2>2. worker[s].phase = "scraping" /\ UNCHANGED <<row, of, worker, made>>
    BY <1>6 DEF Report, At
  <2> QED
    BY <2>1, <2>2
<1>7. ASSUME NEW s \in Syncs, NEW success \in BOOLEAN, ScrapeEnds(s, success) PROVE RowOfRun'
  <2>1. worker[s].phase = "scraping" /\ UNCHANGED <<row, of, progress, made>>
    BY <1>7 DEF ScrapeEnds, At
  <2>2. \A t \in Syncs : worker'[t].phase = IF t = s THEN "scraped" ELSE worker[t].phase
    BY <1>7 DEF ScrapeEnds, Worker
  <2> QED
    BY <2>1, <2>2
<1>8. ASSUME NEW c \in Connections, UpdateCredentials(c) \/ RemoveConnection(c) PROVE RowOfRun'
  BY <1>8 DEF UpdateCredentials, RemoveConnection
<1>9. CASE Crash
  BY <1>9 DEF Crash, NoWorker
<1>10. CASE Restart
  BY <1>10 DEF Restart
<1>11. CASE FailInterrupted \/ FailInterruptedRefused
  BY <1>11 DEF FailInterrupted, FailInterruptedRefused, Alive
<1> QED
  BY <1>1, <1>2, <1>3, <1>4, <1>5, <1>6, <1>7, <1>8, <1>9, <1>10, <1>11 DEF Next

(* The invariant holds throughout. *)
THEOREM Invariant == Spec => []IInv
<1>1. IInv /\ [Next]_vars => IInv'
  BY TypeStep, HolderStep, RowStep DEF IInv
<1> QED
  BY InitIInv, <1>1, PTL DEF Spec

(* The variables of ConnectionSync keep their types. *)
THEOREM TypeCorrect == Spec => []TypeOK
  BY Invariant, PTL DEF IInv

(* A connection never has two runs at once, for any number of start        *)
(* requests racing between their reads and their inserts, through any      *)
(* crashes and any writes the database rejects.                            *)
THEOREM OneRun == Spec => []OneRunPerConnection
  BY Invariant, PTL DEF IInv, OneHolder

(* The status of a sync that has ended, its run over or its success        *)
(* written, is never written again.                                        *)
THEOREM EndedKept == Spec => EndedStaysEnded
<1> DEFINE Kept == \A s \in Syncs : row[s] = "succeeded" \/ (row[s] = "failed" /\ ~Live(s))
                                     => row'[s] \in {row[s], "absent"}
<1>1. IInv /\ [Next]_vars => [Kept]_vars
  <2> SUFFICES ASSUME IInv, Next, NEW t \in Syncs,
                      row[t] = "succeeded" \/ (row[t] = "failed" /\ ~Live(t))
               PROVE  row'[t] \in {row[t], "absent"}
    BY DEF vars
  <2> USE DEF IInv, TypeOK, RowOfRun, Live
  <2>1. ASSUME NEW q \in Requests, RequestStep(q) PROVE row'[t] \in {row[t], "absent"}
    <3>1. CASE CreateRow(q)
      BY <3>1, BoundsAssumption DEF CreateRow, Syncs
    <3> QED
      BY <2>1, <3>1 DEF RequestStep, ReadRunning, Claim, Conflict, CreateRefused
  <2>2. ASSUME NEW s \in Syncs, RunStep(s) PROVE row'[t] \in {row[t], "absent"}
    <3>1. CASE Finish(s)
      BY <3>1 DEF Finish, Written
    <3> QED
      BY <2>2, <3>1 DEF RunStep, ReadTargets, AwaitProgress, Verify, Import, Throw, FinishRefused, Release
  <2>3. ASSUME NEW s \in Syncs, WriteProgress(s) PROVE row'[t] \in {row[t], "absent"}
    BY <2>3 DEF WriteProgress, Written
  <2>4. ASSUME NEW s \in Syncs, NEW status \in Alive, Report(s, status) PROVE row' = row
    BY <2>4 DEF Report
  <2>7. ASSUME NEW s \in Syncs, NEW success \in BOOLEAN, ScrapeEnds(s, success) PROVE row' = row
    BY <2>7 DEF ScrapeEnds
  <2>8. ASSUME NEW q \in Requests, NEW c \in Connections, ReadConnection(q, c) PROVE row' = row
    BY <2>8 DEF ReadConnection
  <2>9. ASSUME NEW c \in Connections, UpdateCredentials(c) PROVE row' = row
    BY <2>9 DEF UpdateCredentials
  <2>5. ASSUME NEW c \in Connections, RemoveConnection(c) PROVE row'[t] \in {row[t], "absent"}
    BY <2>5 DEF RemoveConnection
  <2>6. CASE Crash \/ Restart \/ FailInterrupted \/ FailInterruptedRefused
    BY <2>6 DEF Crash, Restart, FailInterrupted, FailInterruptedRefused, Alive
  <2> QED
    BY <2>1, <2>2, <2>3, <2>4, <2>5, <2>6, <2>7, <2>8, <2>9 DEF Next
<1>2. Spec => [][Kept]_vars
  BY <1>1, Invariant, PTL DEF Spec
<1> QED
  BY <1>2 DEF EndedStaysEnded

-----------------------------------------------------------------------------
(* While the database takes every write of a sync row, a run lets go only  *)
(* of a row that has ended, and a row without a run waits for              *)
(* failInterrupted.                                                        *)
RowsTracked ==
    /\ AliveHasRun
    /\ faults = 0 => \A s \in Syncs : At(s, "releasing") => row[s] \notin Alive

(* Every step keeps it. *)
LEMMA TrackedStep ==
  ASSUME IInv, RowsTracked, [Next]_vars
  PROVE  RowsTracked'
<1> USE DEF IInv, TypeOK, RowsTracked, AliveHasRun, Live, At, Go, run, bounds
<1>1. CASE UNCHANGED vars
  BY <1>1 DEF vars
<1>2. ASSUME NEW q \in Requests, NEW c \in Connections, ReadConnection(q, c) PROVE RowsTracked'
  BY <1>2 DEF ReadConnection
<1>3. ASSUME NEW q \in Requests, RequestStep(q) PROVE RowsTracked'
  <2>1. CASE CreateRow(q)
    BY <2>1 DEF CreateRow, Worker
  <2> QED
    BY <1>3, <2>1 DEF RequestStep, ReadRunning, Claim, Conflict, CreateRefused
<1>4. ASSUME NEW s \in Syncs, RunStep(s) PROVE RowsTracked'
  <2> USE DEF Worker
  <2>1. CASE ReadTargets(s)
    BY <2>1 DEF ReadTargets
  <2>2. CASE AwaitProgress(s)
    BY <2>2 DEF AwaitProgress, AfterScrape
  <2>3. CASE Verify(s)
    BY <2>3 DEF Verify
  <2>4. CASE Import(s)
    BY <2>4 DEF Import
  <2>5. CASE Throw(s)
    BY <2>5 DEF Throw
  <2>6. CASE Finish(s)
    BY <2>6 DEF Finish, Written, Alive
  <2>7. CASE FinishRefused(s)
    BY <2>7, BoundsAssumption DEF FinishRefused
  <2>8. CASE Release(s)
    BY <2>8 DEF Release, NoWorker
  <2> QED
    BY <1>4, <2>1, <2>2, <2>3, <2>4, <2>5, <2>6, <2>7, <2>8 DEF RunStep
<1>5. ASSUME NEW s \in Syncs, WriteProgress(s) PROVE RowsTracked'
  <2>1. worker[s].phase \in {"scraping", "scraped", "throwing"}
    BY <1>5 DEF WriteProgress, RowOfRun
  <2>2. \A t \in Syncs : t # s => row'[t] = row[t]
    BY <1>5 DEF WriteProgress, Written
  <2> QED
    BY <1>5, <2>1, <2>2 DEF WriteProgress
<1>6. ASSUME NEW s \in Syncs, NEW status \in Alive, Report(s, status) PROVE RowsTracked'
  BY <1>6 DEF Report
<1>7. ASSUME NEW s \in Syncs, NEW success \in BOOLEAN, ScrapeEnds(s, success) PROVE RowsTracked'
  <2>1. worker[s].phase = "scraping" /\ UNCHANGED <<row, server, faults>>
    BY <1>7 DEF ScrapeEnds
  <2>2. \A t \in Syncs : worker'[t].phase = IF t = s THEN "scraped" ELSE worker[t].phase
    BY <1>7 DEF ScrapeEnds, Worker
  <2> QED
    BY <2>1, <2>2
<1>8. ASSUME NEW c \in Connections, UpdateCredentials(c) \/ RemoveConnection(c) PROVE RowsTracked'
  BY <1>8 DEF UpdateCredentials, RemoveConnection, Alive
<1>9. CASE Crash
  BY <1>9 DEF Crash, NoWorker
<1>10. CASE Restart
  BY <1>10 DEF Restart
<1>11. CASE FailInterrupted
  BY <1>11 DEF FailInterrupted, Alive
<1>12. CASE FailInterruptedRefused
  BY <1>12, BoundsAssumption DEF FailInterruptedRefused
<1> QED
  BY <1>1, <1>2, <1>3, <1>4, <1>5, <1>6, <1>7, <1>8, <1>9, <1>10, <1>11, <1>12 DEF Next

(* No sync looks alive without a run once failInterrupted has been through, *)
(* as long as the database took every write of a sync row.                  *)
THEOREM NoSyncLooksAliveForever == Spec => []AliveHasRun
<1>1. Init => RowsTracked
  BY DEF Init, RowsTracked, AliveHasRun, Alive, At, NoWorker
<1>2. IInv /\ RowsTracked /\ [Next]_vars => RowsTracked'
  BY TrackedStep
<1>3. RowsTracked => AliveHasRun
  BY DEF RowsTracked
<1> QED
  BY Invariant, <1>1, <1>2, <1>3, PTL DEF Spec

-----------------------------------------------------------------------------
(* A scan nobody disturbed still knows what the books say and, once it has     *)
(* compared, holds exactly what no alert shows; as long as no two scans met,   *)
(* what it holds has names of its own and no alert shows any of them.          *)
Kinds == {"budget", "loan", "upcoming", "balance", "category", "charge", "duplicate"}
Tones == {"critical", "warning", "info"}
AllFindings == UNION {Detected(s) : s \in Situations}
Titles == {f.title : f \in AllFindings}
Grounds == {f.key : f \in AllFindings}
Subjects == {f.of : f \in AllFindings}
Findings == [type : Kinds, tone : Tones, title : Titles, key : Grounds, of : Subjects]
AlertRecords == [id : Nat, type : Kinds, tone : Tones, title : Titles, key : Grounds, of : Subjects, read : BOOLEAN,
                 withdrawn : BOOLEAN, month : Nat]
Scans == [at : {"idle"}]
           \cup [at : {"looked", "withdrew", "raising"}, found : SUBSET Findings, limited : {s.limited : s \in Situations},
                 live : {s.groups : s \in Situations}, snapshot : SUBSET AlertRecords]

AlertsTypeOK ==
    /\ situation \in Situations /\ month \in Nat /\ nextId \in Nat \ {0} /\ raced \in BOOLEAN
    /\ alone \in [Readers -> BOOLEAN] /\ alerts \in SUBSET AlertRecords /\ scan \in [Readers -> Scans]
    /\ \A p \in Readers : Reading(p) => IsFiniteSet(scan[p].found)

(* Alerts have ids of their own, and none is of a month to come.             *)
AlertsApart ==
    /\ \A a \in alerts : a.id < nextId /\ a.month <= month
    /\ \A a, b \in alerts : a.id = b.id => a = b

NoneStale == \A a \in Visible : a.type = "duplicate" => a.key \in situation.groups
Undisturbed(p) ==
    /\ scan[p].limited = situation.limited /\ scan[p].live = situation.groups
    /\ p \in Locked => scan[p].snapshot = Showing
    /\ scan[p].at \in {"looked", "withdrew"} => scan[p].found = Detected(situation)
    /\ scan[p].at = "raising" =>
          /\ scan[p].found \subseteq Detected(situation)
          /\ \A f \in Detected(situation) : f \in scan[p].found \/ DedupeKey(f) \in Known(p)
    /\ scan[p].at \in {"withdrew", "raising"} /\ p \notin Locked => situation.limited \/ NoneStale
LoneInv == \A p \in Readers : alone[p] /\ Reading(p) => Undisturbed(p)

(* Two findings of one name are about two budgets, loans or charges.        *)
ThingsApart == \A s \in Situations : \A f, g \in Detected(s) : Identity(f) = Identity(g) => f = g
SameNews(a, b) == a.type = b.type /\ a.title = b.title /\ a.key = b.key /\ a.of = b.of
SeenBy(p, a) == IF p \in Locked THEN a \in scan[p].snapshot /\ ~Gone(p, a) ELSE a \in Showing
Unmet(p) ==
    /\ \A f, g \in scan[p].found : Identity(f) = Identity(g) => f = g
    /\ p \in Locked => \A a \in Showing : \E b \in scan[p].snapshot : SameNews(a, b)
    /\ scan[p].at = "raising" => \A f \in scan[p].found : \A a : SeenBy(p, a) => Identity(a) # Identity(f)
OnceInv ==
    ~raced =>
        /\ \A p, q \in Readers : Reading(p) /\ Reading(q) => p = q
        /\ \A a, b \in Showing : ~SameKey(a, b)
        /\ \A p \in Readers : Reading(p) => Unmet(p)

(* What a scan finds is of these kinds, and a duplicate's evidence is its      *)
(* group.                                                                      *)
LEMMA FindingsTyped ==
    ASSUME NEW s \in Situations
    PROVE  /\ Detected(s) \in SUBSET Findings /\ IsFiniteSet(Detected(s))
           /\ \A f \in Detected(s) : f.type = "duplicate" => f.key \in s.groups
  <1> DEFINE Shape == [type : Kinds, tone : Tones, title : {f.title : f \in Detected(s)}, key : {f.key : f \in Detected(s)},
                    of : {f.of : f \in Detected(s)}]
  <1>1. ASSUME NEW f \in Detected(s)
        PROVE  /\ f = Finding(f.type, f.tone, f.title, f.key, f.of) /\ f.type \in Kinds /\ f.tone \in Tones
               /\ f.type = "duplicate" => f.key \in s.groups
    <2>1. CASE f \in BudgetFindings(s)  BY <2>1 DEF BudgetFindings, Finding, Kinds, Tones
    <2>2. CASE f \in LoanFindings(s)  BY <2>2 DEF LoanFindings, Finding, Kinds, Tones
    <2>3. CASE f \in DayFindings(s) \cup BalanceFindings(s) \cup UncategorizedFindings(s)
      BY <2>3 DEF DayFindings, BalanceFindings, UncategorizedFindings, Finding, Kinds, Tones
    <2>4. CASE f \in ChargeFindings(s)  BY <2>4 DEF ChargeFindings, Finding, Kinds, Tones
    <2>5. CASE f \in DuplicateFindings(s)  BY <2>5 DEF DuplicateFindings, Finding, Kinds, Tones
    <2> QED  BY <2>1, <2>2, <2>3, <2>4, <2>5 DEF Detected
  <1>2. ASSUME NEW f \in Detected(s) PROVE f \in Findings
    <2>1. f \in AllFindings  BY DEF AllFindings
    <2>2. f.title \in Titles /\ f.key \in Grounds /\ f.of \in Subjects  BY <2>1 DEF Titles, Grounds, Subjects
    <2> QED  BY <1>1, <2>2 DEF Findings, Finding
  <1> QED  BY <1>1, <1>2, AttentionAssumption

(* A scan under way has all it looked at.                                      *)
Underway == [at : {"looked", "withdrew", "raising"}, found : SUBSET Findings, limited : {s.limited : s \in Situations},
             live : {s.groups : s \in Situations}, snapshot : SUBSET AlertRecords]
LEMMA ScanUnderway ==
    ASSUME AlertsTypeOK, NEW p \in Readers, Reading(p)
    PROVE  scan[p] \in Underway
  <1>1. scan[p] \in Scans  BY DEF AlertsTypeOK
  <1> QED  BY <1>1 DEF Scans, Underway, Reading

(* Withdrawing, reading and removing alerts leave no alert that was not there. *)
LEMMA WithdrawnTyped ==
    ASSUME AlertsTypeOK, AlertsApart, NEW p \in Readers
    PROVE  /\ Withdrawn(p) \in SUBSET AlertRecords
           /\ \A a \in Withdrawn(p) : /\ \E b \in alerts : a.id = b.id /\ a.month = b.month
                                      /\ ~a.withdrawn => a \in Visible /\ ~Gone(p, a)
           /\ \A a \in Visible : ~Gone(p, a) => a \in Withdrawn(p)
           /\ \A a, b \in Withdrawn(p) : a.id = b.id => a = b
  <1>1. alerts \in SUBSET AlertRecords  BY DEF AlertsTypeOK
  <1>2. ASSUME NEW b \in alerts
        PROVE  /\ [b EXCEPT !.withdrawn = TRUE] \in AlertRecords
               /\ [b EXCEPT !.withdrawn = TRUE].id = b.id /\ [b EXCEPT !.withdrawn = TRUE].month = b.month
               /\ [b EXCEPT !.withdrawn = TRUE].withdrawn
    BY <1>1 DEF AlertRecords
  <1> DEFINE W(b) == IF Gone(p, b) THEN [b EXCEPT !.withdrawn = TRUE] ELSE b
  <1>3. Withdrawn(p) = {W(b) : b \in alerts}  BY DEF Withdrawn
  <1>4. \A b \in alerts : /\ W(b) \in AlertRecords /\ W(b).id = b.id /\ W(b).month = b.month
                          /\ ~W(b).withdrawn => W(b) = b /\ b \in Visible /\ ~Gone(p, b)
                          /\ ~Gone(p, b) => W(b) = b
    BY <1>1, <1>2 DEF Visible
  <1>5. \A b, c \in alerts : b.id = c.id => b = c  BY DEF AlertsApart
  <1> HIDE DEF W
  <1> QED  BY <1>3, <1>4, <1>5 DEF Visible

(* Reading and removing alerts changes what was read and drops some, no more.  *)
LEMMA ActLeaves ==
    ASSUME AlertsTypeOK, AlertsApart, Act
    PROVE  /\ alerts' \in SUBSET AlertRecords
           /\ \A a \in alerts' : \E b \in alerts : /\ a.id = b.id /\ a.month = b.month /\ SameNews(a, b)
                                                   /\ a.withdrawn = b.withdrawn
           /\ \A a, b \in alerts' : a.id = b.id => a = b
  <1>1. alerts \in SUBSET AlertRecords  BY DEF AlertsTypeOK
  <1>2. \A b, c \in alerts : b.id = c.id => b = c  BY DEF AlertsApart
  <1> DEFINE R(b) == [b EXCEPT !.read = TRUE]
  <1>3. \A b \in alerts : /\ R(b) \in AlertRecords /\ R(b).id = b.id /\ R(b).month = b.month /\ SameNews(R(b), b)
                          /\ R(b).withdrawn = b.withdrawn
    BY <1>1 DEF AlertRecords, SameNews
  <1>4. \A b \in alerts : SameNews(b, b)  BY DEF SameNews
  <1> HIDE DEF R
  <1>5. CASE \E a \in Visible : alerts' = (alerts \ {a}) \cup {R(a)}
    <2>1. PICK a \in alerts : alerts' = (alerts \ {a}) \cup {R(a)}  BY <1>5 DEF Visible
    <2> QED  BY <1>1, <1>2, <1>3, <1>4, <2>1
  <1>6. CASE alerts' = {R(a) : a \in alerts}  BY <1>1, <1>2, <1>3, <1>6
  <1>7. CASE \E a \in Visible : alerts' = alerts \ {a}  BY <1>1, <1>2, <1>4, <1>7
  <1> QED  BY <1>5, <1>6, <1>7 DEF Act, MarkRead, MarkAllRead, R

(* Each finding a transaction held becomes an alert with the next ids.         *)
LEMMA SetAsSequence ==
    ASSUME NEW S, IsFiniteSet(S)
    PROVE  /\ DOMAIN SetToSeq(S) = 1..Cardinality(S) /\ Len(SetToSeq(S)) = Cardinality(S) /\ Cardinality(S) \in Nat
           /\ \A i \in DOMAIN SetToSeq(S) : SetToSeq(S)[i] \in S
           /\ \A i, j \in DOMAIN SetToSeq(S) : SetToSeq(S)[i] = SetToSeq(S)[j] => i = j
           /\ \A x \in S : \E i \in DOMAIN SetToSeq(S) : SetToSeq(S)[i] = x
  <1> DEFINE n == Cardinality(S)
             q == SetToSeq(S)
  <1>1. n \in Nat /\ ExistsBijection(1..n, S)  BY FS_CardinalityType
  <1> HIDE DEF n
  <1>2. PICK b \in Bijection(1..n, S) : TRUE  BY <1>1 DEF ExistsBijection
  <1>3. b \in [1..n -> S] /\ IsInjective(b)  BY <1>2 DEF Bijection, Injection, IsInjective
  <1>4. q \in [1..n -> S] /\ IsInjective(q)  BY <1>3 DEF SetToSeq, n
  <1> HIDE DEF q
  <1>5. q \in Injection(1..n, S)  BY <1>4 DEF Injection, IsInjective
  <1>6. q \in Surjection(1..n, S)
    <2>1. Cardinality(1..n) = n  BY <1>1, FS_Interval
    <2> QED  BY <1>5, <2>1, FS_Injection DEF n
  <1>7. Len(q) = n  BY <1>1, <1>4
  <1> QED  BY <1>1, <1>4, <1>6, <1>7 DEF n, q, IsInjective, Surjection

NewOnes(q, first) == {Alert(q[i], first + i - 1) : i \in DOMAIN q}
NumberedFrom(new, low, high) == \A a \in new : a.id >= low /\ a.id < high
LEMMA NewAlerts ==
    ASSUME AlertsTypeOK, NEW S \in SUBSET Findings, IsFiniteSet(S), NEW first \in Nat \ {0}, NEW q, q = SetToSeq(S),
           NEW new, new = NewOnes(q, first)
    PROVE  /\ new \in SUBSET AlertRecords /\ first + Len(q) \in Nat \ {0}
           /\ NumberedFrom(new, first, first + Len(q))
           /\ \A a \in new : /\ a.month = month /\ ~a.withdrawn
                             /\ \E f \in S : SameNews(a, f)
           /\ \A f \in S : \E a \in new : SameNews(a, f)
           /\ \A a, b \in new : a.id = b.id => a = b
           /\ \A a, b \in new : a.id # b.id => \E f, g \in S : f # g /\ SameNews(a, f) /\ SameNews(b, g)
  <1>1. /\ DOMAIN q = 1..Len(q) /\ Len(q) \in Nat /\ \A i \in 1..Len(q) : q[i] \in S
        /\ \A i, j \in 1..Len(q) : q[i] = q[j] => i = j
        /\ \A f \in S : \E i \in 1..Len(q) : q[i] = f
    BY SetAsSequence
  <1>2. month \in Nat  BY DEF AlertsTypeOK
  <1>3. \A i \in 1..Len(q) : /\ q[i] \in Findings /\ first + i - 1 \in Nat
                             /\ first + i - 1 >= first /\ first + i - 1 < first + Len(q)
    BY <1>1
  <1>4. \A i \in 1..Len(q) : /\ Alert(q[i], first + i - 1) \in AlertRecords /\ Alert(q[i], first + i - 1).id = first + i - 1
                             /\ Alert(q[i], first + i - 1).month = month /\ ~Alert(q[i], first + i - 1).withdrawn
                             /\ SameNews(Alert(q[i], first + i - 1), q[i])
    BY <1>2, <1>3 DEF Alert, AlertRecords, Findings, SameNews
  <1>5. \A i, j \in 1..Len(q) : first + i - 1 = first + j - 1 => i = j  OBVIOUS
  <1>6. first + Len(q) \in Nat \ {0}  BY <1>1
  <1>7. new = {Alert(q[i], first + i - 1) : i \in 1..Len(q)}  BY <1>1 DEF NewOnes
  <1>8. new \in SUBSET AlertRecords  BY <1>4, <1>7
  <1>9. \A a \in new : \E i \in 1..Len(q) : a = Alert(q[i], first + i - 1)  BY <1>7
  <1>10. \A i \in 1..Len(q) : Alert(q[i], first + i - 1) \in new  BY <1>7
  <1>11. \A a \in new : /\ a.id >= first /\ a.id < first + Len(q) /\ a.month = month /\ ~a.withdrawn
                        /\ \E f \in S : SameNews(a, f)
    BY <1>1, <1>3, <1>4, <1>9
  <1>12. \A f \in S : \E a \in new : SameNews(a, f)  BY <1>1, <1>4, <1>10
  <1>13. \A a, b \in new : a.id = b.id => a = b  BY <1>4, <1>5, <1>9
  <1>14. ASSUME NEW a \in new, NEW b \in new, a.id # b.id PROVE \E f, g \in S : f # g /\ SameNews(a, f) /\ SameNews(b, g)
    <2>1. PICK i \in 1..Len(q) : a = Alert(q[i], first + i - 1)  BY <1>9
    <2>2. PICK j \in 1..Len(q) : b = Alert(q[j], first + j - 1)  BY <1>9
    <2>3. q[i] # q[j] /\ q[i] \in S /\ q[j] \in S  BY <1>1, <1>14, <2>1, <2>2
    <2>4. SameNews(a, q[i]) /\ SameNews(b, q[j])  BY <1>4, <2>1, <2>2
    <2> QED  BY <2>3, <2>4
  <1>15. NumberedFrom(new, first, first + Len(q))  BY <1>11 DEF NumberedFrom
  <1>16. \A a \in new : a.month = month /\ ~a.withdrawn /\ \E f \in S : SameNews(a, f)  BY <1>11
  <1> QED  BY <1>6, <1>8, <1>12, <1>13, <1>14, <1>15, <1>16

(* Where a step of a scan leaves it, and the others where they were.           *)
Moved(p) == \A q \in Readers \ {p} : scan'[q] = scan[q]
LEMMA Steps ==
    ASSUME AlertsTypeOK, NEW p \in Readers
    PROVE  /\ Look(p) => /\ ~Reading(p) /\ Moved(p) /\ scan' \in [Readers -> Scans] /\ scan'[p].at = "looked"
                         /\ scan'[p].found = Detected(situation) /\ scan'[p].limited = situation.limited
                         /\ scan'[p].live = situation.groups /\ (p \in Locked => scan'[p].snapshot = Showing)
           /\ Withdraw(p) => /\ scan[p].at = "looked" /\ Moved(p) /\ scan' \in [Readers -> Scans] /\ scan'[p].at = "withdrew"
                             /\ scan'[p].found = scan[p].found /\ scan'[p].limited = scan[p].limited
                             /\ scan'[p].live = scan[p].live /\ scan'[p].snapshot = scan[p].snapshot
           /\ Compare(p) => /\ scan[p].at = "withdrew" /\ Moved(p) /\ scan' \in [Readers -> Scans] /\ scan'[p].at = "raising"
                            /\ scan'[p].found = Missing(p) /\ scan'[p].limited = scan[p].limited
                            /\ scan'[p].live = scan[p].live /\ scan'[p].snapshot = scan[p].snapshot
           /\ Raise(p) => /\ scan[p].at = "raising" /\ p \notin Locked /\ Moved(p) /\ scan' \in [Readers -> Scans]
                          /\ scan'[p].at = "raising" /\ scan'[p].limited = scan[p].limited
                          /\ scan'[p].live = scan[p].live /\ scan'[p].snapshot = scan[p].snapshot
                          /\ \E f \in scan[p].found : scan'[p].found = scan[p].found \ {f} /\ alerts' = alerts \cup {Alert(f, nextId)}
           /\ Answer(p) \/ Commit(p) => scan[p].at = "raising" /\ Moved(p) /\ scan' \in [Readers -> Scans] /\ ~Reading(p)'
  <1>1. scan \in [Readers -> Scans]  BY DEF AlertsTypeOK
  <1>2. Reading(p) => scan[p] \in Underway  BY ScanUnderway
  <1>3. Underway \subseteq Scans /\ Idle \in Scans  BY DEF Underway, Scans, Idle
  <1>4. Look(p) => /\ ~Reading(p) /\ Moved(p) /\ scan' \in [Readers -> Scans] /\ scan'[p].at = "looked"
                   /\ scan'[p].found = Detected(situation) /\ scan'[p].limited = situation.limited
                   /\ scan'[p].live = situation.groups /\ (p \in Locked => scan'[p].snapshot = Showing)
    <2> DEFINE r == [at |-> "looked", found |-> Detected(situation), limited |-> situation.limited, live |-> situation.groups,
                     snapshot |-> IF p \in Locked THEN Showing ELSE {}]
    <2>1. r \in Underway
      <3>1. situation \in Situations /\ Showing \in SUBSET AlertRecords  BY DEF AlertsTypeOK, Showing, Visible
      <3>2. Detected(situation) \in SUBSET Findings  BY <3>1, FindingsTyped
      <3> QED  BY <3>1, <3>2 DEF Underway
    <2>2. /\ r.at = "looked" /\ r.found = Detected(situation) /\ r.limited = situation.limited /\ r.live = situation.groups
          /\ p \in Locked => r.snapshot = Showing
      OBVIOUS
    <2>3. Look(p) => ~Reading(p) /\ scan' = [scan EXCEPT ![p] = r]  BY DEF Look
    <2> HIDE DEF r
    <2> QED  BY <1>1, <1>3, <2>1, <2>2, <2>3 DEF Moved
  <1>5. Withdraw(p) => /\ scan[p].at = "looked" /\ Moved(p) /\ scan' \in [Readers -> Scans] /\ scan'[p].at = "withdrew"
                       /\ scan'[p].found = scan[p].found /\ scan'[p].limited = scan[p].limited
                       /\ scan'[p].live = scan[p].live /\ scan'[p].snapshot = scan[p].snapshot
    <2> SUFFICES ASSUME Withdraw(p) PROVE /\ scan[p].at = "looked" /\ scan' = [scan EXCEPT ![p] = [scan[p] EXCEPT !.at = "withdrew"]]
                                          /\ scan[p] \in Underway
      BY <1>1, <1>3 DEF Moved, Underway
    <2> QED  BY <1>2 DEF Withdraw, Reading
  <1>6. Compare(p) => /\ scan[p].at = "withdrew" /\ Moved(p) /\ scan' \in [Readers -> Scans] /\ scan'[p].at = "raising"
                      /\ scan'[p].found = Missing(p) /\ scan'[p].limited = scan[p].limited
                      /\ scan'[p].live = scan[p].live /\ scan'[p].snapshot = scan[p].snapshot
    <2> DEFINE r == [scan[p] EXCEPT !.at = "raising", !.found = Missing(p)]
    <2> SUFFICES ASSUME Compare(p) PROVE /\ scan[p].at = "withdrew" /\ scan' = [scan EXCEPT ![p] = r]
                                         /\ scan[p] \in Underway /\ Missing(p) \in SUBSET Findings
      BY <1>1, <1>3 DEF Moved, Underway
    <2>1. scan[p].at = "withdrew" /\ scan[p] \in Underway  BY <1>2 DEF Compare, Reading
    <2>2. Missing(p) \in SUBSET Findings  BY <2>1 DEF Missing, Underway
    <2>3. scan' = [scan EXCEPT ![p] = r]  BY <1>1, <2>1 DEF Compare, Underway
    <2> QED  BY <2>1, <2>2, <2>3
  <1>7. Raise(p) => /\ scan[p].at = "raising" /\ p \notin Locked /\ Moved(p) /\ scan' \in [Readers -> Scans]
                    /\ scan'[p].at = "raising" /\ scan'[p].limited = scan[p].limited
                    /\ scan'[p].live = scan[p].live /\ scan'[p].snapshot = scan[p].snapshot
                    /\ \E f \in scan[p].found : scan'[p].found = scan[p].found \ {f} /\ alerts' = alerts \cup {Alert(f, nextId)}
    <2> SUFFICES ASSUME Raise(p)
                 PROVE  /\ scan[p].at = "raising" /\ p \notin Locked /\ scan[p] \in Underway
                        /\ \E f \in scan[p].found : /\ scan' = [scan EXCEPT ![p] = [scan[p] EXCEPT !.found = scan[p].found \ {f}]]
                                                    /\ alerts' = alerts \cup {Alert(f, nextId)}
      BY <1>1, <1>3 DEF Moved, Underway
    <2> DEFINE f == CHOOSE f \in scan[p].found : TRUE
    <2>1. scan[p].at = "raising" /\ p \notin Locked /\ scan[p] \in Underway  BY <1>2 DEF Raise, Reading
    <2>2. f \in scan[p].found  BY DEF Raise
    <2>3. /\ scan' = [scan EXCEPT ![p] = [scan[p] EXCEPT !.found = scan[p].found \ {f}]]
          /\ alerts' = alerts \cup {Alert(f, nextId)}
      BY DEF Raise
    <2> HIDE DEF f
    <2> QED  BY <2>1, <2>2, <2>3
  <1>8. Answer(p) \/ Commit(p) => scan[p].at = "raising" /\ Moved(p) /\ scan' \in [Readers -> Scans] /\ ~Reading(p)'
    BY <1>1, <1>3 DEF Answer, Commit, Moved, Reading, Idle
  <1> QED  BY <1>4, <1>5, <1>6, <1>7, <1>8

(* Every step keeps the types and the ids.                                     *)
LEMMA AlertsStep == AlertsTypeOK /\ AlertsApart /\ [AttentionNext]_alertVars => AlertsTypeOK' /\ AlertsApart'
  <1> SUFFICES ASSUME AlertsTypeOK, AlertsApart, [AttentionNext]_alertVars PROVE AlertsTypeOK' /\ AlertsApart'
    OBVIOUS
  <1>1. /\ situation \in Situations /\ month \in Nat /\ nextId \in Nat \ {0} /\ raced \in BOOLEAN
        /\ alone \in [Readers -> BOOLEAN] /\ alerts \in SUBSET AlertRecords /\ scan \in [Readers -> Scans]
        /\ \A p \in Readers : Reading(p) => IsFiniteSet(scan[p].found)
    BY DEF AlertsTypeOK
  <1>2. \A a \in alerts : a.id \in Nat /\ a.month \in Nat  BY <1>1 DEF AlertRecords
  <1>3. \A a \in alerts : a.id < nextId /\ a.month <= month  BY DEF AlertsApart
  <1>4. \A a, b \in alerts : a.id = b.id => a = b  BY DEF AlertsApart
  <1>5. ASSUME NEW q PROVE Disturb(q) => alone' \in [Readers -> BOOLEAN]  BY <1>1 DEF Disturb
  <1>6. CASE UNCHANGED alertVars  BY <1>6 DEF alertVars, AlertsTypeOK, AlertsApart, Reading
  <1>7. ASSUME NEW p \in Readers, Look(p) PROVE AlertsTypeOK' /\ AlertsApart'
    <2>1. /\ UNCHANGED <<situation, month, alerts, nextId>> /\ raced' \in BOOLEAN /\ alone' \in [Readers -> BOOLEAN]
      BY <1>7 DEF Look
    <2>2. scan' \in [Readers -> Scans] /\ scan'[p].found = Detected(situation) /\ Moved(p)  BY <1>7, Steps
    <2>3. IsFiniteSet(Detected(situation))  BY <1>1, FindingsTyped
    <2>4. \A q \in Readers : Reading(q)' => IsFiniteSet(scan'[q].found)
      BY <1>1, <2>2, <2>3 DEF Moved, Reading
    <2> QED  BY <1>1, <1>3, <1>4, <2>1, <2>2, <2>4 DEF AlertsTypeOK, AlertsApart
  <1>8. ASSUME NEW p \in Readers, Withdraw(p) \/ Compare(p) PROVE AlertsTypeOK' /\ AlertsApart'
    <2>1. UNCHANGED <<situation, month, nextId, raced>> /\ alone' \in [Readers -> BOOLEAN]
      BY <1>5, <1>8 DEF Withdraw, Compare
    <2>2. scan' \in [Readers -> Scans] /\ Moved(p) /\ scan'[p].found \in SUBSET scan[p].found /\ Reading(p)
      BY <1>8, Steps DEF Missing, Reading
    <2>3. \A q \in Readers : Reading(q)' => IsFiniteSet(scan'[q].found)
      BY <1>1, <2>2, FS_Subset DEF Moved, Reading
    <2>4. alerts' = alerts \/ alerts' = Withdrawn(p)  BY <1>8 DEF Withdraw, Compare
    <2>5. alerts' \in SUBSET AlertRecords /\ AlertsApart'
      <3>1. CASE alerts' = alerts  BY <1>1, <1>3, <1>4, <2>1, <3>1 DEF AlertsApart
      <3>2. CASE alerts' = Withdrawn(p)  BY <1>3, <2>1, <3>2, WithdrawnTyped DEF AlertsApart
      <3> QED  BY <2>4, <3>1, <3>2
    <2> QED  BY <1>1, <2>1, <2>2, <2>3, <2>5 DEF AlertsTypeOK
  <1>9. ASSUME NEW p \in Readers, Raise(p) PROVE AlertsTypeOK' /\ AlertsApart'
    <2>1. UNCHANGED <<situation, month, raced>> /\ nextId' = nextId + 1 /\ alone' \in [Readers -> BOOLEAN]
      BY <1>5, <1>9 DEF Raise
    <2>2. scan' \in [Readers -> Scans] /\ Moved(p) /\ Reading(p)  BY <1>9, Steps DEF Reading
    <2>3. PICK f \in scan[p].found : scan'[p].found = scan[p].found \ {f} /\ alerts' = alerts \cup {Alert(f, nextId)}
      BY <1>9, Steps
    <2>4. \A q \in Readers : Reading(q)' => IsFiniteSet(scan'[q].found)
      BY <1>1, <2>2, <2>3, FS_Subset DEF Moved, Reading
    <2>5. f \in Findings  BY <2>2, <2>3, ScanUnderway DEF Underway
    <2>6. Alert(f, nextId) \in AlertRecords /\ Alert(f, nextId).id = nextId /\ Alert(f, nextId).month = month
      BY <1>1, <2>5 DEF Alert, AlertRecords, Findings
    <2>7. AlertsApart'  BY <1>1, <1>2, <1>3, <1>4, <2>1, <2>3, <2>6 DEF AlertsApart
    <2> QED  BY <1>1, <2>1, <2>2, <2>3, <2>4, <2>6, <2>7 DEF AlertsTypeOK
  <1>10. ASSUME NEW p \in Readers, Answer(p) PROVE AlertsTypeOK' /\ AlertsApart'
    <2>1. UNCHANGED <<situation, month, alerts, nextId, raced>> /\ alone' \in [Readers -> BOOLEAN]
      BY <1>5, <1>10 DEF Answer
    <2>2. scan' \in [Readers -> Scans] /\ Moved(p) /\ ~Reading(p)'  BY <1>10, Steps
    <2>3. \A q \in Readers : Reading(q)' => IsFiniteSet(scan'[q].found)  BY <1>1, <2>2 DEF Moved, Reading
    <2> QED  BY <1>1, <1>3, <1>4, <2>1, <2>2, <2>3 DEF AlertsTypeOK, AlertsApart
  <1>11. ASSUME NEW p \in Readers, Commit(p) PROVE AlertsTypeOK' /\ AlertsApart'
    <2>1. UNCHANGED <<situation, month, raced>> /\ alone' \in [Readers -> BOOLEAN]
      BY <1>5, <1>11 DEF Commit
    <2>2. scan' \in [Readers -> Scans] /\ Moved(p) /\ ~Reading(p)' /\ Reading(p)  BY <1>11, Steps DEF Reading
    <2>3. \A q \in Readers : Reading(q)' => IsFiniteSet(scan'[q].found)  BY <1>1, <2>2 DEF Moved, Reading
    <2>4. scan[p].found \in SUBSET Findings /\ IsFiniteSet(scan[p].found)
      BY <1>1, <2>2, ScanUnderway DEF Underway
    <2>5. PICK q : q = SetToSeq(scan[p].found)  OBVIOUS
    <2>6. PICK new : new = NewOnes(q, nextId)  OBVIOUS
    <2>7. nextId' = nextId + Len(q) /\ alerts' = Withdrawn(p) \cup new  BY <1>11, <2>5, <2>6 DEF Commit, NewOnes
    <2>8. /\ new \in SUBSET AlertRecords /\ nextId + Len(q) \in Nat \ {0}
          /\ \A a \in new : a.id >= nextId /\ a.id < nextId + Len(q) /\ a.month = month
          /\ \A a, b \in new : a.id = b.id => a = b
      <3>1. PICK S, first : S = scan[p].found /\ first = nextId  OBVIOUS
      <3>2. first \in Nat \ {0}  BY <1>1, <3>1
      <3>3. S \in SUBSET Findings /\ IsFiniteSet(S) /\ q = SetToSeq(S) /\ new = NewOnes(q, first)
        BY <2>4, <2>5, <2>6, <3>1
      <3>4. new \in SUBSET AlertRecords /\ first + Len(q) \in Nat \ {0}
        BY <3>2, <3>3, NewAlerts
      <3>5. NumberedFrom(new, first, first + Len(q))
        BY <3>2, <3>3, NewAlerts
      <3>6. /\ \A a \in new : a.month = month
            /\ \A a, b \in new : a.id = b.id => a = b
        BY <3>2, <3>3, NewAlerts
      <3> QED  BY <3>1, <3>4, <3>5, <3>6 DEF NumberedFrom
    <2>9. /\ Withdrawn(p) \in SUBSET AlertRecords
          /\ \A a \in Withdrawn(p) : \E b \in alerts : a.id = b.id /\ a.month = b.month
          /\ \A a, b \in Withdrawn(p) : a.id = b.id => a = b
      BY WithdrawnTyped
    <2>10. \A a \in Withdrawn(p) : a.id \in Nat /\ a.id < nextId /\ a.month <= month  BY <1>2, <1>3, <2>9
    <2>11. nextId + Len(q) > nextId \/ new = {}
      <3>1. ASSUME NEW a \in new PROVE nextId + Len(q) > nextId
        <4>1. a.id \in Nat  BY <2>8 DEF AlertRecords
        <4> QED  BY <1>1, <2>8, <4>1
      <3> QED  BY <3>1
    <2>12. nextId + Len(q) >= nextId
      <3>1. Len(q) \in Nat  BY <2>4, <2>5, SetAsSequence
      <3> QED  BY <1>1, <3>1
    <2>13. AlertsApart'
      <3>1. \A a \in alerts' : a.id < nextId' /\ a.month <= month'  BY <1>1, <2>1, <2>7, <2>8, <2>10, <2>12
      <3>2. \A a, b \in alerts' : a.id = b.id => a = b
        <4>1. \A a \in Withdrawn(p), b \in new : a.id # b.id
          <5>1. \A b \in new : b.id \in Nat  BY <2>8 DEF AlertRecords
          <5> QED  BY <1>1, <2>8, <2>10, <5>1
        <4> QED  BY <2>7, <2>8, <2>9, <4>1
      <3> QED  BY <3>1, <3>2 DEF AlertsApart
    <2> QED  BY <1>1, <2>1, <2>2, <2>3, <2>7, <2>8, <2>9, <2>13 DEF AlertsTypeOK
  <1>12. CASE Act
    <2>1. UNCHANGED <<situation, month, nextId, scan, raced>> /\ alone' \in [Readers -> BOOLEAN]  BY <1>5, <1>12 DEF Act
    <2>2. AlertsApart'  BY <1>3, <1>12, <2>1, ActLeaves DEF AlertsApart
    <2> QED  BY <1>1, <1>12, <2>1, <2>2, ActLeaves DEF AlertsTypeOK, Reading
  <1>13. CASE Change
    <2>1. situation' \in Situations /\ UNCHANGED <<month, alerts, nextId, scan, raced>> /\ alone' \in [Readers -> BOOLEAN]
      BY <1>5, <1>13 DEF Change
    <2> QED  BY <1>1, <1>3, <1>4, <2>1 DEF AlertsTypeOK, AlertsApart, Reading
  <1>14. CASE MonthPasses
    <2>1. month' = month + 1 /\ UNCHANGED <<situation, alerts, nextId, scan, alone, raced>>  BY <1>14 DEF MonthPasses
    <2> QED  BY <1>1, <1>2, <1>3, <1>4, <2>1 DEF AlertsTypeOK, AlertsApart, Reading
  <1> QED  BY <1>6, <1>7, <1>8, <1>9, <1>10, <1>11, <1>12, <1>13, <1>14 DEF AttentionNext

(* What a scan knows is the names of what shows.                               *)
LEMMA KnownNames ==
    ASSUME NEW p
    PROVE  \A k : k \in Known(p) <=> \E a : SeenBy(p, a) /\ k = DedupeKey(a)
  BY DEF Known, Shows, SeenBy

(* Nor does it depend on anything else.                                        *)
LEMMA SameKnown ==
    ASSUME NEW p, UNCHANGED <<alerts, month>>, scan'[p].snapshot = scan[p].snapshot,
           scan'[p].limited = scan[p].limited, scan'[p].live = scan[p].live
    PROVE  Known(p)' = Known(p) /\ Showing' = Showing /\ Visible' = Visible
  <1>1. Showing' = Showing /\ Visible' = Visible  BY DEF Showing, Visible
  <1>2. \A a : Gone(p, a)' <=> Gone(p, a)  BY DEF Gone
  <1> QED  BY <1>1, <1>2 DEF Known, Shows

(* What the last step of a scan leaves.                                        *)
Settled(p) ==
    /\ {DedupeKey(f) : f \in Detected(situation)} \subseteq Shows(Showing')
    /\ situation.limited \/ \A a \in Visible' : a.type = "duplicate" => a.key \in situation.groups

(* The last step of a scan nobody disturbed settles the alerts.                *)
LEMMA Settling ==
    ASSUME AlertsTypeOK, AlertsApart, NEW p \in Readers, Undisturbed(p), Answer(p) \/ Commit(p)
    PROVE  Settled(p)
  <1>1. scan[p].at = "raising" /\ Reading(p)  BY Steps DEF Reading
  <1>2. /\ scan[p].limited = situation.limited /\ scan[p].live = situation.groups /\ (p \in Locked => scan[p].snapshot = Showing)
        /\ scan[p].found \subseteq Detected(situation)
        /\ \A f \in Detected(situation) : f \in scan[p].found \/ DedupeKey(f) \in Known(p)
        /\ p \notin Locked => situation.limited \/ NoneStale
    BY <1>1 DEF Undisturbed
  <1>3. CASE Answer(p)
    <2>1. p \notin Locked /\ scan[p].found = {} /\ UNCHANGED <<alerts, month>>  BY <1>3 DEF Answer
    <2>2. Showing' = Showing /\ Visible' = Visible  BY <2>1 DEF Showing, Visible
    <2>3. Known(p) = Shows(Showing)  BY <2>1 DEF Known
    <2> QED  BY <1>2, <2>1, <2>2, <2>3 DEF Settled, NoneStale
  <1>4. CASE Commit(p)
    <2>1. p \in Locked /\ UNCHANGED month  BY <1>4 DEF Commit
    <2>2. scan[p].found \in SUBSET Findings /\ IsFiniteSet(scan[p].found)
      BY <1>1, ScanUnderway DEF Underway, AlertsTypeOK
    <2>3. PICK q : q = SetToSeq(scan[p].found)  OBVIOUS
    <2>4. PICK new : new = NewOnes(q, nextId)  OBVIOUS
    <2>5. alerts' = Withdrawn(p) \cup new  BY <1>4, <2>3, <2>4 DEF Commit, NewOnes
    <2>6. nextId \in Nat \ {0}  BY DEF AlertsTypeOK
    <2>7. /\ \A a \in new : a.month = month /\ ~a.withdrawn /\ \E f \in scan[p].found : SameNews(a, f)
          /\ \A f \in scan[p].found : \E a \in new : SameNews(a, f)
      <3>1. PICK S, first : S = scan[p].found /\ first = nextId  OBVIOUS
      <3>2. first \in Nat \ {0}  BY <2>6, <3>1
      <3>3. S \in SUBSET Findings /\ IsFiniteSet(S) /\ q = SetToSeq(S) /\ new = NewOnes(q, first)
        BY <2>2, <2>3, <2>4, <3>1
      <3>4. /\ \A a \in new : a.month = month /\ ~a.withdrawn /\ \E f \in S : SameNews(a, f)
            /\ \A f \in S : \E a \in new : SameNews(a, f)
        BY <3>2, <3>3, NewAlerts
      <3> QED  BY <3>1, <3>4
    <2>8. /\ \A a \in Withdrawn(p) : ~a.withdrawn => a \in Visible /\ ~Gone(p, a)
          /\ \A a \in Visible : ~Gone(p, a) => a \in Withdrawn(p)
      BY WithdrawnTyped
    <2>9. ASSUME NEW f \in Detected(situation) PROVE \E a \in Showing' : DedupeKey(f) = DedupeKey(a)
      <3>1. CASE f \in scan[p].found
        <4>1. PICK a \in new : SameNews(a, f)  BY <2>7, <3>1
        <4>2. a \in Showing'  BY <2>1, <2>5, <2>7 DEF Showing, Visible
        <4> QED  BY <4>1, <4>2 DEF SameNews, DedupeKey
      <3>2. CASE DedupeKey(f) \in Known(p)
        <4>1. PICK a : SeenBy(p, a) /\ DedupeKey(f) = DedupeKey(a)  BY <3>2, KnownNames
        <4>2. a \in Showing /\ ~Gone(p, a)  BY <1>2, <2>1, <4>1 DEF SeenBy
        <4>3. a \in Showing'  BY <2>1, <2>5, <2>8, <4>2 DEF Showing, Visible
        <4> QED  BY <4>1, <4>3
      <3> QED  BY <1>2, <3>1, <3>2
    <2>10. ASSUME ~situation.limited, NEW a \in Visible', a.type = "duplicate" PROVE a.key \in situation.groups
      <3>1. CASE a \in Withdrawn(p)
        <4>1. ~Gone(p, a)  BY <2>8, <2>10, <3>1 DEF Visible
        <4> QED  BY <1>2, <2>10, <4>1 DEF Gone
      <3>2. CASE a \in new
        <4>1. PICK f \in scan[p].found : SameNews(a, f)  BY <2>7, <3>2
        <4>2. situation \in Situations  BY DEF AlertsTypeOK
        <4> QED  BY <1>2, <2>10, <4>1, <4>2, FindingsTyped DEF SameNews
      <3> QED  BY <2>5, <2>10, <3>1, <3>2 DEF Visible
    <2> QED  BY <2>9, <2>10 DEF Settled, Shows
  <1> QED  BY <1>3, <1>4

(* No step takes from a scan nobody disturbed what it knows.                   *)
LEMMA LoneStep == AlertsTypeOK /\ AlertsApart /\ LoneInv /\ [AttentionNext]_alertVars => LoneInv'
  <1> SUFFICES ASSUME AlertsTypeOK, AlertsApart, LoneInv, [AttentionNext]_alertVars,
                      NEW p \in Readers, alone'[p], Reading(p)'
               PROVE  Undisturbed(p)'
    BY DEF LoneInv
  <1>1. situation \in Situations /\ scan \in [Readers -> Scans]  BY DEF AlertsTypeOK
  <1>2. ASSUME NEW q, Disturb(q) PROVE p = q /\ alone[p]  BY <1>2 DEF Disturb
  <1>3. alone[p] /\ Reading(p) => Undisturbed(p)  BY DEF LoneInv
  <1>4. CASE UNCHANGED <<situation, month, alerts, scan>> /\ alone[p]
    <2>1. Reading(p) /\ Undisturbed(p)  BY <1>3, <1>4 DEF Reading
    <2>2. Known(p)' = Known(p) /\ Showing' = Showing /\ Visible' = Visible  BY <1>4, SameKnown
    <2>3. NoneStale' = NoneStale  BY <1>4, <2>2 DEF NoneStale
    <2> QED  BY <1>4, <2>1, <2>2, <2>3 DEF Undisturbed
  <1>5. ASSUME NEW q \in Readers, Look(q) PROVE Undisturbed(p)'
    <2>1. p = q /\ UNCHANGED <<situation, month, alerts>>  BY <1>5 DEF Look
    <2>2. /\ scan'[p].at = "looked" /\ scan'[p].found = Detected(situation) /\ scan'[p].limited = situation.limited
          /\ scan'[p].live = situation.groups /\ (p \in Locked => scan'[p].snapshot = Showing)
      BY <1>5, <2>1, Steps
    <2>3. Showing' = Showing  BY <2>1 DEF Showing, Visible
    <2> QED  BY <2>1, <2>2, <2>3 DEF Undisturbed
  <1>6. ASSUME NEW q \in Readers, Withdraw(q) PROVE Undisturbed(p)'
    <2>1. p = q /\ alone[p] /\ UNCHANGED <<situation, month>>  BY <1>2, <1>6 DEF Withdraw
    <2>2. /\ scan[p].at = "looked" /\ scan'[p].at = "withdrew" /\ scan'[p].found = scan[p].found
          /\ scan'[p].limited = scan[p].limited /\ scan'[p].live = scan[p].live /\ scan'[p].snapshot = scan[p].snapshot
      BY <1>6, <2>1, Steps
    <2>3. Undisturbed(p)  BY <1>3, <2>1, <2>2 DEF Reading
    <2>4. /\ scan[p].limited = situation.limited /\ scan[p].live = situation.groups /\ scan[p].found = Detected(situation)
          /\ p \in Locked => scan[p].snapshot = Showing
      BY <2>2, <2>3 DEF Undisturbed
    <2>5. CASE p \in Locked
      <3>1. alerts' = alerts  BY <1>6, <2>1, <2>5 DEF Withdraw
      <3>2. Showing' = Showing  BY <2>1, <3>1 DEF Showing, Visible
      <3> QED  BY <2>1, <2>2, <2>4, <2>5, <3>2 DEF Undisturbed
    <2>6. CASE p \notin Locked
      <3>1. alerts' = Withdrawn(p)  BY <1>6, <2>1, <2>6 DEF Withdraw
      <3>2. \A a \in Visible' : ~Gone(p, a)  BY <3>1, WithdrawnTyped DEF Visible
      <3>3. situation.limited \/ NoneStale'  BY <2>1, <2>4, <3>2 DEF Gone, NoneStale
      <3> QED  BY <2>1, <2>2, <2>4, <2>6, <3>3 DEF Undisturbed
    <2> QED  BY <2>5, <2>6
  <1>7. ASSUME NEW q \in Readers, Compare(q) PROVE Undisturbed(p)'
    <2>1. p = q /\ alone[p] /\ UNCHANGED <<situation, month, alerts>>  BY <1>2, <1>7 DEF Compare
    <2>2. /\ scan[p].at = "withdrew" /\ scan'[p].at = "raising" /\ scan'[p].found = Missing(p)
          /\ scan'[p].limited = scan[p].limited /\ scan'[p].live = scan[p].live /\ scan'[p].snapshot = scan[p].snapshot
      BY <1>7, <2>1, Steps
    <2>3. Undisturbed(p)  BY <1>3, <2>1, <2>2 DEF Reading
    <2>4. Known(p)' = Known(p) /\ Showing' = Showing /\ Visible' = Visible  BY <2>1, <2>2, SameKnown
    <2>5. NoneStale' = NoneStale  BY <2>1, <2>4 DEF NoneStale
    <2>6. /\ Missing(p) \subseteq Detected(situation)
          /\ \A f \in Detected(situation) : f \in Missing(p) \/ DedupeKey(f) \in Known(p)
      BY <2>2, <2>3 DEF Missing, Undisturbed
    <2> QED  BY <2>1, <2>2, <2>3, <2>4, <2>5, <2>6 DEF Undisturbed
  <1>8. ASSUME NEW q \in Readers, Raise(q) PROVE Undisturbed(p)'
    <2>1. p = q /\ alone[p] /\ UNCHANGED <<situation, month>>  BY <1>2, <1>8 DEF Raise
    <2>2. /\ scan[p].at = "raising" /\ scan'[p].at = "raising" /\ p \notin Locked
          /\ scan'[p].limited = scan[p].limited /\ scan'[p].live = scan[p].live /\ scan'[p].snapshot = scan[p].snapshot
      BY <1>8, <2>1, Steps
    <2>3. PICK f \in scan[p].found : scan'[p].found = scan[p].found \ {f} /\ alerts' = alerts \cup {Alert(f, nextId)}
      BY <1>8, <2>1, Steps
    <2>4. Undisturbed(p)  BY <1>3, <2>1, <2>2 DEF Reading
    <2>5. f \in Detected(situation) /\ f.type = "duplicate" => f.key \in situation.groups
      BY <1>1, <2>2, <2>3, <2>4, FindingsTyped DEF Undisturbed
    <2>6. /\ Alert(f, nextId).month = month /\ ~Alert(f, nextId).withdrawn /\ SameNews(Alert(f, nextId), f)
          /\ DedupeKey(Alert(f, nextId)) = DedupeKey(f)
      BY DEF Alert, SameNews, DedupeKey
    <2>7. Showing' = Showing \cup {Alert(f, nextId)} /\ Visible' = Visible \cup {Alert(f, nextId)}
      BY <2>1, <2>3, <2>6 DEF Showing, Visible
    <2>8. NoneStale => NoneStale'
      <3>1. f \in Detected(situation)  BY <2>2, <2>3, <2>4 DEF Undisturbed
      <3> QED  BY <2>1, <2>5, <2>6, <2>7, <3>1 DEF NoneStale, SameNews
    <2>9. Known(p) = Shows(Showing) /\ Known(p)' = Shows(Showing')  BY <2>2 DEF Known
    <2>10. Shows(Showing') = Shows(Showing) \cup {DedupeKey(f)}  BY <2>6, <2>7 DEF Shows
    <2> QED  BY <2>1, <2>2, <2>3, <2>4, <2>8, <2>9, <2>10 DEF Undisturbed
  <1>9. ASSUME NEW q \in Readers, Answer(q) \/ Commit(q) PROVE FALSE
    <2>1. p = q  BY <1>2, <1>9 DEF Answer, Commit
    <2> QED  BY <1>9, <2>1, Steps
  <1>10. CASE Act \/ Change
    <2>1. Nobody \notin Readers  BY AttentionAssumption
    <2> QED  BY <1>2, <1>10, <2>1 DEF Act, Change
  <1>11. CASE MonthPasses  BY <1>11 DEF MonthPasses, Reading
  <1>12. CASE UNCHANGED alertVars  BY <1>4, <1>12 DEF alertVars
  <1> QED  BY <1>5, <1>6, <1>7, <1>8, <1>9, <1>10, <1>11, <1>12 DEF AttentionNext

(* While no two scans met, only one can be under way, what it found has names  *)
(* of its own, and after it compared no alert shows them.                      *)
LEMMA Fewer ==
    ASSUME OnceInv, ~raced, UNCHANGED <<month, scan, raced>>,
           \A a \in alerts' : \E b \in alerts : /\ a.id = b.id /\ a.month = b.month /\ SameNews(a, b)
                                                /\ a.withdrawn = b.withdrawn
    PROVE  OnceInv'
  <1>1. \A a \in Showing' : \E b \in Showing : a.id = b.id /\ SameNews(a, b)  BY DEF Showing, Visible
  <1>2. \A a, b : SameNews(a, b) => Identity(a) = Identity(b)  BY DEF SameNews, Identity, DedupeKey
  <1>3. \A p, q \in Readers : Reading(p)' /\ Reading(q)' => p = q  BY DEF OnceInv, Reading
  <1>4. \A a, b \in Showing' : ~SameKey(a, b)  BY <1>1, <1>2 DEF OnceInv, SameKey
  <1>5. ASSUME NEW p \in Readers, Reading(p)' PROVE Unmet(p)'
    <2>1. Unmet(p)  BY <1>5 DEF OnceInv, Reading
    <2>2. p \in Locked => \A a \in Showing' : \E b \in scan[p].snapshot : SameNews(a, b)
      BY <1>1, <2>1 DEF Unmet, SameNews
    <2>3. ASSUME NEW a, SeenBy(p, a)' PROVE \E b : SeenBy(p, b) /\ Identity(a) = Identity(b)
      <3>1. CASE p \in Locked
        <4>1. Gone(p, a)' <=> Gone(p, a)  BY DEF Gone
        <4>2. SeenBy(p, a)  BY <2>3, <3>1, <4>1 DEF SeenBy
        <4> QED  BY <4>2
      <3>2. CASE p \notin Locked
        <4>1. a \in Showing'  BY <2>3, <3>2 DEF SeenBy
        <4>2. PICK b \in Showing : SameNews(a, b)  BY <1>1, <4>1
        <4>3. SeenBy(p, b)  BY <3>2 DEF SeenBy
        <4> QED  BY <1>2, <4>2, <4>3
      <3> QED  BY <3>1, <3>2
    <2> QED  BY <2>1, <2>2, <2>3 DEF Unmet
  <1> QED  BY <1>3, <1>4, <1>5 DEF OnceInv

(* No step, as long as no two scans met, lets an alert be raised twice.        *)
LEMMA OnceStep ==
    ASSUME ThingsApart
    PROVE  AlertsTypeOK /\ AlertsApart /\ OnceInv /\ [AttentionNext]_alertVars => OnceInv'
  <1> SUFFICES ASSUME AlertsTypeOK, AlertsApart, OnceInv, [AttentionNext]_alertVars, ~raced' PROVE OnceInv'
    BY DEF OnceInv
  <1>1. ~raced  BY DEF AttentionNext, Look, Withdraw, Compare, Raise, Answer, Commit, Act, Change, MonthPasses, alertVars
  <1>2. situation \in Situations /\ scan \in [Readers -> Scans] /\ nextId \in Nat \ {0} /\ month \in Nat  BY DEF AlertsTypeOK
  <1>3. /\ \A p, q \in Readers : Reading(p) /\ Reading(q) => p = q
        /\ \A a, b \in Showing : ~SameKey(a, b)
        /\ \A p \in Readers : Reading(p) => Unmet(p)
    BY <1>1 DEF OnceInv
  <1>4. \A a, b : SameNews(a, b) => Identity(a) = Identity(b)  BY DEF SameNews, Identity, DedupeKey
  <1>5. \A a \in alerts : SameNews(a, a)  BY DEF SameNews
  (* A step of the one scan under way: what is left to show of it.             *)
  <1>6. ASSUME NEW p \in Readers, Reading(p), Moved(p), \A a, b \in Showing' : ~SameKey(a, b), Reading(p)' => Unmet(p)'
        PROVE  OnceInv'
    <2>1. \A q \in Readers : Reading(q)' => q = p  BY <1>3, <1>6 DEF Moved, Reading
    <2>2. (\A q \in Readers : Reading(q)' => Unmet(q)')  BY <1>6, <2>1
    <2> QED  BY <1>6, <2>1, <2>2 DEF OnceInv
  <1>7. CASE UNCHANGED alertVars  BY <1>1, <1>5, <1>7, Fewer DEF alertVars
  <1>8. ASSUME NEW p \in Readers, Look(p) PROVE OnceInv'
    <2>1. UNCHANGED <<month, alerts>> /\ \A q \in Readers \ {p} : ~Reading(q)  BY <1>1, <1>8 DEF Look
    <2>2. /\ scan'[p].at = "looked" /\ scan'[p].found = Detected(situation) /\ Moved(p)
          /\ p \in Locked => scan'[p].snapshot = Showing
      BY <1>8, Steps
    <2>3. Showing' = Showing  BY <2>1 DEF Showing, Visible
    <2>4. \A q \in Readers : Reading(q)' => q = p  BY <2>1, <2>2 DEF Moved, Reading
    <2>5. Unmet(p)'
      <3>1. \A f, g \in Detected(situation) : Identity(f) = Identity(g) => f = g  BY <1>2 DEF ThingsApart
      <3>2. p \in Locked => \A a \in Showing' : \E b \in scan'[p].snapshot : SameNews(a, b)
        BY <1>5, <2>2, <2>3 DEF Showing, Visible
      <3> QED  BY <2>2, <3>1, <3>2 DEF Unmet
    <2>6. \A a, b \in Showing' : ~SameKey(a, b)  BY <1>3, <2>3
    <2>7. (\A q \in Readers : Reading(q)' => Unmet(q)')  BY <2>4, <2>5
    <2> QED  BY <2>4, <2>6, <2>7 DEF OnceInv
  <1>9. ASSUME NEW p \in Readers, Withdraw(p) PROVE OnceInv'
    <2>1. /\ scan[p].at = "looked" /\ Moved(p) /\ scan'[p].at = "withdrew" /\ scan'[p].found = scan[p].found
          /\ scan'[p].snapshot = scan[p].snapshot /\ UNCHANGED month
      BY <1>9, Steps DEF Withdraw
    <2>2. Reading(p) /\ Unmet(p)  BY <1>3, <2>1 DEF Reading
    <2>3. Showing' \subseteq Showing
      <3>1. alerts' = alerts \/ alerts' = Withdrawn(p)  BY <1>9 DEF Withdraw
      <3> QED  BY <2>1, <3>1, WithdrawnTyped DEF Showing, Visible
    <2>4. \A a, b \in Showing' : ~SameKey(a, b)  BY <1>3, <2>3
    <2>5. Unmet(p)'  BY <2>1, <2>2, <2>3 DEF Unmet
    <2> QED  BY <1>6, <2>1, <2>2, <2>4, <2>5
  <1>10. ASSUME NEW p \in Readers, Compare(p) PROVE OnceInv'
    <2>1. /\ scan[p].at = "withdrew" /\ Moved(p) /\ scan'[p].at = "raising" /\ scan'[p].found = Missing(p)
          /\ scan'[p].limited = scan[p].limited /\ scan'[p].live = scan[p].live /\ scan'[p].snapshot = scan[p].snapshot
          /\ UNCHANGED <<month, alerts>>
      BY <1>10, Steps DEF Compare
    <2>2. Reading(p) /\ Unmet(p)  BY <1>3, <2>1 DEF Reading
    <2>3. Showing' = Showing /\ \A a : SeenBy(p, a)' <=> SeenBy(p, a)
      <3>1. Showing' = Showing  BY <2>1 DEF Showing, Visible
      <3>2. \A a : Gone(p, a)' <=> Gone(p, a)  BY <2>1 DEF Gone
      <3> QED  BY <2>1, <3>1, <3>2 DEF SeenBy
    <2>4. Unmet(p)'
      <3>1. ASSUME NEW f \in Missing(p), NEW a, SeenBy(p, a) PROVE Identity(a) # Identity(f)
        <4>1. DedupeKey(f) \notin Known(p)  BY <3>1 DEF Missing
        <4>2. DedupeKey(a) \in Known(p)  BY <3>1, KnownNames
        <4> QED  BY <4>1, <4>2 DEF Identity
      <3>2. Missing(p) \subseteq scan[p].found  BY DEF Missing
      <3> QED  BY <2>1, <2>2, <2>3, <3>1, <3>2 DEF Unmet
    <2> QED  BY <1>3, <1>6, <2>1, <2>2, <2>3, <2>4
  <1>11. ASSUME NEW p \in Readers, Raise(p) PROVE OnceInv'
    <2>1. /\ scan[p].at = "raising" /\ p \notin Locked /\ Moved(p) /\ UNCHANGED month
      BY <1>11, Steps DEF Raise
    <2>2. PICK f \in scan[p].found : scan'[p].found = scan[p].found \ {f} /\ alerts' = alerts \cup {Alert(f, nextId)}
      BY <1>11, Steps
    <2>3. Reading(p) /\ Unmet(p)  BY <1>3, <2>1 DEF Reading
    <2>4. /\ Alert(f, nextId).month = month /\ ~Alert(f, nextId).withdrawn /\ Identity(Alert(f, nextId)) = Identity(f)
      BY DEF Alert, DedupeKey, Identity
    <2>5. Showing' = Showing \cup {Alert(f, nextId)}  BY <2>1, <2>2, <2>4 DEF Showing, Visible
    <2>6. \A a : (SeenBy(p, a) <=> a \in Showing) /\ (SeenBy(p, a)' <=> a \in Showing')  BY <2>1 DEF SeenBy
    <2>7. \A g \in scan[p].found : Identity(g) = Identity(f) => g = f  BY <2>2, <2>3 DEF Unmet
    <2>8. \A g \in scan[p].found : \A a \in Showing : Identity(a) # Identity(g)  BY <2>1, <2>3, <2>6 DEF Unmet
    <2>9. Unmet(p)'  BY <2>1, <2>2, <2>3, <2>4, <2>5, <2>6, <2>7, <2>8 DEF Unmet
    <2>10. \A a, b \in Showing' : ~SameKey(a, b)
      <3>1. \A a \in Showing : Identity(a) # Identity(f)  BY <2>2, <2>8
      <3> QED  BY <1>3, <2>4, <2>5, <3>1 DEF SameKey
    <2> QED  BY <1>6, <2>1, <2>3, <2>9, <2>10
  <1>12. ASSUME NEW p \in Readers, Answer(p) PROVE OnceInv'
    <2>1. Moved(p) /\ ~Reading(p)' /\ Reading(p) /\ UNCHANGED <<month, alerts>>  BY <1>12, Steps DEF Answer, Reading
    <2>2. Showing' = Showing  BY <2>1 DEF Showing, Visible
    <2> QED  BY <1>3, <1>6, <2>1, <2>2
  <1>13. ASSUME NEW p \in Readers, Commit(p) PROVE OnceInv'
    <2>1. Moved(p) /\ ~Reading(p)' /\ Reading(p) /\ scan[p].at = "raising" /\ p \in Locked /\ UNCHANGED month
      BY <1>13, Steps DEF Commit, Reading
    <2>2. scan[p].found \in SUBSET Findings /\ IsFiniteSet(scan[p].found)
      BY <2>1, ScanUnderway DEF Underway, AlertsTypeOK
    <2>3. PICK q : q = SetToSeq(scan[p].found)  OBVIOUS
    <2>4. PICK new : new = NewOnes(q, nextId)  OBVIOUS
    <2>5. alerts' = Withdrawn(p) \cup new  BY <1>13, <2>3, <2>4 DEF Commit, NewOnes
    <2>6. /\ \A a \in new : \E f \in scan[p].found : SameNews(a, f)
          /\ \A a, b \in new : a.id # b.id => \E f, g \in scan[p].found : f # g /\ SameNews(a, f) /\ SameNews(b, g)
      <3>1. PICK S, first : S = scan[p].found /\ first = nextId  OBVIOUS
      <3>2. first \in Nat \ {0}  BY <3>1 DEF AlertsTypeOK
      <3>3. S \in SUBSET Findings /\ IsFiniteSet(S) /\ q = SetToSeq(S) /\ new = NewOnes(q, first)
        BY <2>2, <2>3, <2>4, <3>1
      <3>4. /\ \A a \in new : \E f \in S : SameNews(a, f)
            /\ \A a, b \in new : a.id # b.id => \E f, g \in S : f # g /\ SameNews(a, f) /\ SameNews(b, g)
        BY <3>2, <3>3, NewAlerts
      <3> QED  BY <3>1, <3>4
    <2>7. Unmet(p)  BY <1>3, <2>1
    <2>8. ASSUME NEW a \in Showing', a \in Withdrawn(p) PROVE a \in Showing /\ \E b : SeenBy(p, b) /\ Identity(a) = Identity(b)
      <3>1. a \in Showing /\ ~Gone(p, a)  BY <2>1, <2>8, WithdrawnTyped DEF Showing, Visible
      <3>2. PICK b \in scan[p].snapshot : SameNews(a, b)  BY <2>1, <2>7, <3>1 DEF Unmet
      <3>3. ~Gone(p, b)  BY <3>1, <3>2 DEF Gone, SameNews
      <3> QED  BY <1>4, <2>1, <3>1, <3>2, <3>3 DEF SeenBy
    <2>9. \A a \in new : \A b : SeenBy(p, b) => Identity(a) # Identity(b)  BY <1>4, <2>1, <2>6, <2>7 DEF Unmet
    <2>10. \A a, b \in new : a.id # b.id => Identity(a) # Identity(b)  BY <1>4, <2>6, <2>7 DEF Unmet
    <2>11. \A a \in Showing' : a \in Withdrawn(p) \/ a \in new  BY <2>5 DEF Showing, Visible
    <2>12. \A a, b \in Showing' : ~SameKey(a, b)  BY <1>3, <2>8, <2>9, <2>10, <2>11 DEF SameKey
    <2> QED  BY <1>6, <2>1, <2>12
  <1>14. CASE Act
    <2>1. UNCHANGED <<month, scan, raced>>  BY <1>14 DEF Act
    <2>2. \A a \in alerts' : \E b \in alerts : /\ a.id = b.id /\ a.month = b.month /\ SameNews(a, b)
                                                /\ a.withdrawn = b.withdrawn
      BY <1>14, ActLeaves
    <2> QED  BY <1>1, <2>1, <2>2, Fewer
  <1>15. CASE Change  BY <1>1, <1>5, <1>15, Fewer DEF Change
  <1>16. CASE MonthPasses
    <2>1. month' = month + 1 /\ UNCHANGED <<alerts, scan, raced>> /\ \A p \in Readers : ~Reading(p)
      BY <1>16 DEF MonthPasses
    <2>2. \A a \in alerts : a.month # month + 1
      <3>1. \A a \in alerts : a.month \in Nat /\ a.month <= month  BY DEF AlertsTypeOK, AlertsApart, AlertRecords
      <3> QED  BY <1>2, <3>1
    <2>3. Showing' = {}  BY <2>1, <2>2 DEF Showing, Visible
    <2>4. \A p \in Readers : ~Reading(p)'  BY <2>1 DEF Reading
    <2> QED  BY <2>3, <2>4 DEF OnceInv
  <1> QED  BY <1>7, <1>8, <1>9, <1>10, <1>11, <1>12, <1>13, <1>14, <1>15, <1>16 DEF AttentionNext
-----------------------------------------------------------------------------
(* The list.  A set of numbers has a lowest.                                   *)
LEMMA Lowest ==
    ASSUME NEW T \in SUBSET Nat, T # {}
    PROVE  \E x \in T : \A y \in T : x <= y
  <1> DEFINE less == {p \in Nat \X Nat : p[1] < p[2]}
  <1>1. OpToRel(<, Nat) = less  BY DEF OpToRel
  <1>2. IsWellFoundedOn(less, Nat)  BY <1>1, NatLessThanWellFounded
  <1> HIDE DEF less
  <1>3. PICK x \in T : \A y \in T : ~(<<y, x>> \in less)  BY <1>2, WFMin
  <1>4. ASSUME NEW y \in T PROVE x <= y
    <2>1. x \in Nat /\ y \in Nat  OBVIOUS
    <2>2. ~(y < x)  BY <1>3, <2>1 DEF less
    <2> QED  BY <2>1, <2>2
  <1> QED  BY <1>4

(* A bounded set of numbers has a highest.                                     *)
LEMMA Highest ==
    ASSUME NEW T \in SUBSET Nat, T # {}, NEW n \in Nat, \A x \in T : x <= n
    PROVE  \E x \in T : \A y \in T : y <= x
  <1> DEFINE D == {n - x : x \in T}
  <1>1. \A x \in T : n - x \in Nat
    <2> SUFFICES ASSUME NEW x \in T PROVE n - x \in Nat  OBVIOUS
    <2>1. x \in Nat /\ x <= n  OBVIOUS
    <2> QED  BY <2>1
  <1>2. D \in SUBSET Nat /\ D # {}  BY <1>1
  <1> HIDE DEF D
  <1>3. PICK d \in D : \A e \in D : d <= e  BY <1>2, Lowest
  <1>4. PICK x \in T : d = n - x  BY DEF D
  <1>5. ASSUME NEW y \in T PROVE y <= x
    <2>1. n - y \in D  BY DEF D
    <2>2. d <= n - y  BY <1>3, <2>1
    <2>3. x \in Nat /\ y \in Nat  OBVIOUS
    <2> QED  BY <1>4, <2>2, <2>3
  <1> QED  BY <1>5

(* Among the alerts of a topic one is listed before all others: an unread one, *)
(* if there is any.                                                            *)
LEMMA TheFirst ==
    ASSUME NEW S \in SUBSET AlertRecords, S # {}, NEW n \in Nat, \A a \in S : a.id <= n,
           \A a, b \in S : a.id = b.id => a = b
    PROVE  \E m \in S : \A b \in S \ {m} : ListedBefore(AlertLine(m), AlertLine(b))
  <1>1. \A a \in S : /\ AlertLine(a).dismissed = a.read /\ AlertLine(a).tone = a.tone /\ AlertLine(a).id = a.id
                     /\ a.id \in Nat /\ a.tone \in Tones /\ a.read \in BOOLEAN
    BY DEF AlertLine, AlertRecords
  <1>2. ASSUME NEW V \in SUBSET S, V # {} PROVE \E m \in V : \A b \in V \ {m} : m.id > b.id
    <2> DEFINE T == {a.id : a \in V}
    <2>1. T \in SUBSET Nat /\ T # {} /\ \A x \in T : x <= n  BY <1>1, <1>2
    <2> HIDE DEF T
    <2>2. PICK x \in T : \A y \in T : y <= x  BY <2>1, Highest
    <2>3. PICK m \in V : x = m.id  BY DEF T
    <2>4. ASSUME NEW b \in V \ {m} PROVE m.id > b.id
      <3>1. b.id \in T /\ b.id \in Nat /\ m.id \in Nat /\ b.id # m.id  BY <1>1 DEF T
      <3>2. b.id <= m.id  BY <2>2, <2>3, <3>1
      <3> QED  BY <3>1, <3>2
    <2> QED  BY <2>4
  <1>3. CASE \A a \in S : a.read
    <2>1. PICK m \in S : \A b \in S \ {m} : m.id > b.id  BY <1>2
    <2> QED  BY <1>1, <1>3, <2>1 DEF ListedBefore
  <1>4. CASE \E a \in S : ~a.read
    <2> DEFINE U == {a \in S : ~a.read}
               V(r) == {a \in U : Rank(a.tone) = r}
    <2>1. \A a \in S : Rank(a.tone) \in 0..2  BY <1>1 DEF Rank, Tones
    <2>2. PICK r \in 0..2 : V(r) # {} /\ \A a \in U : r <= Rank(a.tone)
      <3>1. CASE V(0) # {}  BY <2>1, <3>1
      <3>2. CASE V(0) = {} /\ V(1) # {}  BY <2>1, <3>2
      <3>3. CASE V(0) = {} /\ V(1) = {}  BY <1>4, <2>1, <3>3
      <3> QED  BY <3>1, <3>2, <3>3
    <2>3. PICK m \in V(r) : \A b \in V(r) \ {m} : m.id > b.id  BY <1>2, <2>2
    <2>4. ASSUME NEW b \in S \ {m} PROVE ListedBefore(AlertLine(m), AlertLine(b))
      <3>1. m \in S /\ ~m.read /\ Rank(m.tone) = r  BY <2>3
      <3>2. CASE b.read  BY <1>1, <3>1, <3>2 DEF ListedBefore
      <3>3. CASE ~b.read /\ Rank(b.tone) # r
        <4>1. Rank(m.tone) < Rank(b.tone)  BY <2>1, <2>2, <3>1, <3>3
        <4> QED  BY <1>1, <3>1, <3>3, <4>1 DEF ListedBefore
      <3>4. CASE ~b.read /\ Rank(b.tone) = r
        <4>1. m.id > b.id  BY <2>3, <3>4
        <4>2. m.tone = b.tone  BY <1>1, <3>1, <3>4 DEF Rank, Tones
        <4> QED  BY <1>1, <3>1, <3>4, <4>1, <4>2 DEF ListedBefore
      <3> QED  BY <3>2, <3>3, <3>4
    <2> QED  BY <2>3, <2>4
  <1> QED  BY <1>1, <1>3, <1>4

(* On a topic of an alert there are, beside its alerts, the budgets' counter   *)
(* and the heavy day at most, each with a priority of its own.                 *)
LEMMA OnTopic ==
    ASSUME AlertsTypeOK, NEW a \in Showing, NEW c \in Candidates, c.topic = Topic(a)
    PROVE  \/ \E b \in Showing : c = AlertLine(b) /\ Topic(b) = Topic(a)
           \/ c = Line("summary", <<"budget">>, "warning", IF Cardinality(Overruns) = 1 THEN 35 ELSE 10)
                 /\ Overruns # {} /\ Topic(a) = <<"budget">>
           \/ c = Line("upcoming", <<"upcoming">>, "warning", 45) /\ Topic(a) = <<"upcoming">>
  <1>1. a.type \in Kinds  BY DEF AlertsTypeOK, Showing, Visible, AlertRecords
  <1>2. Topic(a) \in {<<"budget">>, <<"upcoming">>} \/ \E k : Topic(a) = <<"alert", a.type, k>>
    BY <1>1 DEF Topic, Kinds
  <1>3. CASE c \in Counters
    <2>1. \/ c = Line("summary", <<"budget">>, "warning", IF Cardinality(Overruns) = 1 THEN 35 ELSE 10) /\ Overruns # {}
          \/ c.topic \in {<<"bank-unresolved">>, <<"bank-review">>, <<"bank-coarse">>, <<"credit-pending">>}
      BY <1>3 DEF Counters, Line
    <2>2. ~(c.topic \in {<<"bank-unresolved">>, <<"bank-review">>, <<"bank-coarse">>, <<"credit-pending">>})  BY <1>2
    <2>3. Line("summary", <<"budget">>, "warning", IF Cardinality(Overruns) = 1 THEN 35 ELSE 10).topic = <<"budget">>
      BY DEF Line
    <2> QED  BY <2>1, <2>2, <2>3
  <1>4. CASE c \in {AlertLine(b) : b \in Showing}  BY <1>4 DEF AlertLine
  <1>5. CASE c \in Upcoming  BY <1>5 DEF Upcoming, Line
  <1>6. CASE c \in Reminders
    <2>1. PICK n \in 1..2 : c.topic = <<"reminder", n>>  BY <1>6 DEF Reminders, Line
    <2> QED  BY <1>2, <2>1
  <1> QED  BY <1>3, <1>4, <1>5, <1>6 DEF Candidates

(* Any topic of the list has a line before all others: an alert's by the two   *)
(* above, another's because the sources beside the alerts give each topic one  *)
(* line at most.                                                               *)
About(t) == {c \in Candidates : c.topic = t}
Beaten(w, cs) == \A d \in cs \ {w} : Wins(w, d)
LEMMA OneLine ==
    ASSUME NEW c \in Candidates, NEW d \in Candidates, c.topic = d.topic,
           \A a \in Showing : c # AlertLine(a) /\ d # AlertLine(a)
    PROVE  c = d
  <1>1. c \in Counters \cup Upcoming \cup Reminders /\ d \in Counters \cup Upcoming \cup Reminders  BY DEF Candidates
  <1>2. ASSUME NEW e \in Counters
        PROVE  e \in {Line("summary", <<"budget">>, "warning", IF Cardinality(Overruns) = 1 THEN 35 ELSE 10),
                     Line("summary", <<"bank-unresolved">>, "critical", 0),
                     Line("summary", <<"bank-review">>, "warning", 20), Line("summary", <<"bank-coarse">>, "info", 25),
                     Line("credit", <<"credit-pending">>, "warning", 21)}
    BY <1>2 DEF Counters
  <1>3. \A e \in Upcoming : e = Line("upcoming", <<"upcoming">>, "warning", 45)  BY DEF Upcoming
  <1>4. \A e \in Reminders : \E n \in 1..2 :
           e = [Line("reminder", <<"reminder", n>>, IF n = 1 THEN "warning" ELSE "info", 50) EXCEPT !.id = n]
    BY DEF Reminders
  <1>5. \A e \in Counters : /\ e.topic \in {<<"budget">>, <<"bank-unresolved">>, <<"bank-review">>, <<"bank-coarse">>,
                                          <<"credit-pending">>}
                            /\ \A f \in Counters : e.topic = f.topic => e = f
    <2>1. PICK b : b = Line("summary", <<"budget">>, "warning", IF Cardinality(Overruns) = 1 THEN 35 ELSE 10)  OBVIOUS
    <2>2. PICK u, r, o, k : /\ u = Line("summary", <<"bank-unresolved">>, "critical", 0)
                            /\ r = Line("summary", <<"bank-review">>, "warning", 20)
                            /\ o = Line("summary", <<"bank-coarse">>, "info", 25)
                            /\ k = Line("credit", <<"credit-pending">>, "warning", 21)
      OBVIOUS
    <2>3. /\ b.topic = <<"budget">> /\ u.topic = <<"bank-unresolved">> /\ r.topic = <<"bank-review">>
          /\ o.topic = <<"bank-coarse">> /\ k.topic = <<"credit-pending">>
      BY <2>1, <2>2 DEF Line
    <2>4. \A e \in Counters : e \in {b, u, r, o, k}  BY <1>2, <2>1, <2>2
    <2> QED  BY <2>3, <2>4
  <1>6. \A e \in Upcoming : e.topic = <<"upcoming">>  BY <1>3 DEF Line
  <1>7. \A e \in Reminders : \E n \in 1..2 :
           /\ e.topic = <<"reminder", n>>
           /\ e = [Line("reminder", <<"reminder", n>>, IF n = 1 THEN "warning" ELSE "info", 50) EXCEPT !.id = n]
    BY <1>4 DEF Line
  <1>8. CASE c \in Counters /\ d \in Counters  BY <1>5, <1>8
  <1>9. CASE c \in Upcoming /\ d \in Upcoming  BY <1>3, <1>9
  <1>10. CASE c \in Reminders /\ d \in Reminders
    <2>1. PICK n \in 1..2 :
            /\ c.topic = <<"reminder", n>>
            /\ c = [Line("reminder", <<"reminder", n>>, IF n = 1 THEN "warning" ELSE "info", 50) EXCEPT !.id = n]
      BY <1>7, <1>10
    <2>2. PICK k \in 1..2 :
            /\ d.topic = <<"reminder", k>>
            /\ d = [Line("reminder", <<"reminder", k>>, IF k = 1 THEN "warning" ELSE "info", 50) EXCEPT !.id = k]
      BY <1>7, <1>10
    <2>3. <<"reminder", n>>[2] = <<"reminder", k>>[2]  BY <2>1, <2>2
    <2>4. n = k  BY <2>3
    <2> QED  BY <2>1, <2>2, <2>4
  <1> QED  BY <1>1, <1>5, <1>6, <1>7, <1>8, <1>9, <1>10

(* Hence any topic has a line before all others.                               *)
LEMMA Leads ==
    ASSUME AlertsTypeOK, AlertsApart, NEW t \in Topics
    PROVE  Winner(About(t)) \in About(t) /\ Beaten(Winner(About(t)), About(t))
  <1> SUFFICES \E w \in About(t) : Beaten(w, About(t))  BY DEF Winner, Beaten
  <1>1. CASE \E a \in Showing : Topic(a) = t
    <2> DEFINE S == {b \in Showing : Topic(b) = t}
               k == Line("summary", <<"budget">>, "warning", IF Cardinality(Overruns) = 1 THEN 35 ELSE 10)
    <2>1. S \in SUBSET AlertRecords /\ S # {}  BY <1>1 DEF Showing, Visible, AlertsTypeOK
    <2>2. nextId \in Nat /\ (\A b \in S : b.id <= nextId) /\ (\A b, c \in S : b.id = c.id => b = c)
      <3>1. \A b \in S : b \in alerts /\ b.id \in Nat  BY <2>1 DEF Showing, Visible, AlertRecords
      <3> QED  BY <3>1 DEF AlertsTypeOK, AlertsApart
    <2>3. PICK m \in S : \A b \in S \ {m} : ListedBefore(AlertLine(m), AlertLine(b))  BY <2>1, <2>2, TheFirst
    <2>4. ASSUME NEW c \in About(t)
          PROVE  \/ \E b \in S : c = AlertLine(b)
                 \/ c = k /\ Overruns # {} /\ t = <<"budget">>
                 \/ c = Line("upcoming", <<"upcoming">>, "warning", 45) /\ t = <<"upcoming">>
      <3>1. c \in Candidates /\ c.topic = t  BY DEF About
      <3>2. PICK a \in Showing : Topic(a) = t  BY <1>1
      <3> QED  BY <3>1, <3>2, OnTopic
    <2>5. \A b : AlertLine(b).priority = 30  BY DEF AlertLine
    <2>6. Line("upcoming", <<"upcoming">>, "warning", 45).priority = 45  BY DEF Line
    <2>7. k.priority = (IF Cardinality(Overruns) = 1 THEN 35 ELSE 10)  BY DEF Line
    <2>8. \A b \in S : AlertLine(b) \in About(t)  BY DEF About, Candidates, AlertLine
    <2> HIDE DEF S, k
    <2>9. CASE k \in About(t) /\ Cardinality(Overruns) # 1 /\ t = <<"budget">>
      <3>1. \A d \in About(t) \ {k} : d.priority = 30  BY <2>4, <2>5, <2>9
      <3>2. k.priority = 10  BY <2>7, <2>9
      <3>3. Beaten(k, About(t))  BY <3>1, <3>2 DEF Beaten, Wins
      <3> QED  BY <2>9, <3>3
    <2>10. CASE ~(k \in About(t) /\ Cardinality(Overruns) # 1 /\ t = <<"budget">>)
      <3>1. ASSUME NEW d \in About(t) \ {AlertLine(m)} PROVE Wins(AlertLine(m), d)
        <4>1. CASE \E b \in S : d = AlertLine(b)
          <5>1. PICK b \in S : d = AlertLine(b)  BY <4>1
          <5>2. b # m  BY <3>1, <5>1
          <5> QED  BY <2>3, <2>5, <5>1, <5>2 DEF Wins
        <4>2. CASE d = k /\ t = <<"budget">>  BY <2>5, <2>7, <2>10, <4>2 DEF Wins
        <4>3. CASE d = Line("upcoming", <<"upcoming">>, "warning", 45)  BY <2>5, <2>6, <4>3 DEF Wins
        <4> QED  BY <2>4, <4>1, <4>2, <4>3
      <3>2. AlertLine(m) \in About(t)  BY <2>8
      <3> QED  BY <3>1, <3>2 DEF Beaten
    <2> QED  BY <2>9, <2>10
  <1>2. CASE ~\E a \in Showing : Topic(a) = t
    <2>1. PICK c \in Candidates : c.topic = t  BY DEF Topics
    <2>2. c \in About(t)  BY <2>1 DEF About
    <2>3. \A d \in About(t), a \in Showing : d # AlertLine(a)  BY <1>2 DEF About, AlertLine
    <2>4. \A d \in About(t) : d = c
      <3> SUFFICES ASSUME NEW d \in About(t) PROVE d = c  OBVIOUS
      <3>1. d \in Candidates /\ d.topic = c.topic  BY <2>1 DEF About
      <3> QED  BY <2>1, <2>2, <2>3, <3>1, OneLine
    <2> QED  BY <2>2, <2>4 DEF Beaten
  <1> QED  BY <1>1, <1>2

(* The line that leads a topic is the only one of it that may be said.         *)
LEMMA Leading ==
    ASSUME AlertsTypeOK, AlertsApart, NEW t \in Topics
    PROVE  (\E w \in Winners : w.topic = t) <=> ~Winner(About(t)).dismissed
  <1>1. \A u \in Topics : Winner(About(u)).topic = u  BY Leads DEF About
  <1>2. Winners = {w \in {Winner(About(u)) : u \in Topics} : ~w.dismissed}  BY DEF Winners, About
  <1> HIDE DEF Winners
  <1> QED  BY <1>1, <1>2

(* News is heard, and what was dismissed stays so.                             *)
LEMMA Heard == AlertsTypeOK /\ AlertsApart => NewsHeard
  <1> SUFFICES ASSUME AlertsTypeOK, AlertsApart, NEW a \in Showing
               PROVE  LET about == {b \in Showing : Topic(b) = Topic(a)}
                      IN IF \E b \in about : ~b.read THEN \E w \in Winners : w.topic = Topic(a)
                         ELSE (\E w \in Winners : w.topic = Topic(a)) =>
                                  Topic(a) = <<"budget">> /\ Cardinality(Overruns) > 1
    BY DEF NewsHeard
  <1>1. PICK t : t = Topic(a)  OBVIOUS
  <1>2. PICK w : w = Winner(About(t))  OBVIOUS
  <1>3. \A b \in Showing : Topic(b) = t => AlertLine(b) \in About(t)  BY DEF About, Candidates, AlertLine
  <1>4. t \in Topics  BY <1>1, <1>3 DEF Topics, About
  <1>5. w \in About(t) /\ Beaten(w, About(t))  BY <1>2, <1>4, Leads
  <1>6. (\E v \in Winners : v.topic = t) <=> ~w.dismissed  BY <1>2, <1>4, Leading
  <1>7. \A b : AlertLine(b).priority = 30 /\ AlertLine(b).dismissed = b.read  BY DEF AlertLine
  <1>8. \/ \E b \in Showing : w = AlertLine(b) /\ Topic(b) = t
        \/ w = Line("summary", <<"budget">>, "warning", IF Cardinality(Overruns) = 1 THEN 35 ELSE 10)
               /\ Overruns # {} /\ t = <<"budget">>
        \/ w = Line("upcoming", <<"upcoming">>, "warning", 45) /\ t = <<"upcoming">>
    <2>1. w \in Candidates /\ w.topic = t  BY <1>5 DEF About
    <2> QED  BY <1>1, <2>1, OnTopic
  <1>9. CASE \E b \in Showing : w = AlertLine(b) /\ Topic(b) = t
    <2>1. PICK b \in Showing : w = AlertLine(b) /\ Topic(b) = t  BY <1>9
    <2>2. ASSUME NEW c \in Showing, Topic(c) = t, ~c.read, b.read PROVE FALSE
      <3>1. b \in AlertRecords /\ c \in AlertRecords  BY DEF AlertsTypeOK, Showing, Visible
      <3>2. ~AlertLine(c).dismissed /\ w.dismissed  BY <1>7, <2>1, <2>2
      <3>3. AlertLine(c) \in About(t) \ {w}  BY <1>3, <2>2, <3>2
      <3>4. ListedBefore(w, AlertLine(c))  BY <1>5, <1>7, <2>1, <3>3 DEF Beaten, Wins
      <3> QED  BY <3>2, <3>4 DEF ListedBefore
    <2> QED  BY <1>1, <1>6, <1>7, <2>1, <2>2
  <1>10. CASE w = Line("summary", <<"budget">>, "warning", IF Cardinality(Overruns) = 1 THEN 35 ELSE 10)
                 /\ Overruns # {} /\ t = <<"budget">>
    <2>1. ~w.dismissed /\ w.source = "summary" /\ w.priority = (IF Cardinality(Overruns) = 1 THEN 35 ELSE 10)
      BY <1>10 DEF Line
    <2>2. AlertLine(a) \in About(t) \ {w}  BY <1>1, <1>3, <2>1 DEF AlertLine
    <2>3. w.priority <= 30  BY <1>5, <1>7, <2>1, <2>2 DEF Beaten, Wins
    <2>4. Cardinality(Overruns) # 1  BY <2>1, <2>3
    <2>5. IsFiniteSet(Overruns)  BY AttentionAssumption, FS_Subset DEF Overruns, AlertsTypeOK
    <2>6. Cardinality(Overruns) \in Nat /\ Cardinality(Overruns) # 0  BY <1>10, <2>5, FS_CardinalityType, FS_EmptySet
    <2>7. Cardinality(Overruns) > 1  BY <2>4, <2>6
    <2> QED  BY <1>1, <1>6, <1>10, <2>1, <2>7
  <1>11. CASE w = Line("upcoming", <<"upcoming">>, "warning", 45)
    <2>1. w.source = "upcoming" /\ w.priority = 45  BY <1>11 DEF Line
    <2>2. AlertLine(a) \in About(t) \ {w}  BY <1>1, <1>3, <2>1 DEF AlertLine
    <2> QED  BY <1>5, <1>7, <2>1, <2>2 DEF Beaten, Wins
  <1> QED  BY <1>8, <1>9, <1>10, <1>11
-----------------------------------------------------------------------------
(* A scan that nothing disturbed leaves an alert for each finding and none of  *)
(* duplicates gone; no finding is told twice as long as no two scans met and   *)
(* findings of one name are told apart by the loan or charge they are about;   *)
(* news is heard, and what was dismissed stays silent (alerts.service,         *)
(* alertsScanner, attention.service).                                          *)
THEOREM AlertsAreSettled == ThingsApart => (AttentionSpec => AlertsSettle)
  <1> SUFFICES ASSUME ThingsApart PROVE AttentionSpec => AlertsSettle  OBVIOUS
  <1> DEFINE Inv == AlertsTypeOK /\ AlertsApart /\ LoneInv /\ OnceInv
             Kept == \A p \in Readers : (Answer(p) \/ Commit(p)) /\ alone[p] => Settled(p)
  <1>1. AttentionInit => Inv
    <2> SUFFICES ASSUME AttentionInit PROVE Inv  OBVIOUS
    <2>1. \A p \in Readers : ~Reading(p)  BY DEF AttentionInit, Reading, Idle
    <2>2. Showing = {}  BY DEF AttentionInit, Showing, Visible
    <2>3. Idle \in Scans  BY DEF Idle, Scans
    <2>4. scan \in [Readers -> Scans] /\ alone \in [Readers -> BOOLEAN]  BY <2>3 DEF AttentionInit
    <2>5. situation \in Situations /\ month \in Nat /\ nextId \in Nat \ {0} /\ alerts \in SUBSET AlertRecords
      BY DEF AttentionInit
    <2>6. raced \in BOOLEAN  BY DEF AttentionInit
    <2>7. AlertsTypeOK  BY <2>1, <2>4, <2>5, <2>6 DEF AlertsTypeOK
    <2> QED  BY <2>1, <2>2, <2>7 DEF AttentionInit, AlertsApart, LoneInv, OnceInv
  <1>2. Inv /\ [AttentionNext]_alertVars => Inv'  BY AlertsStep, LoneStep, OnceStep
  <1>3. Inv => Kept
    <2> SUFFICES ASSUME Inv, NEW p \in Readers, Answer(p) \/ Commit(p), alone[p] PROVE Settled(p)  OBVIOUS
    <2>1. Reading(p)  BY DEF Answer, Commit, Reading
    <2>2. Undisturbed(p)  BY <2>1 DEF LoneInv
    <2> QED  BY <2>2, Settling
  <1>4. Inv => OnceUnlessRaced /\ NewsHeard  BY Heard DEF OnceInv, OnceUnlessRaced
  <1>5. [][Kept]_alertVars <=> LoneScanSettles  BY DEF LoneScanSettles, Settled
  <1> HIDE DEF Inv, Kept
  <1>6. Inv /\ [AttentionNext]_alertVars => Inv' /\ [Kept]_alertVars  BY <1>2, <1>3
  <1>7. AttentionSpec => [](OnceUnlessRaced /\ NewsHeard) /\ [][Kept]_alertVars
    BY <1>1, <1>4, <1>6, PTL DEF AttentionSpec
  <1> QED  BY <1>5, <1>7 DEF AlertsSettle

=============================================================================
