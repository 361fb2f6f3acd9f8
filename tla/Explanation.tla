----------------------------- MODULE Explanation -----------------------------
(***************************************************************************)
(* A figure explained on the screen while the books change under it        *)
(* (components/common/MetricExplanation.tsx, hooks/useAsync.ts,            *)
(* services/queryCache.ts, services/api.ts, and journey/metrics.service    *)
(* for the answers).  Reads are shared for a few seconds; a write of this  *)
(* tab, once it is answered, empties that store and reloads what is on the *)
(* screen; a write of another tab tells nobody.  Requests and answers may  *)
(* be late, out of order or lost.                                          *)
(***************************************************************************)
EXTENDS Books

CONSTANTS Name, Shown,           \* the figure and its month
          MaxCalls, MaxOpens     \* bounds

VARIABLES open, page, snapshot,  \* the panel: its page and the version it asks for
          waiting,               \* the call its live load waits for
          data, error,           \* what it shows
          reload,                \* a reload is due after a change
          calls,                 \* GETs sent: [key, answer]
          shared,                \* key -> the call later readers share
          writing,               \* own writes committed and not yet answered
          opens,
          writes, told, walk     \* history: writes so far, the last own one answered,
                                 \* the pages shown since the explanation began

panel == <<open, page, snapshot, waiting, data, error, reload, shared, opens, walk>>
net == <<calls, writing, writes, told>>
all == <<books, panel, net>>

(* The books some of the entries have been typed into, by their dates.       *)
Entered(S) ==
    LET id(e) == <<e.kind, Cardinality({f \in S : f.kind = e.kind /\ f.date <= e.date})>>
    IN [i \in {id(e) : e \in S} |-> Typed(CHOOSE e \in S : id(e) = i)]
ExplanationInit ==
    /\ \E S \in SUBSET Entries : rows = Entered(S)
    /\ reports = [f \in DOMAIN Files |-> None] /\ budgets = <<>> /\ categories = Categories /\ changes = 0
    /\ open = FALSE /\ page = 1 /\ snapshot = None /\ waiting = 0 /\ data = None /\ error = FALSE
    /\ reload = FALSE /\ calls = <<>> /\ shared = <<>> /\ writing = {} /\ opens = 0
    /\ writes = 0 /\ told = 0 /\ walk = {}
-----------------------------------------------------------------------------
(* The server.  The version of the data is a fingerprint of all of it.       *)
DataVersion == <<rows, reports>>
NeverStale(version) == FALSE   \* mutant: later pages do not ask for the first one's version
Stale(version) == version # None /\ version # DataVersion
FinancialMetric(p, version) ==
    IF Stale(version) THEN [failed |-> "conflict"] ELSE IF p > 1 /\ version = None THEN [failed |-> "bad request"]
    ELSE LET m == Metric(Name, Shown, p)
         IN [value |-> m.value, total |-> m.total, page |-> p, components |-> m.components, version |-> DataVersion, at |-> writes]

Failed(answer) == DOMAIN answer = {"failed"}
Pending == {c \in DOMAIN calls : calls[c].answer = None}
Answer(c, answer) ==
    /\ calls' = [calls EXCEPT ![c].answer = answer]
    /\ shared' = IF Failed(answer) THEN [k \in {k \in DOMAIN shared : shared[k] # c} |-> shared[k]] ELSE shared
    /\ UNCHANGED <<books, open, page, snapshot, waiting, data, error, reload, opens, walk, writing, writes, told>>
Serve(c) == c \in Pending /\ Answer(c, FinancialMetric(calls[c].key[1], calls[c].key[2]))
Lose(c) == c \in Pending /\ Answer(c, [failed |-> "lost"])
-----------------------------------------------------------------------------
(* sharedGet, and the effect of useAsync that calls it: the load before it   *)
(* is no longer waited for.                                                  *)
Load(p, version, store) ==
    LET key == <<p, version>> IN
    IF key \in DOMAIN store THEN shared' = store /\ waiting' = store[key] /\ UNCHANGED calls
    ELSE /\ Len(calls) < MaxCalls /\ calls' = Append(calls, [key |-> key, answer |-> None])
         /\ waiting' = Len(calls) + 1
         /\ shared' = [k \in DOMAIN store \cup {key} |-> IF k = key THEN Len(calls) + 1 ELSE store[k]]
Expire(key) ==
    /\ key \in DOMAIN shared /\ shared' = [k \in DOMAIN shared \ {key} |-> shared[k]]
    /\ UNCHANGED <<books, open, page, snapshot, waiting, data, error, reload, opens, walk, net>>

Turn(p, version) == page' = p /\ snapshot' = version /\ Load(p, version, shared)
Open(version) ==
    /\ ~open /\ opens < MaxOpens /\ open' = TRUE /\ opens' = opens + 1 /\ Turn(1, version) /\ data' = None /\ error' = FALSE /\ reload' = FALSE
    /\ walk' = {} /\ UNCHANGED <<books, writing, writes, told>>
Close ==
    /\ open /\ open' = FALSE /\ waiting' = 0 /\ data' = None /\ error' = FALSE /\ reload' = FALSE /\ walk' = {}
    /\ page' = 1 /\ snapshot' = None /\ UNCHANGED <<books, shared, opens, net>>
Settle ==
    /\ waiting # 0 /\ calls[waiting].answer # None /\ waiting' = 0
    /\ LET answer == calls[waiting].answer IN
       IF Failed(answer) THEN error' = TRUE /\ UNCHANGED <<data, walk>>
       ELSE /\ data' = answer /\ error' = FALSE
            /\ walk' = IF snapshot = None THEN {answer} ELSE walk \cup {answer}
    /\ UNCHANGED <<books, open, page, snapshot, reload, shared, opens, net>>

(* What the panel offers once its page is there, or its error.               *)
Settled == open /\ waiting = 0
Next == /\ Settled /\ ~error /\ page * PageSize < data.total /\ Turn(page + 1, data.version)
        /\ UNCHANGED <<books, open, data, error, reload, opens, walk, writing, writes, told>>
Previous == /\ Settled /\ ~error /\ page > 1 /\ Turn(page - 1, data.version)
            /\ UNCHANGED <<books, open, data, error, reload, opens, walk, writing, writes, told>>
Refresh == /\ Settled /\ error /\ Turn(1, None)
           /\ UNCHANGED <<books, open, data, error, reload, opens, walk, writing, writes, told>>
-----------------------------------------------------------------------------
(* Writes: of this tab, answered later or never, and of another.             *)
OwnWrite ==
    /\ Write /\ writes' = writes + 1 /\ writing' = writing \cup {writes + 1}
    /\ UNCHANGED <<panel, calls, told>>
OtherWrite == Write /\ writes' = writes + 1 /\ UNCHANGED <<panel, calls, writing, told>>
KeepShared == shared   \* mutant: a write leaves the shared reads alone
Emptied == <<>>
Changed(w) ==
    /\ w \in writing /\ writing' = writing \ {w} /\ told' = IF w > told THEN w ELSE told
    /\ shared' = Emptied /\ reload' = open
    /\ UNCHANGED <<books, open, page, snapshot, waiting, data, error, opens, walk, calls, writes>>
AnswerLost(w) ==
    /\ w \in writing /\ writing' = writing \ {w} /\ UNCHANGED <<books, panel, calls, writes, told>>
Reload ==
    /\ reload /\ reload' = FALSE /\ Load(page, snapshot, shared)
    /\ UNCHANGED <<books, open, page, snapshot, data, error, opens, walk, writing, writes, told>>

ExplanationNext ==
    \/ \E c \in Pending : Serve(c) \/ Lose(c)
    \/ \E key \in DOMAIN shared : Expire(key)
    \/ \E v \in {None, DataVersion} : Open(v)
    \/ Close \/ Settle \/ Next \/ Previous \/ Refresh \/ OwnWrite \/ OtherWrite \/ Reload
    \/ \E w \in writing : Changed(w) \/ AnswerLost(w)

ExplanationSpec == ExplanationInit /\ [][ExplanationNext]_all
-----------------------------------------------------------------------------
(* Turning the pages of a figure never mixes two states of the books: all    *)
(* pages seen since the explanation began tell one value of one version, and *)
(* once all were seen their rows, each of them once, add up to it            *)
(* (metrics.service.ts:12-17, MetricExplanation.tsx:11-25).                  *)
PagesOfOneVersion ==
    /\ \A x, y \in walk : x.version = y.version /\ x.value = y.value
    /\ \A x \in walk :
        LET parts == UNION {y.components : y \in walk} IN
        Pages(x.total) \subseteq {y.page : y \in walk} =>
            Cardinality(parts) = x.total /\ FoldSet(LAMBDA c, s : s + c[2], 0, parts) = x.value

(* Whoever was told that a change is saved does not go on looking at the     *)
(* figure from before it: once nothing is loading and no reload is due, what *)
(* the panel shows was read after every own write that was answered          *)
(* (queryCache.ts:3-15, useAsync.ts:40-80).                                  *)
OwnWritesShown == Settled /\ ~error /\ ~reload => data.at >= told
=============================================================================
