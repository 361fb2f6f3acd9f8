------------------------------- MODULE Screen -------------------------------
(***************************************************************************)
(* One page of the site in one tab (hooks/useAsync.ts, hooks/useConfirm.tsx,*)
(* components/common/AsyncSection.tsx, Modal.tsx, services/api.ts).  A page *)
(* reads its rows from the server, offers operations on what it shows,      *)
(* sends what the user chose about the row as it was shown, and learns of   *)
(* the outcome; meanwhile another tab writes, a filter changes what is      *)
(* asked for, answers are late, superseded or lost.  What the pages show    *)
(* and offer, and what the server makes of a request, are parameters.       *)
(***************************************************************************)
EXTENDS Operations, Integers

CONSTANTS Places,                \* pages, as <<page, the domains one of its resources reloads for>>
          Keyed(_),              \* the filters that are part of its request
          Views(_),              \* the filters and toggles of the page
          Listed(_, _, _), Offered(_, _), Ops(_),\* rows in a view, operations on a row, the page's operations
          Begins(_),             \* the states a row may be in
          Does(_, _, _, _),      \* the server: place, operation, row as shown, row now -> what it may become
          MaxSteps                 \* a bound on what happens: presses, writes of other tabs, faults, looks

VARIABLES place, view,
          server, version,       \* the rows, and how many writes they have seen
          shown, error,          \* what the page shows, and whether its last load failed
          live, superseded,      \* the load waited for, and the one before it still on its way
          due,                   \* a reload is due after a change
          asked,                 \* the open form or question
          out,                   \* requests under way
          happened,              \* presses, writes of other tabs, faults and looks so far
          told, wronged          \* history: the last own write answered, a refusal of what was offered

page == <<place, view, shown, error, live, superseded, due, asked>>
rest == <<happened, told, wronged>>
screen == <<page, server, version, out, rest>>

First == "first"        \* the view a page opens with
Absent == [none |-> TRUE] \* no row, load, answer or form
Name == place[1]
ScreenInit ==
    /\ place \in Places /\ view = First /\ happened = 0 /\ version = 0
    /\ \E row \in Begins(place[1]) : server = row
    /\ shown = Absent /\ error = FALSE /\ live = [view |-> First, got |-> Absent] /\ superseded = Absent
    /\ due = FALSE /\ asked = Absent /\ out = {}
    /\ told = 0 /\ wronged = FALSE
-----------------------------------------------------------------------------
Room == happened < MaxSteps
Happens == Room /\ happened' = happened + 1
Month(v) == IF v \in Keyed(Name) THEN v ELSE First
(* useAsync: a new load is the only one waited for; the one before it may    *)
(* still answer, with what it has read by then.                              *)
Snapshot(v) == [view |-> v, row |-> IF IsThere(server) /\ Listed(Name, v, server) THEN server ELSE Gone, version |-> version]
Load(v) == /\ live' = [view |-> v, got |-> Absent]
           /\ superseded' = IF live = Absent THEN superseded ELSE IF live.got = Absent THEN Snapshot(live.view) ELSE live.got
NoLoad == UNCHANGED <<live, superseded>>
ReadLive == /\ live # Absent /\ live.got = Absent /\ live' = [live EXCEPT !.got = Snapshot(live.view)]
            /\ UNCHANGED <<place, view, shown, error, superseded, due, asked, server, version, out, rest>>
Settle == /\ live # Absent /\ live.got # Absent /\ live' = Absent /\ shown' = live.got /\ error' = FALSE
          /\ UNCHANGED <<place, view, superseded, due, asked, server, version, out, rest>>
Fails == /\ live # Absent /\ Happens /\ live' = Absent /\ error' = TRUE
         /\ UNCHANGED <<place, view, shown, superseded, due, asked, server, version, out, told, wronged>>
Overtaken(answer) == answer   \* mutant: an answer is shown whether or not its load was superseded
Alive(answer) == shown
Late == /\ superseded # Absent /\ superseded' = Absent /\ shown' = Alive(superseded)
        /\ UNCHANGED <<place, view, error, live, due, asked, server, version, out, rest>>
Retry == /\ error /\ live = Absent /\ Load(Month(view))
         /\ UNCHANGED <<place, view, shown, error, due, asked, server, version, out, rest>>
Look(v) == /\ Happens /\ v \in Views(Name) /\ v # view /\ asked = Absent /\ view' = v
           /\ IF Month(v) # Month(view) THEN Load(Month(v)) ELSE NoLoad
           /\ UNCHANGED <<place, shown, error, due, asked, server, version, out, told, wronged>>
-----------------------------------------------------------------------------
(* AsyncSection: rows are on the screen once they were ever loaded, and stay *)
(* until the ones asked for are there; toolbars always are.                  *)
Seen == IF shown # Absent /\ IsThere(shown.row) /\ (view \in Keyed(Name) \/ Listed(Name, view, shown.row)) THEN shown.row ELSE Gone
Choices == Offered(Name, Seen)
Free(op) ==
    LET guard == Ops(Name)[op].guard IN
    CASE guard = "none" -> TRUE
      [] guard = "row" -> ~\E r \in out : Ops(Name)[r.op].guard = "row"
      [] guard \in {"form", "held"} -> asked.sent = 0
      [] guard = "seen" -> asked.sent = 0 /\ live = Absent /\ ~error /\ asked.saw = Seen
      [] guard \in {"page", "dialog"} -> ~\E r \in out : Ops(Name)[r.op].guard \in {guard, "still"}
      [] guard = "still" -> live = Absent /\ ~\E r \in out : Ops(Name)[r.op].guard \in {"page", "still"}
Send(op, saw) ==
    /\ Free(op)
    /\ out' = out \cup {[no |-> happened + 1, op |-> op, saw |-> saw, phase |-> "sent", row |-> Gone, version |-> 0]}
    /\ UNCHANGED <<place, view, error, live, superseded, due, server, version, told, wronged>>
Direct(op) == /\ Happens /\ asked = Absent /\ Ops(Name)[op].by = "press" /\ op \in Choices
              /\ Send(op, Seen) /\ UNCHANGED asked
              /\ IF ~Ops(Name)[op].hopeful THEN UNCHANGED shown
                 ELSE \E hoped \in Does(Name, op, Seen, Seen) : shown' = [shown EXCEPT !.row = hoped]
(* A form is filled from the row it is opened on, a question names it.       *)
Ask(op) == /\ asked = Absent /\ Ops(Name)[op].by \in {"form", "confirm"} /\ op \in Choices
              /\ asked' = [op |-> op, saw |-> Seen, sent |-> 0]
              /\ UNCHANGED <<place, view, shown, error, live, superseded, due, server, version, out, rest>>
Submit == asked # Absent /\ Happens /\ Send(asked.op, asked.saw) /\ asked' = [asked EXCEPT !.sent = happened + 1] /\ UNCHANGED shown
(* Modal: Escape and the cross close it, also while its request is under way *)
(* unless the page holds it open.                                            *)
Held == Ops(Name)[asked.op].guard \in {"held", "seen"} /\ asked.sent # 0
Dismiss == /\ asked # Absent /\ ~Held /\ asked' = Absent
           /\ UNCHANGED <<place, view, shown, error, live, superseded, due, server, version, out, rest>>
-----------------------------------------------------------------------------
(* The server takes a request or refuses it; the answer may be lost.          *)
Phase(r, phase) == out' = (out \ {r}) \cup {[r EXCEPT !.phase = phase]}
Take(r) ==
    /\ r.phase = "sent" /\ version' = version + 1
    /\ \E now \in Does(Name, r.op, r.saw, server) :
         server' = now /\ out' = (out \ {r}) \cup {[r EXCEPT !.phase = "done", !.row = now, !.version = version + 1]}
    /\ UNCHANGED <<page, rest>>
Refuse(r) ==
    /\ r.phase = "sent" /\ Does(Name, r.op, r.saw, server) = {} /\ Phase(r, "refused")
    /\ wronged' = (wronged \/ (server = r.saw /\ ~Ops(Name)[r.op].doubtful)) /\ UNCHANGED <<page, server, version, happened, told>>
Lose(r) == /\ r.phase \in {"sent", "done"} /\ Happens /\ Phase(r, "lost")
           /\ UNCHANGED <<page, server, version, told, wronged>>

(* api.ts, on the answer of a change: everything that hears its domain       *)
(* reloads a moment later.                                                   *)
Apart == {"gate", "crm", "alerts", "updates", "appearance"}
Notices(domain) == domain \in place[2] \/ ("financial" \in place[2] /\ domain \notin Apart)
Closes(r) == asked # Absent /\ Ops(Name)[r.op].by = Ops(Name)[asked.op].by
Answered(r) ==
    LET op == Ops(Name)[r.op] IN
    /\ r.phase = "done"
    /\ told' = IF r.version > told THEN r.version ELSE told
    /\ asked' = IF op.by # "press" /\ Closes(r) THEN Absent ELSE asked
    /\ due' = (due \/ Notices(Domain(op.call)))
    /\ IF op.reloads THEN Load(Month(view)) ELSE NoLoad
    /\ shown' = IF op.patches /\ shown # Absent THEN [shown EXCEPT !.row = r.row, !.version = r.version] ELSE shown
    /\ out' = out \ {r}
    /\ UNCHANGED <<place, view, error, server, version, happened, wronged>>
(* A failure is told by the form, by useConfirm, by the page's own message,  *)
(* or, when the server could not be reached, by api.ts.                      *)
Failed(r) ==
    /\ r.phase \in {"refused", "lost"} /\ out' = out \ {r}
    /\ asked' = IF asked = Absent THEN Absent ELSE IF Ops(Name)[r.op].by = "confirm" /\ Closes(r) THEN Absent
                ELSE IF asked.sent = r.no THEN [asked EXCEPT !.sent = 0] ELSE asked
    /\ UNCHANGED <<place, view, shown, error, live, superseded, due, server, version, happened, told, wronged>>
Reload == /\ due /\ due' = FALSE /\ Load(Month(view))
          /\ UNCHANGED <<place, view, shown, error, asked, server, version, out, rest>>
OtherTab(op) ==
    /\ Happens /\ version' = version + 1
    /\ op \in Offered(Name, server)
    /\ \E row \in Does(Name, op, server, server) : row # server /\ server' = row
    /\ UNCHANGED <<page, out, told, wronged>>

ScreenNext ==
    \/ ReadLive \/ Settle \/ Fails \/ Late \/ Retry \/ Reload \/ Submit \/ Dismiss
    \/ \E v \in Views(Name) : Look(v)
    \/ \E op \in DOMAIN Ops(Name) : Direct(op) \/ Ask(op) \/ OtherTab(op)
    \/ \E r \in out : Take(r) \/ Refuse(r) \/ Lose(r) \/ Answered(r) \/ Failed(r)
-----------------------------------------------------------------------------
(* The page is at rest: nothing is loading, no reload is due and the last    *)
(* load did not fail.                                                        *)
AtRest == live = Absent /\ ~due /\ ~error
(* A page at rest shows what its filters ask for, and not the books from     *)
(* before a change whose success the user has been told                      *)
(* (useAsync.ts:15, 39-60; api.ts:15-30).                                    *)
ShowsWhatWasSaved == AtRest => shown.view = Month(view) /\ shown.version >= told
(* What a page offers for a row as it shows it, the server takes: a request  *)
(* is refused only when the row changed since it was shown.                  *)
OffersAreTaken == ~wronged
ScreenHolds == ShowsWhatWasSaved /\ OffersAreTaken
=============================================================================
