------------------------------- MODULE Access -------------------------------
(* Who is at the door: logging in and out, the session a cookie stands for   *)
(* and how long it stays open, the accounts an administrator changes, and    *)
(* the log of what was changed.  Requests of several tabs interleave at      *)
(* every await.                                                              *)
EXTENDS Integers, Sequences, FiniteSets

CONSTANTS Accounts,    \* the accounts there are ...
          Admins,      \* ... and those that administer the others at first
          Tabs, Browser, \* tabs, and the browser (its cookie) of each
          Lifetime, Idle, Touch, \* of a session; when its use is noted
          PageSize,    \* of the log
          None,
          MaxTime, MaxLogins, MaxChanges \* bounds

VARIABLES user, logins, cookie, request, log, walk, now, minted, changes, overlap, used
accessVars == <<user, logins, cookie, request, log, walk, now, minted, changes, overlap, used>>

Browsers == {Browser[t] : t \in Tabs}
Free == [at |-> "free"]
Idling(t) == request[t].at = "free"
Under(kind) == {t \in Tabs : request[t].at \in kind}
LoggingIn == {"checked", "known", "opened"}

AccessInit ==
    /\ user = [a \in Accounts |-> [role |-> IF a \in Admins THEN "ADMIN" ELSE "USER", status |-> "active",
                                   hash |-> [version |-> 1, legacy |-> a \notin Admins]]]
    /\ logins = {} /\ cookie = [b \in Browsers |-> None] /\ request = [t \in Tabs |-> Free]
    /\ log = <<>> /\ walk = None /\ now = 1 /\ minted = 0 /\ changes = 0 /\ overlap = {} /\ used = [n \in 1..MaxLogins |-> 0]

Become(t, r) == request' = [request EXCEPT ![t] = r]
(* Two logins of one browser, or two updates of accounts, under way at once. *)
Overlaps(t, kind) == \E u \in Under(kind) \ {t} : kind # LoggingIn \/ Browser[u] = Browser[t]

(* Login: the account is read and its password compared (given right here:   *)
(* a wrong one, or an inactive account, changes nothing) ...                 *)
VerifyCredentials(t, a) ==
    /\ Idling(t) /\ user[a].status = "active"
    /\ Become(t, [at |-> "checked", account |-> a, hash |-> user[a].hash, old |-> cookie[Browser[t]]])
    /\ overlap' = IF Overlaps(t, LoggingIn) THEN overlap \cup {"login"} ELSE overlap
    /\ UNCHANGED <<user, logins, cookie, log, walk, now, minted, changes, used>>

(* ... a legacy hash is replaced, unless the password changed meanwhile ...  *)
Rehashed(t) ==
    LET r == request[t]
    IN IF ~r.hash.legacy THEN user
       ELSE IF user[r.account].hash = r.hash THEN [user EXCEPT ![r.account].hash.legacy = FALSE]
       ELSE user
Rehash(t) ==
    LET r == request[t]
    IN /\ r.at = "checked"
       /\ user' = Rehashed(t)
       /\ Become(t, IF r.hash.legacy /\ user[r.account].hash # r.hash THEN Free ELSE [r EXCEPT !.at = "known"])
       /\ UNCHANGED <<logins, cookie, log, walk, now, minted, changes, overlap, used>>

(* ... expired sessions are removed and one of its own is created ...        *)
DeleteExpired == {s \in logins : s.expires >= now}
CreateSession(t) ==
    /\ request[t].at = "known" /\ minted < MaxLogins
    /\ minted' = minted + 1
    /\ logins' = DeleteExpired \cup {[token |-> minted', account |-> request[t].account, expires |-> now + Lifetime, seen |-> now]}
    /\ used' = [used EXCEPT ![minted'] = now]
    /\ Become(t, [at |-> "opened", old |-> request[t].old, token |-> minted'])
    /\ UNCHANGED <<user, cookie, log, walk, now, changes, overlap>>

(* ... and the session of the cookie it came with is closed.                 *)
WithoutToken(token) == {s \in logins : s.token # token}
LeaveOld(token) == logins   \* mutant: the session it came with is not closed
DeleteByToken(token) == IF token = None THEN logins ELSE WithoutToken(token)
Login(t) ==
    /\ request[t].at = "opened"
    /\ logins' = DeleteByToken(request[t].old)
    /\ cookie' = [cookie EXCEPT ![Browser[t]] = request[t].token]
    /\ Become(t, Free)
    /\ UNCHANGED <<user, log, walk, now, minted, changes, overlap, used>>

(* The session a cookie stands for: an account that is active now, behind a  *)
(* session that has neither expired nor been left alone for too long.        *)
Sessions(token) == {s \in logins : s.token = token}
Valid(s) == s.expires > now /\ now - s.seen < Idle
Open(token) == {s \in Sessions(token) : Valid(s) /\ user[s.account].status = "active"}
ResolveSession(token) == IF Open(token) = {} THEN None ELSE (CHOOSE s \in Open(token) : TRUE).account
TouchNever(token) == logins   \* mutant: its use is not noted
Touched(token) ==
    {IF s \in Open(token) /\ now - s.seen >= Touch THEN [s EXCEPT !.seen = now] ELSE s : s \in logins}
Use(token) ==
    IF ResolveSession(token) = None THEN UNCHANGED <<logins, used>>
    ELSE logins' = Touched(token) /\ used' = [used EXCEPT ![token] = now]

GateAuth(t) ==
    /\ Idling(t) /\ cookie[Browser[t]] # None
    /\ Use(cookie[Browser[t]])
    /\ UNCHANGED <<user, cookie, request, log, walk, now, minted, changes, overlap>>
Logout(t) ==
    LET token == cookie[Browser[t]]
    IN /\ Idling(t) /\ ResolveSession(token) # None
       /\ logins' = DeleteByToken(token) /\ cookie' = [cookie EXCEPT ![Browser[t]] = None]
       /\ UNCHANGED <<user, request, log, walk, now, minted, changes, overlap, used>>

(* An administrator changes an account: who it is and what it may do is read *)
(* with the session; its own account it can neither demote nor deactivate.   *)
Body(role, status, password) == [role |-> role, status |-> status, password |-> password]
Bodies == {Body("USER", None, FALSE), Body(None, "inactive", FALSE), Body(None, "active", TRUE)}
RoleOnly(a, acting, body) == a = acting => body.role \in {None, "ADMIN"}   \* mutant: its own status is not looked at
Allowed(a, acting, body) == a = acting => body.role \in {None, "ADMIN"} /\ body.status \in {None, "active"}
RequireRole(a, roles) == a # None /\ user[a].role \in roles
BeginUpdate(t, a, body) ==
    LET acting == ResolveSession(cookie[Browser[t]])
    IN /\ Idling(t) /\ changes < MaxChanges
       /\ RequireRole(acting, {"ADMIN"}) /\ Allowed(a, acting, body)
       /\ Use(cookie[Browser[t]])
       /\ changes' = changes + 1
       /\ Become(t, [at |-> "updating", acting |-> acting, account |-> a, body |-> body])
       /\ overlap' = IF Overlaps(t, {"updating"}) THEN overlap \cup {"update"} ELSE overlap
       /\ UNCHANGED <<user, cookie, log, walk, now, minted>>

Updated(u, body) ==
    [role |-> IF body.role = None THEN u.role ELSE body.role,
     status |-> IF body.status = None THEN u.status ELSE body.status,
     hash |-> IF body.password THEN [version |-> u.hash.version + 1, legacy |-> FALSE] ELSE u.hash]
UpdateCustomer(t) ==
    LET r == request[t]
    IN /\ r.at = "updating"
       /\ user' = [user EXCEPT ![r.account] = Updated(@, r.body)]
       /\ Become(t, [at |-> "answered", acting |-> r.acting])
       /\ UNCHANGED <<logins, cookie, log, walk, now, minted, changes, overlap, used>>
(* The log is written after the answer, in whatever order the writes land.   *)
RecordActivity(t) ==
    /\ request[t].at = "answered"
    /\ log' = Append(log, request[t].acting)
    /\ Become(t, Free)
    /\ UNCHANGED <<user, logins, cookie, walk, now, minted, changes, overlap, used>>

(* Its owner walks through the log, the newest first, a page at a time.      *)
Events(a, before) == {i \in DOMAIN log : log[i] = a /\ i < before}
Newest(ids, n) == {i \in ids : Cardinality({j \in ids : j > i}) < n}
Last(ids) == CHOOSE i \in ids : \A j \in ids : i <= j
CursorBelow(page, rows) == IF rows = page THEN None ELSE Last(rows)   \* mutant: the cursor is the row after the page
NextCursor(page, rows) == IF rows = page THEN None ELSE Last(page)
ListActivity(a, before) ==
    LET rows == Newest(Events(a, before), PageSize + 1)
        page == Newest(rows, PageSize)
    IN [items |-> page, next |-> NextCursor(page, rows)]
OpenLog(a) ==
    /\ walk = None /\ Events(a, Len(log) + 1) # {}
    /\ LET p == ListActivity(a, Len(log) + 1)
       IN walk' = [owner |-> a, items |-> <<p.items>>, next |-> p.next, there |-> Events(a, Len(log) + 1)]
    /\ UNCHANGED <<user, logins, cookie, request, log, now, minted, changes, overlap, used>>
MoreLog ==
    /\ walk # None /\ walk.next # None
    /\ LET p == ListActivity(walk.owner, walk.next)
       IN walk' = [walk EXCEPT !.items = Append(@, p.items), !.next = p.next]
    /\ UNCHANGED <<user, logins, cookie, request, log, now, minted, changes, overlap, used>>

Tick ==
    /\ now < MaxTime /\ now' = now + 1
    /\ UNCHANGED <<user, logins, cookie, request, log, walk, minted, changes, overlap, used>>

AccessNext ==
    \/ \E t \in Tabs :
          \/ Rehash(t) \/ CreateSession(t) \/ Login(t) \/ GateAuth(t) \/ Logout(t) \/ UpdateCustomer(t) \/ RecordActivity(t)
          \/ \E a \in Accounts : VerifyCredentials(t, a) \/ \E body \in Bodies : BeginUpdate(t, a, body)
    \/ \E a \in Accounts : OpenLog(a)
    \/ MoreLog \/ Tick
AccessSpec == AccessInit /\ [][AccessNext]_accessVars
-----------------------------------------------------------------------------
(* crm.service.ts: the guard against locking oneself out.  As long as no two *)
(* updates were under way at once, an active administrator is left.          *)
AdministratorStays ==
    "update" \in overlap \/ \E a \in Accounts : user[a].role = "ADMIN" /\ user[a].status = "active"

(* Logging in again leaves nothing open behind: once no login is under way,  *)
(* every session still open is the one of a browser's cookie, unless two     *)
(* logins of one browser overlapped.                                         *)
NothingLeftOpen ==
    "login" \in overlap \/ Under(LoggingIn) # {} \/ \A s \in logins : \E b \in Browsers : cookie[b] = s.token

(* A session that is used is not closed for being idle sooner than the time  *)
(* allowed, less the minute within which a use is not noted.                 *)
UsedStaysOpen ==
    \A s \in logins : now < s.expires /\ now - used[s.token] < Idle - Touch + 1 => Valid(s)

(* Walking through the log shows what was there when it was opened, each     *)
(* event once, whatever is recorded meanwhile.                               *)
LogWalked ==
    walk # None =>
        /\ \A i, j \in DOMAIN walk.items : i # j => walk.items[i] \cap walk.items[j] = {}
        /\ walk.next = None => UNION {walk.items[i] : i \in DOMAIN walk.items} = walk.there

AccessHolds == AdministratorStays /\ NothingLeftOpen /\ UsedStaysOpen /\ LogWalked
=============================================================================
