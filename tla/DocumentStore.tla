---------------------------- MODULE DocumentStore ----------------------------
(***************************************************************************)
(* The log of uploaded documents and the bytes they share on disk          *)
(* (modules/documents: documents.service, documentStorage.service; the     *)
(* parts of imports/importSession.service that store and read a file).  The*)
(* database changes of a request are one financial transaction and one     *)
(* step here; a file written inside one stays when it fails, a write may be*)
(* cut short, and the bytes of a removed document are deleted by a second  *)
(* transaction after the first has committed, or never if the server dies. *)
(* A path is made of the file's hash and the name it was uploaded under.   *)
(***************************************************************************)
EXTENDS Naturals, Sequences

CONSTANTS Hashes, Names,
          NoPath,
          Legacy,        \* paths (or none) of documents older than the import sessions
          MaxSessions,   \* bound: import sessions
          MaxDocs        \* bound: documents, the legacy ones included

Paths == Hashes \X Names
SessionIds == 1..MaxSessions
DocIds == 1..MaxDocs

(* What is assumed of the constants.                                         *)
Assumption ==
    /\ NoPath \notin Paths /\ MaxDocs \in Nat /\ Len(Legacy) <= MaxDocs
    /\ \A i \in DOMAIN Legacy : /\ Legacy[i] \in [hash : Hashes, path : Paths \cup {NoPath}]
                                /\ Legacy[i].path # NoPath => Legacy[i].path[1] = Legacy[i].hash

VARIABLES disk,       \* none, torn or whole bytes at each path
          session,    \* status of each import session, in the order they were made
          file,       \* the path each session stored its file at
          doc,        \* none, imported, rolled_back or removed
          stored,     \* hash and path of each document
          source,     \* the session that made it, 0 for a legacy one
          unlinking   \* paths whose last known document was removed, to be looked at

vars == <<disk, session, file, doc, stored, source, unlinking>>

NotMade == [hash |-> NoPath, path |-> NoPath]
Open == "open"              \* uploaded, processing, failed, needs_input, ready_for_review
Standing == {"review", "completed"}
Over == {"cancelled", "rolled_back"}

Init ==
    /\ session = [s \in SessionIds |-> "none"]
    /\ file = [s \in SessionIds |-> NoPath]
    /\ \E old \in 0..2 : old <= Len(Legacy)
        /\ doc = [d \in DocIds |-> IF d <= old THEN "imported" ELSE "none"]
        /\ stored = [d \in DocIds |-> IF d <= old THEN Legacy[d] ELSE NotMade]
    /\ disk = [p \in Paths |-> IF \E d \in DocIds : stored[d].path = p THEN "whole" ELSE "none"]
    /\ source = [d \in DocIds |-> 0]
    /\ unlinking = {}
-----------------------------------------------------------------------------
HashOf(s) == file[s][1]
Sessions(h) == {s \in SessionIds : session[s] # "none" /\ HashOf(s) = h}
Live(h) == {s \in Sessions(h) : session[s] \notin Over}
Documents == {d \in DocIds : doc[d] \in {"imported", "rolled_back"}}
NextOf(ids, f) == {i \in ids : f[i] = "none" /\ \A j \in ids : j < i => f[j] # "none"}

(* documentStorage.save, which a failing disk or a dying server cuts short:  *)
(* the transaction around it then leaves nothing, the bytes stay.            *)
Written(p) == disk' = [disk EXCEPT ![p] = "whole"]
CutShort(p) ==
    /\ disk' = [disk EXCEPT ![p] = "torn"]
    /\ unlinking' \in {unlinking, {}}
    /\ UNCHANGED <<session, file, doc, stored, source>>

(* importSessions.create: an upload of a file already under way goes on with *)
(* the session it has.                                                       *)
NoneLive(h) == Live(h) = {}

Create(p) ==
    /\ NoneLive(p[1])
    /\ \/ \E s \in NextOf(SessionIds, session) :
            /\ Written(p)
            /\ session' = [session EXCEPT ![s] = Open]
            /\ file' = [file EXCEPT ![s] = p]
            /\ UNCHANGED <<doc, stored, source, unlinking>>
       \/ CutShort(p)

(* importSessions.commit: reads the file, adds its rows, writes it again in  *)
(* place and records the document; without either the commit fails.          *)
Commit(s) ==
    /\ session[s] = Open /\ disk[file[s]] = "whole"
    /\ \/ \E d \in NextOf(DocIds, doc) :
            /\ Written(file[s])
            /\ session' = [session EXCEPT ![s] = "review"]
            /\ doc' = [doc EXCEPT ![d] = "imported"]
            /\ stored' = [stored EXCEPT ![d] = [hash |-> HashOf(s), path |-> file[s]]]
            /\ source' = [source EXCEPT ![d] = s]
            /\ UNCHANGED <<file, unlinking>>
       \/ CutShort(file[s])

ToStatus(s, from, to) ==
    /\ session[s] \in from
    /\ session' = [session EXCEPT ![s] = to]
    /\ UNCHANGED <<disk, file, doc, stored, source, unlinking>>

Cancel(s) == ToStatus(s, {Open}, "cancelled")
Finish(s) ==
    /\ \A d \in DocIds : source[d] = s => doc[d] = "imported"
    /\ ToStatus(s, {"review"}, "completed")

(* documentsService.rollback: the document stays as a record.                *)
Rollback(d) ==
    /\ doc[d] = "imported"
    /\ doc' = [doc EXCEPT ![d] = "rolled_back"]
    /\ session' = [s \in SessionIds |->
                     IF s = source[d] /\ session[s] \in Standing THEN "rolled_back" ELSE session[s]]
    /\ UNCHANGED <<disk, file, stored, source, unlinking>>

(* documentsService.remove: refused as long as the file has any session.     *)
Unreferenced(d) == Sessions(stored[d].hash) = {}

RemoveDocument(d) ==
    /\ d \in Documents /\ Unreferenced(d)
    /\ doc' = [doc EXCEPT ![d] = "removed"]
    /\ unlinking' = IF stored[d].path = NoPath THEN unlinking ELSE unlinking \cup {stored[d].path}
    /\ UNCHANGED <<disk, session, file, stored, source>>

(* ... and after its commit the bytes, unless something came to need them.   *)
UsersNow(p) == {}     \* mutant: the bytes are deleted on what was known before the commit
Users(p) == {d \in Documents : stored[d].path = p}
            \cup {s \in SessionIds : session[s] # "none" /\ file[s] = p}

Unlink(p) ==
    /\ p \in unlinking
    /\ disk' = IF Users(p) = {} THEN [disk EXCEPT ![p] = "none"] ELSE disk
    /\ unlinking' = unlinking \ {p}
    /\ UNCHANGED <<session, file, doc, stored, source>>

Crash ==
    /\ unlinking # {}
    /\ unlinking' = {}
    /\ UNCHANGED <<disk, session, file, doc, stored, source>>

(* documentsService.rows: from the newest session of the file that stands;   *)
(* documentsService.list, file: what the screen offers and the server serves.*)
RowsFrom(d) == {s \in Live(stored[d].hash) : \A q \in Live(stored[d].hash) : q <= s}
HasFile(d) == stored[d].path # NoPath
Served(d) == HasFile(d) /\ disk[stored[d].path] # "none"

Next ==
    \/ \E p \in Paths : Create(p) \/ Unlink(p)
    \/ \E s \in SessionIds : Commit(s) \/ Cancel(s) \/ Finish(s)
    \/ \E d \in DocIds : Rollback(d) \/ RemoveDocument(d)
    \/ Crash

Spec == Init /\ [][Next]_vars
-----------------------------------------------------------------------------
(* The list offers a file only where the server has bytes to serve, and a    *)
(* session under way has bytes to be committed from, whatever was removed    *)
(* between two requests (documents.service.ts:407-416; the case of a file    *)
(* uploaded again between the removal and the deletion of its bytes).        *)
BytesKept ==
    /\ \A d \in Documents : HasFile(d) => Served(d)
    /\ \A s \in SessionIds : session[s] \in {Open} \cup Standing => disk[file[s]] # "none"

(* The file of an import that stands is whole: nothing writes at its path    *)
(* again, however often it is uploaded (importSession.service.ts:129-131).   *)
StandingFileWhole ==
    \A s \in SessionIds : session[s] \in Standing => disk[file[s]] = "whole"

(* A document whose import stands shows the rows of that import and of no    *)
(* other upload of the file (documents.service.ts:422-430).                  *)
RowsAreItsOwn ==
    \A d \in Documents :
        source[d] # 0 /\ session[source[d]] \in Standing => RowsFrom(d) = {source[d]}

(* What the log shows of a document can be relied on: the three above.       *)
DocumentsReadable == BytesKept /\ StandingFileWhole /\ RowsAreItsOwn
=============================================================================
