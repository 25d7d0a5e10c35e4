----------------------------- MODULE TemporaryLab -----------------------------
(***************************************************************************)
(* The temporary diagnostic lab of the API process: sessions and their     *)
(* directories in TemporaryDiagnosticStore, the requests of the /lab       *)
(* router, the browser page that keeps a session alive with heartbeats and *)
(* closes it with a beacon, and the process that stops, dies and starts.   *)
(*                                                                         *)
(* Handlers run on one event loop and are atomic, except the upload, which *)
(* awaits the engine for each of its documents: any other request may come *)
(* in between.  Nothing runs in the background: only a request sweeps.     *)
(*                                                                         *)
(* Time advances in ticks.  Every age stops at the limit it is compared    *)
(* with, so clocks need no bound.  Identifiers are random in the code and  *)
(* never come back: here they are taken in order, once.                    *)
(***************************************************************************)
EXTENDS Integers, Sequences, SequencesExt, FiniteSets

CONSTANTS
  MaxSessions, MaxDocuments, MaxUploads,   (* bounds                       *)
  Beat,       (* interval of the page's heartbeats                         *)
  Delay,      (* how long a heartbeat that is not lost may travel and wait *)
  Grace,      (* inactive_session_grace_period                             *)
  Lifetime,   (* maximum_session_lifetime                                  *)
  Interval,   (* cleanup_interval                                          *)
  MaxStarts,  (* bound: processes started, the last of which goes on       *)
  None

ASSUME LabAssumption ==
  /\ {MaxSessions, MaxDocuments, MaxUploads, MaxStarts} \subseteq Nat
  /\ 0 < MaxStarts /\ {Beat, Delay, Grace, Lifetime, Interval} \subseteq Nat
  /\ 0 < Beat /\ 0 < Interval /\ Beat + Delay < Grace /\ 0 < Lifetime
  /\ None \notin Nat

Sessions  == 1..MaxSessions
Documents == 1..MaxDocuments
Uploads   == 1..MaxUploads

VARIABLES
  session,     (* status, idle, age and documents of each session          *)
  upload,      (* pc, session, todo, outcome, refused of each upload       *)
  saved,       (* documents saved so far                                   *)
  sinceSweep,  (* time since _last_cleanup                                 *)
  dir,         (* the directory of each session: whether it is there, time *)
               (* since it was modified, and while the session is open the *)
               (* <<kind, document>> of uploads, reports and exports in it *)
  starts, up,  (* processes started; whether one runs                      *)
  page,        (* session, leaving flag and heartbeat timer of the page    *)
  wire,        (* the heartbeat and the close beacon under way             *)
  missed       (* history: whether a heartbeat of the page's session was   *)
               (* lost since the page opened it                            *)

store   == <<session, sinceSweep, dir>>
uploads == <<upload, saved>>
process == <<starts, up>>
browser == <<page, wire, missed>>
vars == <<session, upload, saved, sinceSweep, dir, starts, up, page, wire, missed>>

Unfinished == {"queued", "building_scene"}
Statuses   == Unfinished \cup {"completed", "failed", "cancelled"}

(* "cancelled" is a document that was removed; its report is what the      *)
(* document object knows of, for whoever still holds it.                   *)
NoDocument == [status |-> "none", report |-> FALSE]
NoSession  == [status |-> "none", idle |-> 0, age |-> 0,
               docs |-> [d \in Documents |-> NoDocument]]
NoUpload   == [pc |-> "idle", session |-> None, todo |-> <<>>,
               outcome |-> "none", refused |-> FALSE]
NoDir      == [there |-> FALSE, age |-> 0, files |-> {}]
NoPage     == [session |-> None, transferring |-> FALSE, timer |-> 0]
NoWire     == [beat |-> None, age |-> 0, close |-> None]

Init ==
  /\ session = [s \in Sessions |-> NoSession]
  /\ upload = [u \in Uploads |-> NoUpload] /\ saved = 0
  /\ sinceSweep = Interval
  /\ dir = [s \in Sessions |-> NoDir]
  /\ starts = 1 /\ up = TRUE
  /\ page = NoPage /\ wire = NoWire /\ missed = FALSE

Open == {s \in Sessions : session[s].status = "open"}
Dirs == {s \in Sessions : dir[s].there}

(* The engine's worker threads write below the session's directory.        *)
Busy(s) == \E u \in Uploads : upload[u].session = s /\ upload[u].pc = "parsing"

(* The request of an upload has not answered yet. *)
Active(u) == upload[u].pc \in {"loop", "parsing", "applying"}

(* An upload holds the document it processes, listed or removed.           *)
Processing(d) ==
  \E u \in Uploads : /\ upload[u].pc \in {"parsing", "applying"}
                     /\ Head(upload[u].todo) = d

-----------------------------------------------------------------------------
(* The store                                                               *)

(* What the cleaner closes: expired sessions and abandoned ones.           *)
Stale == {s \in Open : session[s].age = Lifetime \/ session[s].idle = Grace}

(* Mutant: only what this process created is ever removed. *)
NoOrphans(open) == {}

(* cleanup_orphans goes by the age of the directory.                       *)
Orphans(open) == {s \in Dirs \ open : dir[s].age = Lifetime}

(* Which of the two reasons a session is closed for is kept as history.    *)
Closed(ss) ==
  [s \in Sessions |->
     IF s \notin ss THEN session[s]
     ELSE [NoSession EXCEPT !.status =
             IF session[s].age = Lifetime THEN "expired" ELSE "closed"]]

(* Mutant: a tree that is written to is left as it is, others are too. *)
RemovedNone(dirs, ss) ==
  {[s \in Sessions |-> IF s \in ss THEN [dirs[s] EXCEPT !.files = {}] ELSE dirs[s]]}

(* Removing a tree ignores errors: a directory that is being written to    *)
(* may stay, without what it held.                                         *)
Removed(dirs, ss) ==
  {[s \in Sessions |-> IF s \in ss THEN [NoDir EXCEPT !.there = s \in kept]
                       ELSE dirs[s]] :
     kept \in SUBSET {s \in ss : Busy(s)}}

(* cleanup_due: what a request finds stale, if a sweep is due.             *)
Due    == sinceSweep = Interval
Swept  == IF Due THEN Stale ELSE {}
Doomed == Swept \cup (IF Due THEN Orphans(Open \ Swept) ELSE {})

Found(s) == s \in Open \ Swept

(* Mutant: requests do not count as activity. *)
NotTouched(record) == record

Touched(record) == [record EXCEPT !.idle = 0]

(* get_session: the sweep comes first, then the look-up, and only a        *)
(* session that is still there is touched.  docs and files are what the    *)
(* handler then makes of the session's documents and files.                *)
GetSession(s, docs, files) ==
  /\ sinceSweep' = IF Due THEN 0 ELSE sinceSweep
  /\ session' = IF Found(s)
                THEN [Closed(Swept) EXCEPT ![s] = Touched([@ EXCEPT !.docs = docs])]
                ELSE Closed(Swept)
  /\ \E left \in Removed(dir, Doomed) :
       dir' = IF Found(s) THEN [left EXCEPT ![s].files = files] ELSE left

LookUp(s) == GetSession(s, session[s].docs, dir[s].files)

(* create_session, and the page that asked for it unless it has left.      *)
CreateSession(s) ==
  /\ up /\ page.session = None
  /\ session[s].status = "none" /\ \A t \in 1..(s - 1) : session[t].status # "none"
  /\ sinceSweep' = IF Due THEN 0 ELSE sinceSweep
  /\ session' = [Closed(Swept) EXCEPT ![s].status = "open"]
  /\ \E left \in Removed(dir, Doomed) :
       dir' = [left EXCEPT ![s] = [NoDir EXCEPT !.there = TRUE]]
  /\ \/ page' = [NoPage EXCEPT !.session = s]
     \/ UNCHANGED page
  /\ UNCHANGED <<uploads, process, wire, missed>>

(* Mutant: the session is forgotten and its directory is left. *)
CloseSessionKeepsFiles(s) ==
  /\ session' = Closed({s} \cap Open)
  /\ UNCHANGED <<sinceSweep, dir>>

(* close_session: closing one that is not there changes nothing.           *)
CloseSession(s) ==
  /\ session' = Closed({s} \cap Open)
  /\ dir' \in Removed(dir, {s} \cap Open)
  /\ UNCHANGED sinceSweep

(* POST /lab/cleanup sweeps whether it is due or not.                      *)
CleanupExpired ==
  /\ up
  /\ session' = Closed(Stale)
  /\ dir' \in Removed(dir, Stale \cup Orphans(Open \ Stale))
  /\ UNCHANGED <<uploads, sinceSweep, process, browser>>

-----------------------------------------------------------------------------
(* An upload: every file is saved, then one after the other is processed   *)

Batch(n) == [k \in 1..n |-> saved + k]

(* Files are validated and saved one by one: those before a refused one    *)
(* are saved, and the request raises.                                      *)
SaveUploads(u, s, n, refused) ==
  LET new == ToSet(Batch(n))
      docs  == [d \in Documents |->
        IF d \in new THEN [NoDocument EXCEPT !.status = "queued"] ELSE session[s].docs[d]]
      files == dir[s].files \cup {<<"upload", d>> : d \in new} IN
  /\ up /\ upload[u].pc = "idle" /\ session[s].status # "none"
  /\ GetSession(s, docs, files)
  /\ upload' = [upload EXCEPT ![u] =
       IF Found(s)
       THEN [NoUpload EXCEPT !.pc = IF refused THEN "raised" ELSE "loop",
                             !.session = s, !.todo = Batch(n), !.refused = refused]
       ELSE [NoUpload EXCEPT !.pc = "raised"]]
  /\ saved' = IF Found(s) THEN saved + n ELSE saved
  /\ UNCHANGED <<process, browser>>

Listed(s, d) == /\ s \in Open
                /\ session[s].docs[d].status \in Statuses \ {"cancelled"}

(* process_document up to the engine's await.                              *)
StartDocument(u) ==
  LET s == upload[u].session
      d == Head(upload[u].todo)
      docs == IF Listed(s, d) THEN [session[s].docs EXCEPT ![d].status = "building_scene"]
              ELSE session[s].docs IN
  /\ up /\ upload[u].pc = "loop" /\ upload[u].todo # <<>>
  /\ GetSession(s, docs, dir[s].files)
  /\ upload' = [upload EXCEPT ![u].pc =
                  IF Found(s) /\ Listed(s, d) THEN "parsing" ELSE "raised"]
  /\ UNCHANGED <<saved, process, browser>>

(* validate_pdf_batch returns or raises: a report is written for a failure *)
(* of the document too, in directories made again if they are gone.        *)
WriteReport(u) ==
  LET s == upload[u].session
      d == Head(upload[u].todo) IN
  /\ up /\ upload[u].pc = "parsing"
  /\ \E outcome \in {"completed", "failed", "raised"} :
       /\ upload' = [upload EXCEPT ![u].pc = "applying", ![u].outcome = outcome]
       /\ dir' = IF outcome = "raised" THEN dir
                 ELSE [dir EXCEPT ![s].there = TRUE,
                                  ![s].files = IF s \in Open
                                               THEN @ \cup {<<"report", d>>} ELSE @]
  /\ UNCHANGED <<session, saved, sinceSweep, process, browser>>

(* Mutant: an error leaves the document in the state it was in. *)
ApplyResultSuccessOnly(u) ==
  LET s == upload[u].session
      d == Head(upload[u].todo)
      outcome == upload[u].outcome IN
  /\ up /\ upload[u].pc = "applying"
  /\ session' = IF s \notin Open \/ outcome = "raised" THEN session
                ELSE [session EXCEPT ![s].docs[d] = [status |-> outcome, report |-> TRUE]]
  /\ upload' = [upload EXCEPT ![u].pc = "loop", ![u].todo = Tail(@),
                              ![u].outcome = "none"]
  /\ UNCHANGED <<saved, sinceSweep, dir, process, browser>>

(* The engine is shut down, which may wait for its tasks; the result goes  *)
(* to the document and the session this request holds.  A removed document *)
(* is not listed again by it: "late" is what it then is.                   *)
ApplyResult(u) ==
  LET s == upload[u].session
      d == Head(upload[u].todo)
      outcome == upload[u].outcome
      status == IF session[s].docs[d].status = "cancelled" THEN "late"
                ELSE IF outcome = "completed" THEN "completed" ELSE "failed"
      docs == [session[s].docs EXCEPT ![d] = [status |-> status,
                                              report |-> outcome # "raised"]] IN
  /\ up /\ upload[u].pc = "applying"
  /\ session' = IF s \notin Open THEN session
                ELSE [session EXCEPT ![s] = Touched([session[s] EXCEPT !.docs = docs])]
  /\ upload' = [upload EXCEPT ![u].pc = "loop", ![u].todo = Tail(@),
                              ![u].outcome = "none"]
  /\ UNCHANGED <<saved, sinceSweep, dir, process, browser>>

(* The answer looks the session up once more.                              *)
AnswerUpload(u) ==
  /\ up /\ upload[u].pc = "loop" /\ upload[u].todo = <<>>
  /\ LookUp(upload[u].session)
  /\ upload' = [upload EXCEPT ![u].pc = IF Found(upload[u].session)
                                        THEN "done" ELSE "raised"]
  /\ UNCHANGED <<saved, process, browser>>

-----------------------------------------------------------------------------
(* Requests about one document                                             *)

Cancelled(docs, d) == [docs EXCEPT ![d] = [NoDocument EXCEPT !.status = "cancelled"]]

(* Mutant: the upload is removed, the report is not. *)
RemoveDocumentUploadOnly(s, d) ==
  LET docs  == Cancelled(session[s].docs, d)
      files == dir[s].files \ {<<"upload", d>>} IN
  /\ up /\ Listed(s, d)
  /\ GetSession(s, docs, files)
  /\ UNCHANGED <<uploads, process, browser>>

(* remove_document: the upload and the report it knows of; what a request  *)
(* that still processes the document writes later, and an exported zip,    *)
(* stay until the session is closed.                                       *)
RemoveDocument(s, d) ==
  LET known == {<<"upload", d>>}
               \cup (IF session[s].docs[d].report THEN {<<"report", d>>} ELSE {})
      docs  == Cancelled(session[s].docs, d)
      files == dir[s].files \ known IN
  /\ up /\ Listed(s, d)
  /\ GetSession(s, docs, files)
  /\ UNCHANGED <<uploads, process, browser>>

(* export_document, through a link of the page or not: a link marks the    *)
(* page as leaving although a download does not leave it.                  *)
ExportDocument(s, d) ==
  LET exists == session[s].docs[d].report /\ <<"report", d>> \in dir[s].files
      files == dir[s].files \cup {f \in {<<"zip", d>>} : exists} IN
  /\ up /\ Listed(s, d)
  /\ GetSession(s, session[s].docs, files)
  /\ \/ page.session = s /\ page' = [page EXCEPT !.transferring = TRUE]
     \/ UNCHANGED page
  /\ UNCHANGED <<uploads, process, wire, missed>>

(* A link to a report, which a page also follows when its only document is *)
(* done, or back to the uploads: the old page is left without a beacon and *)
(* the new one starts its own timer, if there is one: the answer may be an *)
(* error.                                                                  *)
Navigate ==
  /\ up /\ page.session # None
  /\ LookUp(page.session)
  /\ \/ /\ Found(page.session)
        /\ page' = [NoPage EXCEPT !.session = page.session]
        /\ UNCHANGED missed
     \/ page' = NoPage /\ missed' = FALSE
  /\ UNCHANGED <<uploads, process, wire>>

-----------------------------------------------------------------------------
(* The page                                                                *)

(* The interval timer; the request may never arrive.                       *)
SendBeat ==
  /\ page.session # None /\ page.timer = Beat
  /\ page' = [page EXCEPT !.timer = 0]
  /\ \/ /\ wire.beat = None
        /\ wire' = [wire EXCEPT !.beat = page.session, !.age = 0]
        /\ UNCHANGED missed
     \/ missed' = TRUE /\ UNCHANGED wire
  /\ UNCHANGED <<store, uploads, process>>

ReceiveBeat ==
  /\ wire.beat # None
  /\ wire' = [wire EXCEPT !.beat = None, !.age = 0]
  /\ IF up THEN LookUp(wire.beat) ELSE UNCHANGED store
  /\ UNCHANGED <<uploads, process, page, missed>>

(* pagehide: no beacon from a page that believes it moves within the       *)
(* session, and none may arrive from one that closes.                      *)
Leave ==
  /\ page.session # None
  /\ page' = NoPage
  /\ missed' = FALSE
  /\ \/ ~page.transferring /\ wire' = [wire EXCEPT !.close = page.session]
     \/ UNCHANGED wire
  /\ UNCHANGED <<store, uploads, process>>

(* The close beacon arrives; it is sent twice, the second changes nothing. *)
ReceiveClose ==
  /\ wire.close # None
  /\ wire' = [wire EXCEPT !.close = None]
  /\ IF up THEN CloseSession(wire.close) ELSE UNCHANGED store
  /\ UNCHANGED <<uploads, process, page, missed>>

(* The button that clears the session deletes it and forgets it.           *)
ClearSession ==
  /\ up /\ page.session # None
  /\ page' = NoPage /\ missed' = FALSE
  /\ CloseSession(page.session)
  /\ UNCHANGED <<uploads, process, wire>>

-----------------------------------------------------------------------------
(* The process and time                                                    *)

Ended(u) == upload[u].pc \in {"idle", "done", "raised"}

(* The dictionary of sessions is gone.                                     *)
OpenBecome(status) ==
  /\ session' = [s \in Sessions |-> IF s \in Open
                                   THEN [NoSession EXCEPT !.status = status]
                                   ELSE session[s]]
  /\ sinceSweep' = Interval

Unread == [s \in Sessions |-> [dir[s] EXCEPT !.files = {}]]

(* api_lifespan's finally, after the server has let its requests end: all  *)
(* sessions are closed, unless shutting the engine down raises.            *)
Shutdown ==
  /\ up /\ starts < MaxStarts /\ \A u \in Uploads : Ended(u)
  /\ up' = FALSE
  /\ \/ OpenBecome("stopped") /\ dir' \in Removed(dir, Open)
     \/ OpenBecome("lost") /\ dir' = Unread
  /\ UNCHANGED <<uploads, starts, browser>>

(* The process dies; the files stay.                                       *)
Crash ==
  /\ up /\ starts < MaxStarts
  /\ up' = FALSE
  /\ OpenBecome("lost") /\ dir' = Unread
  /\ upload' = [u \in Uploads |->
       IF Ended(u) THEN upload[u]
       ELSE [NoUpload EXCEPT !.pc = "raised", !.session = upload[u].session]]
  /\ UNCHANGED <<saved, starts, browser>>

Start ==
  /\ ~up
  /\ up' = TRUE /\ starts' = starts + 1
  /\ UNCHANGED <<store, uploads, browser>>

Older(age, limit) == IF age < limit THEN age + 1 ELSE age

(* A timer that is due fires, and a heartbeat arrives, before it is late.  *)
Tick ==
  /\ page.session # None => page.timer < Beat
  /\ wire.beat # None => wire.age < Delay
  /\ session' = [s \in Sessions |->
       IF s \in Open
       THEN [session[s] EXCEPT !.idle = Older(@, Grace), !.age = Older(@, Lifetime)]
       ELSE session[s]]
  /\ sinceSweep' = Older(sinceSweep, Interval)
  /\ dir' = [s \in Sessions |->
       IF s \in Dirs THEN [dir[s] EXCEPT !.age = Older(@, Lifetime)] ELSE dir[s]]
  /\ page' = IF page.session = None THEN page ELSE [page EXCEPT !.timer = @ + 1]
  /\ wire' = IF wire.beat = None THEN wire ELSE [wire EXCEPT !.age = @ + 1]
  /\ UNCHANGED <<uploads, process, missed>>

-----------------------------------------------------------------------------
Serve(u) == StartDocument(u) \/ WriteReport(u) \/ ApplyResult(u) \/ AnswerUpload(u)

Next ==
  \/ \E s \in Sessions : CreateSession(s)
  \/ \E u \in Uploads, s \in Sessions, refused \in BOOLEAN :
       \E n \in 0..(MaxDocuments - saved) :
         /\ n > 0 \/ refused
         /\ \A v \in 1..(u - 1) : upload[v].pc # "idle"
         /\ SaveUploads(u, s, n, refused)
  \/ \E u \in Uploads : Serve(u)
  \/ \E s \in Sessions, d \in Documents : RemoveDocument(s, d) \/ ExportDocument(s, d)
  \/ Navigate \/ SendBeat \/ ReceiveBeat
  \/ Leave \/ ReceiveClose \/ ClearSession \/ CleanupExpired
  \/ Shutdown \/ Crash \/ Start \/ Tick

(* Time passes, the timer of an open page fires, what it sent arrives,     *)
(* requests under way go on and a process is started again.  Nobody is     *)
(* taken to open a page or to ask for a cleanup, and nothing in the        *)
(* process does.                                                           *)
Fairness ==
  /\ WF_vars(Tick) /\ WF_vars(SendBeat) /\ WF_vars(ReceiveBeat) /\ WF_vars(ReceiveClose)
  /\ \A u \in Uploads : WF_vars(Serve(u))
  /\ WF_vars(Start)

Spec == Init /\ [][Next]_vars /\ Fairness

-----------------------------------------------------------------------------
TypeOK ==
  /\ \A s \in Sessions :
       /\ session[s].status \in {"none", "open", "closed", "expired",
                                 "stopped", "lost"}
       /\ session[s].idle \in 0..Grace /\ session[s].age \in 0..Lifetime
       /\ session[s].docs \in [Documents -> [status : Statuses \cup {"none", "late"},
                                             report : BOOLEAN]]
       /\ dir[s] \in [there : BOOLEAN, age : 0..Lifetime,
                      files : SUBSET ({"upload", "report", "zip"} \X Documents)]
       /\ s \in Open => dir[s].there
       /\ dir[s].files # {} => s \in Open
  /\ \A u \in Uploads :
       /\ upload[u].pc \in {"idle", "loop", "parsing", "applying", "done", "raised"}
       /\ upload[u].session \in Sessions \cup {None}
       /\ upload[u].todo \in Seq(Documents)
       /\ upload[u].pc \in {"parsing", "applying"} => upload[u].todo # <<>>
  /\ saved \in 0..MaxDocuments /\ sinceSweep \in 0..Interval
  /\ starts \in 1..MaxStarts /\ up \in BOOLEAN
  /\ page \in [session : Sessions \cup {None}, transferring : BOOLEAN,
               timer : 0..Beat]
  /\ wire \in [beat : Sessions \cup {None}, age : 0..Delay,
               close : Sessions \cup {None}]
  /\ missed \in BOOLEAN

(* A session whose page is open and whose heartbeats all arrive, however   *)
(* late within Delay, is not closed before its lifetime is over.  The      *)
(* sweep of a request comes before its touch: a heartbeat that is too late *)
(* closes the session it was to keep.                                      *)
KeptAlive ==
  LET s == page.session IN
  s # None /\ ~missed => session[s].status # "closed"

(* The request ended with an error before it came to all its documents: a  *)
(* file was refused, or the document whose turn it was had been removed.   *)
StoppedShort(u, s) ==
  /\ upload[u].pc = "raised"
  /\ upload[u].refused \/ session[s].docs[Head(upload[u].todo)].status = "cancelled"

(* A document waits in an open session only while an upload works towards  *)
(* it, or because that upload stopped short of it; nothing else, neither a *)
(* failure of the engine nor a sweep or a removal at another moment, keeps *)
(* it waiting.  One that is stopped short of waits for ever, although      *)
(* docs/guides/pdf-real-validation-lab.md says that each document is       *)
(* independent (61) and that a failure in one does not interrupt the       *)
(* others (199).                                                           *)
UploadsAttended ==
  \A s \in Open, d \in Documents :
    session[s].docs[d].status \in Unfinished =>
      \E u \in Uploads : /\ d \in ToSet(upload[u].todo)
                         /\ Active(u) \/ StoppedShort(u, s)

(* In an open session the report of a completed document is there, and of  *)
(* a document that was removed only an export remains, unless it was being *)
(* processed when it was removed: then its report comes late and stays.    *)
ReportsMatchDocuments ==
  \A s \in Open, d \in Documents :
    LET left == {f \in dir[s].files : f[2] = d}
        status == session[s].docs[d].status IN
    /\ status = "completed" => <<"report", d>> \in left
    /\ status = "cancelled" /\ ~Processing(d) => left \subseteq {<<"zip", d>>}

(* The directory of a session that was closed is there only because an     *)
(* upload was under way then: it makes the directory again, or its threads *)
(* keep it from being removed.                                             *)
NothingLeftBehind ==
  \A s \in Dirs :
    session[s].status \in {"closed", "expired", "stopped"} =>
      \E u \in Uploads : /\ upload[u].session = s
                         /\ upload[u].pc \notin {"idle", "done"}

(* As long as heartbeats keep arriving, of whatever page and whether its   *)
(* own session is still there or not, every directory is removed in the    *)
(* end: of sessions abandoned, expired or lost with their process, and     *)
(* what an upload made again after its session was closed.                 *)
(* Without requests nothing is removed: the cleaner runs in no other way,  *)
(* although docs/guides/pdf-real-validation-lab.md:71 only says that it    *)
(* removes sessions without heartbeats.                                    *)
RemovedWhileServed ==
  []<><<ReceiveBeat>>_vars => \A s \in Sessions : dir[s].there ~> ~dir[s].there
=============================================================================
