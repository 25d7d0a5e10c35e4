------------------------ MODULE TemporaryLabProofs ------------------------
(***************************************************************************)
(* The diagnostic lab, for any number of sessions, documents and uploads   *)
(* and any times: what a session's documents and files say of each other,  *)
(* what the heartbeats of a page promise, and what is left on the disk.    *)
(*                                                                         *)
(* LabInv is the inductive invariant.  KnownInv: nothing refers to a       *)
(* session before it is made.  KeptInv bounds the idle time of the page's  *)
(* session by what the page's timer and the heartbeat under way have       *)
(* counted.  TodoInv: a saved document waits in one upload, once.  TidyInv *)
(* has three parts for each open session: DocsOf ties its documents to the *)
(* uploads that process them, AttendedOf and ReportsOf say what these do   *)
(* for them and for the files.  LeftInv is NothingLeftBehind.              *)
(***************************************************************************)
EXTENDS TemporaryLab, SequenceTheorems, TLAPS

SessionType ==
  [status : {"none", "open", "closed", "expired", "stopped", "lost"},
   idle : 0..Grace, age : 0..Lifetime,
   docs : [Documents -> [status : Statuses \cup {"none", "late"}, report : BOOLEAN]]]

Files == SUBSET ({"upload", "report", "zip"} \X Documents)

DirType == [there : BOOLEAN, age : 0..Lifetime, files : Files]

UploadType ==
  [pc : {"idle", "loop", "parsing", "applying", "done", "raised"},
   session : Sessions \cup {None}, todo : Seq(Documents),
   outcome : {"none", "completed", "failed", "raised"}, refused : BOOLEAN]

DirsMatch ==
  /\ \A s \in Open : dir[s].there
  /\ \A s \in Sessions : dir[s].files # {} => s \in Open

Types ==
  /\ session \in [Sessions -> SessionType]
  /\ dir \in [Sessions -> DirType]
  /\ DirsMatch
  /\ upload \in [Uploads -> UploadType]
  /\ \A u \in Uploads : upload[u].pc \in {"parsing", "applying"} => upload[u].todo # <<>>
  /\ saved \in 0..MaxDocuments /\ sinceSweep \in 0..Interval
  /\ starts \in 1..MaxStarts /\ up \in BOOLEAN
  /\ page \in [session : Sessions \cup {None}, transferring : BOOLEAN, timer : 0..Beat]
  /\ wire \in [beat : Sessions \cup {None}, age : 0..Delay, close : Sessions \cup {None}]
  /\ missed \in BOOLEAN

KnownInv ==
  /\ \A s \in Sessions : session[s].status = "none" =>
       /\ session[s] = NoSession
       /\ page.session # s /\ wire.beat # s /\ wire.close # s
       /\ \A u \in Uploads : upload[u].session # s
  /\ up \/ starts < MaxStarts
  /\ up \/ \A s \in Sessions : session[s].status # "open"
  /\ \A u \in Uploads : /\ upload[u].pc = "idle" => upload[u] = NoUpload
                        /\ Active(u) => upload[u].session # None

(* The time since the page's session was last used is at most what the     *)
(* page's timer shows or, with a heartbeat under way, a whole interval and *)
(* the time it has travelled.                                              *)
KeptInv ==
  page.session # None =>
    /\ wire.close # page.session
    /\ missed \/ session[page.session].status # "closed"
    /\ missed \/ page.session \notin Open
       \/ session[page.session].idle <=
            IF wire.beat = page.session THEN Beat + wire.age ELSE page.timer

TodoInv ==
  /\ \A u \in Uploads : \A d \in ToSet(upload[u].todo) : d <= saved
  /\ \A u \in Uploads : \A i, j \in DOMAIN upload[u].todo :
       upload[u].todo[i] = upload[u].todo[j] => i = j
  /\ \A u, v \in Uploads : \A d \in ToSet(upload[u].todo) :
       d \in ToSet(upload[v].todo) => u = v

DocsOf(s) ==
  \A d \in Documents :
    /\ session[s].docs[d].status # "none" => d <= saved
    /\ session[s].docs[d].status = "none" => ~session[s].docs[d].report
    /\ \A u \in Uploads : d \in ToSet(upload[u].todo) =>
         /\ session[s].docs[d].status # "none" => upload[u].session = s
         /\ Active(u) /\ upload[u].session = s =>
              /\ session[s].docs[d].status \in Unfinished \cup {"cancelled"}
              /\ ~session[s].docs[d].report

Works(u, s) ==
  /\ upload[u].session = s
  /\ Active(u) \/ StoppedShort(u, s)

AttendedOf(s) ==
  \A d \in Documents : session[s].docs[d].status \in Unfinished =>
    \E u \in Uploads : Works(u, s) /\ d \in ToSet(upload[u].todo)

Reporting(u, s, d) ==
  /\ upload[u].session = s /\ upload[u].pc = "applying" /\ Head(upload[u].todo) = d
  /\ upload[u].outcome \in {"completed", "failed"}

ReportsOf(s) ==
  \A d \in Documents :
    /\ session[s].docs[d].status = "completed" => <<"report", d>> \in dir[s].files
    /\ <<"report", d>> \in dir[s].files =>
         session[s].docs[d].report \/ (\E u \in Uploads : Reporting(u, s, d))
    /\ session[s].docs[d].status = "cancelled" /\ ~Processing(d) =>
         \A f \in dir[s].files : f[2] = d => f = <<"zip", d>>
    /\ \A u \in Uploads : Reporting(u, s, d) => <<"report", d>> \in dir[s].files

(* What an open session, its documents, files and uploads say of another.  *)
Tidy(s) == DocsOf(s) /\ AttendedOf(s) /\ ReportsOf(s)

TidyInv == \A s \in Open : Tidy(s)

LeftOf(s) ==
  dir[s].there /\ session[s].status \in {"closed", "expired", "stopped"} =>
    \E u \in Uploads : /\ upload[u].session = s
                       /\ upload[u].pc \notin {"idle", "done"}

LeftInv == \A s \in Sessions : LeftOf(s)

LabInv == Types /\ KnownInv /\ KeptInv /\ TodoInv /\ TidyInv /\ LeftInv

-----------------------------------------------------------------------------
(* What the helpers return                                                 *)

(* The limits are natural numbers, and no session is None.                 *)
LEMMA Limits ==
  /\ MaxSessions \in Nat /\ MaxDocuments \in Nat /\ MaxUploads \in Nat
  /\ MaxStarts \in Nat /\ 0 < MaxStarts /\ Beat \in Nat /\ Delay \in Nat /\ Grace \in Nat
  /\ Lifetime \in Nat /\ Interval \in Nat
  /\ 0 < Beat /\ 0 < Interval /\ Beat + Delay < Grace /\ 0 < Lifetime
  /\ None \notin Sessions
  /\ \A s \in Sessions : s \in Nat
BY LabAssumption DEF LabAssumption, Sessions

(* A session that is made begins with nothing.                             *)
LEMMA EmptyRecords ==
  /\ NoSession \in SessionType /\ NoDir \in DirType /\ NoUpload \in UploadType
  /\ \A d \in Documents : NoSession.docs[d] = NoDocument
BY Limits DEF NoSession, NoDir, NoUpload, NoDocument, SessionType, DirType, Files,
              UploadType

(* A directory that is removed is empty, and there only for who writes.    *)
LEMMA RemovedShape ==
  ASSUME NEW dirs \in [Sessions -> DirType], NEW ss, NEW left \in Removed(dirs, ss)
  PROVE  /\ left \in [Sessions -> DirType]
         /\ \A s \in Sessions :
              /\ s \notin ss => left[s] = dirs[s]
              /\ s \in ss => left[s].files = {} /\ (left[s].there => Busy(s))
<1>1. PICK kept \in SUBSET {s \in ss : Busy(s)} :
        left = [s \in Sessions |-> IF s \in ss THEN [NoDir EXCEPT !.there = s \in kept]
                                   ELSE dirs[s]]
  BY DEF Removed
<1>2. ASSUME NEW x \in BOOLEAN
      PROVE  /\ [NoDir EXCEPT !.there = x] \in DirType
             /\ [NoDir EXCEPT !.there = x].files = {}
             /\ [NoDir EXCEPT !.there = x].there = x
  BY Limits DEF NoDir, DirType, Files
<1>3. ASSUME NEW s \in Sessions
      PROVE  /\ left[s] \in DirType
             /\ s \notin ss => left[s] = dirs[s]
             /\ s \in ss => left[s].files = {} /\ (left[s].there => Busy(s))
  <2>1. CASE s \in ss
    <3>1. left[s] = [NoDir EXCEPT !.there = s \in kept]
      BY <1>1, <2>1
    <3>2. (s \in kept) \in BOOLEAN
      OBVIOUS
    <3>3. left[s] \in DirType /\ left[s].files = {} /\ left[s].there = (s \in kept)
      BY <1>2, <3>1, <3>2
    <3>4. s \in kept => Busy(s)
      OBVIOUS
    <3> QED
      BY <2>1, <3>3, <3>4
  <2>2. CASE s \notin ss
    BY <1>1, <2>2
  <2> QED
    BY <2>1, <2>2
<1>4. left = [s \in Sessions |-> left[s]]
  BY <1>1
<1> QED
  BY <1>3, <1>4

(* Every session that is closed becomes closed or, if that is why,         *)
(* expired, and the others stay.                                           *)
LEMMA ClosedShape ==
  ASSUME Types, NEW ss
  PROVE  /\ Closed(ss) \in [Sessions -> SessionType]
         /\ \A s \in Sessions :
              /\ s \notin ss => Closed(ss)[s] = session[s]
              /\ s \in ss => /\ Closed(ss)[s].status \in {"closed", "expired"}
                             /\ Closed(ss)[s].status = "closed" =>
                                  session[s].age # Lifetime
<1>1. ASSUME NEW x \in {"closed", "expired"}
      PROVE  /\ [NoSession EXCEPT !.status = x] \in SessionType
             /\ [NoSession EXCEPT !.status = x].status = x
  BY EmptyRecords DEF NoSession, SessionType
<1>2. ASSUME NEW s \in Sessions
      PROVE  session[s] \in SessionType
  BY DEF Types
<1> QED
  BY <1>1, <1>2 DEF Closed

(* A sequence with an element has a first one.                              *)
LEMMA HeadIsThere ==
  ASSUME NEW S, NEW q \in Seq(S), NEW e \in ToSet(q)
  PROVE  Head(q) \in ToSet(q) /\ Head(q) \in S
<1>1. q # <<>> /\ Head(q) = q[1] /\ 1 \in DOMAIN q
  BY DEF ToSet
<1> QED
  BY <1>1 DEF ToSet

(* The first document of an upload and the rest.                           *)
LEMMA TodoParts ==
  ASSUME NEW q \in Seq(Documents), q # <<>>
  PROVE  /\ Head(q) \in Documents /\ Head(q) \in ToSet(q)
         /\ Tail(q) \in Seq(Documents)
         /\ \A d : d \in ToSet(q) <=> d = Head(q) \/ d \in ToSet(Tail(q))
         /\ (\A i, j \in DOMAIN q : q[i] = q[j] => i = j) =>
              /\ Head(q) \notin ToSet(Tail(q))
              /\ \A i, j \in DOMAIN Tail(q) : Tail(q)[i] = Tail(q)[j] => i = j
<1>1. /\ Head(q) \in Documents /\ Tail(q) \in Seq(Documents)
      /\ Len(Tail(q)) = Len(q) - 1 /\ Len(q) \in Nat \ {0}
      /\ \A i \in 1 .. Len(Tail(q)) : Tail(q)[i] = q[i + 1]
      /\ DOMAIN q = 1 .. Len(q) /\ DOMAIN Tail(q) = 1 .. Len(Tail(q))
      /\ Head(q) = q[1]
  BY HeadTailProperties, EmptySeq, LenProperties
<1>2. Head(q) \in ToSet(q)
  BY <1>1 DEF ToSet
<1>3. ASSUME NEW d
      PROVE  d \in ToSet(q) <=> d = Head(q) \/ d \in ToSet(Tail(q))
  <2>1. ASSUME d \in ToSet(q)
        PROVE  d = Head(q) \/ d \in ToSet(Tail(q))
    <3>1. PICK i \in 1 .. Len(q) : d = q[i]
      BY <1>1, <2>1 DEF ToSet
    <3>2. CASE i = 1
      BY <1>1, <3>1, <3>2
    <3>3. CASE i # 1
      <4>1. i - 1 \in 1 .. Len(Tail(q)) /\ (i - 1) + 1 = i
        BY <1>1, <3>3
      <4>2. d = Tail(q)[i - 1]
        BY <1>1, <3>1, <4>1
      <4> QED
        BY <1>1, <4>1, <4>2 DEF ToSet
    <3> QED
      BY <3>2, <3>3
  <2>2. ASSUME d \in ToSet(Tail(q))
        PROVE  d \in ToSet(q)
    <3>1. PICK i \in 1 .. Len(Tail(q)) : d = Tail(q)[i]
      BY <1>1, <2>2 DEF ToSet
    <3>2. i + 1 \in 1 .. Len(q) /\ d = q[i + 1]
      BY <1>1, <3>1
    <3> QED
      BY <1>1, <3>2 DEF ToSet
  <2> QED
    BY <1>2, <2>1, <2>2
<1>4. ASSUME \A i, j \in DOMAIN q : q[i] = q[j] => i = j
      PROVE  /\ Head(q) \notin ToSet(Tail(q))
             /\ \A i, j \in DOMAIN Tail(q) : Tail(q)[i] = Tail(q)[j] => i = j
  <2>1. ASSUME NEW i \in DOMAIN Tail(q)
        PROVE  i \in Int /\ i > 0 /\ i + 1 \in DOMAIN q /\ Tail(q)[i] = q[i + 1]
    BY <1>1
  <2>2. 1 \in DOMAIN q
    BY <1>1
  <2>3. Head(q) \notin ToSet(Tail(q))
    BY <1>1, <1>4, <2>1, <2>2 DEF ToSet
  <2>4. ASSUME NEW i \in DOMAIN Tail(q), NEW j \in DOMAIN Tail(q), Tail(q)[i] = Tail(q)[j]
        PROVE  i = j
    <3>1. i + 1 = j + 1
      BY <1>4, <2>1, <2>4
    <3> QED
      BY <2>1, <3>1
  <2> QED
    BY <2>3, <2>4
<1> QED
  BY <1>1, <1>2, <1>3, <1>4

(* The documents that are saved by a request are new.                      *)
LEMMA BatchElements ==
  ASSUME Types, NEW n \in 0 .. MaxDocuments - saved
  PROVE  /\ Batch(n) \in Seq(Documents)
         /\ \A d : d \in ToSet(Batch(n)) <=> d \in saved + 1 .. saved + n
         /\ ToSet(Batch(n)) \subseteq Documents
         /\ \A i, j \in DOMAIN Batch(n) : Batch(n)[i] = Batch(n)[j] => i = j
<1>1. /\ saved \in Nat /\ n \in Nat /\ saved + n <= MaxDocuments
  BY Limits DEF Types
<1>2. /\ DOMAIN Batch(n) = 1 .. n
      /\ \A k \in 1 .. n : Batch(n)[k] = saved + k /\ saved + k \in Documents
  BY <1>1, Limits DEF Batch, Documents
<1>3. Batch(n) \in [1 .. n -> Documents]
  BY <1>1, <1>2 DEF Batch
<1>4. Batch(n) \in Seq(Documents)
  BY <1>1, <1>3, SeqDef
<1>5. ASSUME NEW d \in saved + 1 .. saved + n
      PROVE  d \in ToSet(Batch(n))
  <2>1. d - saved \in 1 .. n /\ saved + (d - saved) = d
    BY <1>1
  <2> QED
    BY <1>2, <2>1 DEF ToSet
<1>6. ASSUME NEW d \in ToSet(Batch(n))
      PROVE  d \in saved + 1 .. saved + n /\ d \in Documents
  BY <1>1, <1>2 DEF ToSet
<1>7. ASSUME NEW i \in DOMAIN Batch(n), NEW j \in DOMAIN Batch(n), Batch(n)[i] = Batch(n)[j]
      PROVE  i = j
  BY <1>1, <1>2, <1>7
<1> QED
  BY <1>4, <1>5, <1>6, <1>7
-----------------------------------------------------------------------------
(* What a step does to one session                                         *)

(* A session nobody asks for stays, is closed or lost with its process, or *)
(* loses what was left of its directory: r and e are its record and its    *)
(* directory afterwards.                                                   *)
QuietTo(t, r, e) ==
  \/ r = session[t] /\ e = dir[t]
  \/ /\ t \notin Open /\ r = session[t]
     /\ e.files = {} /\ (e.there => Busy(t))
  \/ /\ t \in Open /\ r.status \in {"closed", "expired", "stopped"}
     /\ e.files = {} /\ (e.there => Busy(t))
  \/ t \in Open /\ r.status = "lost" /\ e.files = {}

Quiet(t) == QuietTo(t, session'[t], dir'[t])

(* It is closed, other than for its age, only when nobody used it.         *)
Patient(t, r) ==
  t \in Open /\ r.status = "closed" => session[t].idle = Grace

(* A session that is made or asked for is open and was just used.          *)
Served(t) ==
  session'[t].status = "open" /\ session'[t].idle = 0 /\ dir'[t].there

(* An upload of the session, or of one that was closed, writes a report.   *)
Written(t) ==
  /\ session'[t] = session[t] /\ dir'[t].there
  /\ dir'[t].files # {} => t \in Open
  /\ \E u \in Uploads : upload'[u].session = t /\ upload'[u].pc \notin {"idle", "done"}

(* Directories go on matching the sessions.                                *)
LEMMA DirsKept ==
  ASSUME Types, \A t \in Sessions : Quiet(t) \/ Served(t) \/ Written(t)
  PROVE  DirsMatch'
<1>1. ASSUME NEW t \in Sessions, t \in Open'
      PROVE  dir'[t].there
  BY <1>1 DEF Types, DirsMatch, Quiet, QuietTo, Served, Written, Open
<1>2. ASSUME NEW t \in Sessions, dir'[t].files # {}
      PROVE  t \in Open'
  BY <1>2 DEF Types, DirsMatch, Quiet, QuietTo, Served, Written, Open
<1> QED
  BY <1>1, <1>2 DEF DirsMatch, Open

(* A sweep closes what is stale and removes what nobody owns.              *)
LEMMA SweepEffect ==
  ASSUME Types, NEW ss \in SUBSET Open, NEW orphans, orphans \cap Open = {},
         NEW left \in Removed(dir, ss \cup orphans), NEW t \in Sessions
  PROVE  /\ QuietTo(t, Closed(ss)[t], left[t])
         /\ t \notin ss \/ t \in Stale => Patient(t, Closed(ss)[t])
         /\ t \in Open \ ss => Closed(ss)[t] = session[t] /\ left[t] = dir[t]
         /\ t \in ss => Closed(ss)[t].status # "open"
<1>1. /\ \A s \in Sessions :
           /\ s \notin ss => Closed(ss)[s] = session[s]
           /\ s \in ss => /\ Closed(ss)[s].status \in {"closed", "expired"}
                          /\ Closed(ss)[s].status = "closed" => session[s].age # Lifetime
  BY ClosedShape
<1>2. /\ t \notin ss \cup orphans => left[t] = dir[t]
      /\ t \in ss \cup orphans => left[t].files = {} /\ (left[t].there => Busy(t))
  <2>1. dir \in [Sessions -> DirType]
    BY DEF Types
  <2> QED
    BY <2>1, RemovedShape
<1>3. CASE t \in ss
  <2>1. t \in Open
        /\ (t \in Stale => session[t].age = Lifetime \/ session[t].idle = Grace)
    BY <1>3 DEF Stale
  <2> QED
    BY <1>1, <1>2, <1>3, <2>1 DEF QuietTo, Patient
<1>4. CASE t \notin ss /\ t \in orphans
  BY <1>1, <1>2, <1>4 DEF QuietTo, Patient, Open
<1>5. CASE t \notin ss /\ t \notin orphans
  BY <1>1, <1>2, <1>5 DEF QuietTo, Patient, Open
<1> QED
  BY <1>3, <1>4, <1>5

(* What a sweep leaves are still sessions and directories.                 *)
LEMMA SweptTypes ==
  ASSUME Types, NEW ss, NEW dd, NEW left \in Removed(dir, dd)
  PROVE  /\ Closed(ss) \in [Sessions -> SessionType]
         /\ left \in [Sessions -> DirType]
<1>1. dir \in [Sessions -> DirType]
  BY DEF Types
<1> QED
  BY <1>1, RemovedShape, ClosedShape

(* What a request that is due sweeps.                                      *)
LEMMA SweptStale ==
  /\ Swept \in SUBSET Stale /\ Stale \subseteq Open
  /\ Doomed = Swept \cup (Doomed \ Swept) /\ (Doomed \ Swept) \cap Open = {}
BY DEF Swept, Stale, Doomed, Orphans

(* What the sweep of a request does to a session.                          *)
LEMMA SweptEffect ==
  ASSUME Types, NEW left \in Removed(dir, Doomed), NEW t \in Sessions
  PROVE  /\ QuietTo(t, Closed(Swept)[t], left[t])
         /\ Patient(t, Closed(Swept)[t])
         /\ t \in Open \ Swept => Closed(Swept)[t] = session[t] /\ left[t] = dir[t]
         /\ t \in Swept => Closed(Swept)[t].status # "open"
<1> DEFINE orphans == Doomed \ Swept
<1>1. Swept \in SUBSET Open
  BY SweptStale
<1>2. t \notin Swept \/ t \in Stale
  BY SweptStale
<1>3. Doomed = Swept \cup orphans /\ orphans \cap Open = {}
  BY SweptStale
<1> HIDE DEF orphans
<1>4. left \in Removed(dir, Swept \cup orphans)
  BY <1>3
<1>5. /\ QuietTo(t, Closed(Swept)[t], left[t])
      /\ t \notin Swept \/ t \in Stale => Patient(t, Closed(Swept)[t])
      /\ t \in Open \ Swept => Closed(Swept)[t] = session[t] /\ left[t] = dir[t]
      /\ t \in Swept => Closed(Swept)[t].status # "open"
  BY <1>1, <1>3, <1>4, SweepEffect
<1> QED
  BY <1>2, <1>5

(* The parts of one session and of its directory.                          *)
LEMMA DocsType ==
  ASSUME Types, NEW s \in Sessions
  PROVE  /\ session[s] \in SessionType /\ dir[s] \in DirType
         /\ session[s].docs \in [Documents -> [status : Statuses \cup {"none", "late"},
                                              report : BOOLEAN]]
         /\ dir[s].files \in Files
BY DEF Types, SessionType, DirType

(* A request for session s uses it, if it is still there after the sweep,  *)
(* and no other session.                                                   *)
LEMMA GetSessionEffect ==
  ASSUME Types, NEW s \in Sessions, NEW files \in Files,
         NEW docs \in [Documents -> [status : Statuses \cup {"none", "late"},
                                     report : BOOLEAN]],
         GetSession(s, docs, files)
  PROVE  /\ session' \in [Sessions -> SessionType] /\ dir' \in [Sessions -> DirType]
         /\ DirsMatch' /\ sinceSweep' \in 0..Interval
         /\ \A t \in Sessions : Patient(t, session'[t])
         /\ \A t \in Sessions : (t # s \/ ~Found(s)) => Quiet(t)
         /\ Found(s) => /\ Served(s) /\ session'[s].docs = docs
                        /\ dir'[s].files = files
         /\ ~Found(s) => session'[s].status # "open"
<1>1. PICK left \in Removed(dir, Doomed) :
        dir' = IF Found(s) THEN [left EXCEPT ![s].files = files] ELSE left
  BY DEF GetSession
<1>4. ASSUME NEW t \in Sessions
      PROVE  /\ QuietTo(t, Closed(Swept)[t], left[t])
             /\ Patient(t, Closed(Swept)[t])
             /\ t \in Open \ Swept => Closed(Swept)[t] = session[t] /\ left[t] = dir[t]
             /\ t \in Swept => Closed(Swept)[t].status # "open"
  BY <1>1, SweptEffect
<1>5. /\ Closed(Swept) \in [Sessions -> SessionType]
      /\ left \in [Sessions -> DirType]
  BY <1>1, SweptTypes
<1>6. sinceSweep' \in 0..Interval
  BY Limits DEF GetSession, Types
<1>7. CASE ~Found(s)
  <2>1. session' = Closed(Swept) /\ dir' = left
    BY <1>1, <1>7 DEF GetSession
  <2>2. ASSUME NEW t \in Sessions
        PROVE  Quiet(t) /\ Patient(t, session'[t])
    BY <1>4, <2>1 DEF Quiet
  <2>3. session'[s].status # "open"
    BY <1>4, <1>7, <2>1 DEF Found, QuietTo, Open
  <2>4. DirsMatch'
    BY <2>2, DirsKept
  <2> QED
    BY <1>5, <1>6, <1>7, <2>1, <2>2, <2>3, <2>4
<1>8. CASE Found(s)
  <2> DEFINE rec == Touched([session[s] EXCEPT !.docs = docs])
  <2>1. s \in Open /\ s \notin Swept
    BY <1>8 DEF Found
  <2>2. Closed(Swept)[s] = session[s] /\ left[s] = dir[s]
    BY <1>4, <2>1
  <2>3. session' = [Closed(Swept) EXCEPT ![s] = rec]
    BY <1>8, <2>2 DEF GetSession
  <2>4. dir' = [left EXCEPT ![s].files = files]
    BY <1>1, <1>8
  <2>5. session[s] \in SessionType /\ dir[s] \in DirType
    BY DocsType
  <2>6. /\ rec \in SessionType /\ rec.status = "open" /\ rec.idle = 0 /\ rec.docs = docs
    <3> DEFINE new == [session[s] EXCEPT !.docs = docs]
    <3>1. new \in SessionType /\ new.status = "open" /\ new.docs = docs
      BY <2>1, <2>5 DEF SessionType, Open
    <3> HIDE DEF new
    <3>2. /\ [new EXCEPT !.idle = 0] \in SessionType
          /\ [new EXCEPT !.idle = 0].status = new.status
          /\ [new EXCEPT !.idle = 0].docs = new.docs
          /\ [new EXCEPT !.idle = 0].idle = 0
      BY <3>1, Limits DEF SessionType
    <3>3. rec = [new EXCEPT !.idle = 0]
      BY DEF new, Touched
    <3> QED
      BY <3>1, <3>2, <3>3
  <2>7. /\ session' \in [Sessions -> SessionType] /\ session'[s] = rec
        /\ \A t \in Sessions \ {s} : session'[t] = Closed(Swept)[t]
    BY <1>5, <2>3, <2>6
  <2>8. /\ dir' \in [Sessions -> DirType] /\ dir'[s].files = files
        /\ dir'[s].there = dir[s].there
        /\ \A t \in Sessions \ {s} : dir'[t] = left[t]
    BY <1>5, <2>2, <2>4 DEF DirType
  <2>9. dir[s].there
    BY <2>1 DEF Types, DirsMatch
  <2>10. Served(s)
    BY <2>1, <2>6, <2>7, <2>8, <2>9 DEF Served
  <2>11. ASSUME NEW t \in Sessions, t # s
         PROVE  Quiet(t) /\ Patient(t, session'[t])
    BY <1>4, <2>7, <2>8, <2>11 DEF Quiet
  <2>12. Patient(s, session'[s])
    BY <2>6, <2>7 DEF Patient
  <2>13. DirsMatch'
    BY <2>10, <2>11, DirsKept
  <2> QED
    BY <1>6, <1>8, <2>6, <2>7, <2>8, <2>10, <2>11, <2>12, <2>13
<1> QED
  BY <1>7, <1>8
-----------------------------------------------------------------------------
(* What is preserved, whatever the step                                    *)

(* References go on being to sessions that were made.                      *)
LEMMA KnownStep ==
  ASSUME Types, KnownInv, \A t \in Sessions : Quiet(t) \/ Served(t) \/ Written(t),
         up' \/ starts' < MaxStarts,
         up' \/ \A t \in Sessions : session'[t].status # "open",
         \/ page'.session \in {page.session, None}
         \/ session'[page'.session].status # "none",
         wire'.beat \in {wire.beat, page.session, None},
         wire'.close \in {wire.close, page.session, None},
         \A u \in Uploads :
           \/ upload'[u] = upload[u]
           \/ /\ upload'[u].pc # "idle"
              /\ upload'[u].pc \in {"loop", "parsing", "applying"} =>
                   upload'[u].session # None
              /\ \/ upload'[u].session \in {upload[u].session, None}
                 \/ session[upload'[u].session].status # "none"
  PROVE  KnownInv'
<1>1. ASSUME NEW s \in Sessions, session'[s].status = "none"
      PROVE  /\ session'[s] = NoSession
             /\ page'.session # s /\ wire'.beat # s /\ wire'.close # s
             /\ \A u \in Uploads : upload'[u].session # s
  <2>1. session'[s] = session[s] /\ session[s].status = "none"
    BY <1>1 DEF Quiet, QuietTo, Served, Written
  <2>2. s # None
    BY Limits
  <2> QED
    BY <2>1, <2>2 DEF KnownInv
<1>2. ASSUME NEW u \in Uploads
      PROVE  /\ upload'[u].pc = "idle" => upload'[u] = NoUpload
             /\ upload'[u].pc \in {"loop", "parsing", "applying"} =>
                  upload'[u].session # None
  BY DEF KnownInv, Active
<1> QED
  BY <1>1, <1>2 DEF KnownInv, Active, NoSession, NoUpload

(* The page's session is kept by a step that is patient with it and lets   *)
(* no heartbeat go unserved.                                               *)
LEMMA KeptStep ==
  ASSUME Types, KeptInv, \A t \in Sessions : Quiet(t) \/ Served(t) \/ Written(t),
         page.session # None => Patient(page.session, session'[page.session]),
         page'.session = page.session, page'.timer = page.timer, missed' = missed,
         wire'.close \in {wire.close, None},
         \/ wire'.beat = wire.beat /\ wire'.age = wire.age
         \/ /\ wire'.beat = None
            /\ page.session = wire.beat => Served(page.session)
                                           \/ session'[page.session].status # "open"
  PROVE  KeptInv'
<1> SUFFICES ASSUME page.session # None
             PROVE  /\ wire'.close # page.session
                    /\ missed \/ session'[page.session].status # "closed"
                    /\ missed \/ session'[page.session].status # "open"
                       \/ session'[page.session].idle <=
                            IF wire'.beat = page.session THEN Beat + wire'.age
                            ELSE page.timer
  BY DEF KeptInv, Open
<1> DEFINE p == page.session
<1>1. p \in Sessions /\ page.timer \in Nat /\ wire.age \in 0 .. Delay /\ page.timer <= Beat
  BY Limits DEF Types
<1>2. wire'.close # p
  BY DEF KeptInv
<1>3. CASE missed
  BY <1>2, <1>3
<1>4. CASE ~missed
  <2>1. /\ session[p].status # "closed"
        /\ p \in Open => session[p].idle <= IF wire.beat = p THEN Beat + wire.age
                                            ELSE page.timer
    BY <1>4 DEF KeptInv
  <2>2. session[p].idle \in Nat
    BY <1>1, Limits, DocsType DEF SessionType, Types
  <2>3. p \in Open => session[p].idle # Grace
    BY <1>1, <2>1, <2>2, Limits
  <2>4. Quiet(p) \/ Served(p) \/ Written(p)
    BY <1>1
  <2>5. session'[p].status # "closed"
    BY <1>1, <2>1, <2>3, <2>4 DEF Patient, Quiet, QuietTo, Served, Written
  <2>6. ASSUME session'[p].status = "open"
        PROVE  session'[p].idle <= IF wire'.beat = p THEN Beat + wire'.age ELSE page.timer
    <3>1. CASE Served(p) /\ wire'.beat = p
      <4>1. wire'.age = wire.age
        BY <3>1
      <4> QED
        BY <1>1, <3>1, <4>1, Limits DEF Served
    <3>2. CASE Served(p) /\ wire'.beat # p
      BY <1>1, <3>2, Limits DEF Served
    <3>3. CASE ~Served(p)
      <4>1. session'[p] = session[p] /\ p \in Open
        BY <1>1, <2>4, <2>6, <3>3 DEF Quiet, QuietTo, Written, Open
      <4>2. \/ wire'.beat = wire.beat /\ wire'.age = wire.age
            \/ p # wire.beat /\ wire'.beat # p
        BY <1>1, <2>6, <3>3
      <4> QED
        BY <2>1, <4>1, <4>2
    <3> QED
      BY <3>1, <3>2, <3>3
  <2> QED
    BY <1>2, <2>5, <2>6
<1> QED
  BY <1>3, <1>4

(* What is left of a session's directory was left for an upload.           *)
LEMMA LeftStep ==
  ASSUME Types, LeftInv, \A t \in Sessions : Quiet(t) \/ Served(t) \/ Written(t),
         \A u \in Uploads : upload[u].pc \notin {"idle", "done"} =>
           /\ upload'[u].session = upload[u].session
           /\ \/ upload'[u].pc \notin {"idle", "done"}
              \/ session'[upload[u].session].status = "open"
  PROVE  LeftInv'
<1> SUFFICES ASSUME NEW t \in Sessions, dir'[t].there,
                    session'[t].status \in {"closed", "expired", "stopped"}
             PROVE  \E u \in Uploads : /\ upload'[u].session = t
                                       /\ upload'[u].pc \notin {"idle", "done"}
  BY DEF LeftInv, LeftOf
<1>1. CASE Written(t)
  BY <1>1 DEF Written
<1>2. CASE ~Written(t)
  <2>1. CASE session'[t] = session[t] /\ dir'[t] = dir[t]
    <3>1. \E u \in Uploads : upload[u].session = t /\ upload[u].pc \notin {"idle", "done"}
      BY <2>1 DEF LeftInv, LeftOf
    <3> QED
      BY <3>1
  <2>2. CASE Busy(t)
    <3>1. \E u \in Uploads : upload[u].session = t /\ upload[u].pc \notin {"idle", "done"}
      BY <2>2 DEF Busy
    <3> QED
      BY <3>1
  <2> QED
    BY <1>2, <2>1, <2>2 DEF Quiet, QuietTo, Served
<1> QED
  BY <1>1, <1>2

SameView(t) ==
  /\ t \in Open /\ session'[t].docs = session[t].docs /\ dir'[t].files = dir[t].files

(* A session whose documents and files stay is as tidy as before, when     *)
(* only uploads to other sessions, or of new documents, go on.             *)
LEMMA TidyElsewhere ==
  ASSUME Types, NEW t \in Sessions, Tidy(t), SameView(t), saved' \in Nat, saved <= saved',
         \A u \in Uploads :
           \/ upload'[u] = upload[u]
           \/ /\ upload[u].session # t /\ upload'[u].session # t
              /\ \A d \in ToSet(upload'[u].todo) :
                   d \in ToSet(upload[u].todo) \/ (d \in Nat /\ d > saved)
  PROVE  Tidy(t)'
<1>0. /\ session'[t].docs = session[t].docs /\ dir'[t].files = dir[t].files
      /\ saved \in Nat /\ \A d \in Documents : d \in Nat
  BY Limits DEF SameView, Types, Documents
<1>1. DocsOf(t)'
  <2>1. ASSUME NEW d \in Documents
        PROVE  /\ session[t].docs[d].status # "none" => d <= saved'
               /\ session[t].docs[d].status = "none" => ~session[t].docs[d].report
    BY <1>0 DEF Tidy, DocsOf
  <2>2. ASSUME NEW d \in Documents, NEW u \in Uploads, d \in ToSet(upload'[u].todo)
        PROVE  /\ session[t].docs[d].status # "none" => upload'[u].session = t
               /\ Active(u)' /\ upload'[u].session = t =>
                    /\ session[t].docs[d].status \in Unfinished \cup {"cancelled"}
                    /\ ~session[t].docs[d].report
    <3>1. CASE upload'[u] = upload[u]
      BY <2>2, <3>1 DEF Tidy, DocsOf, Active
    <3>2. CASE upload'[u] # upload[u]
      <4>1. upload[u].session # t /\ upload'[u].session # t
        BY <3>2
      <4>2. d \in ToSet(upload[u].todo) \/ ~(d <= saved)
        BY <1>0, <2>2, <3>2
      <4> QED
        BY <4>1, <4>2 DEF Tidy, DocsOf
    <3> QED
      BY <3>1, <3>2
  <2> QED
    BY <1>0, <2>1, <2>2 DEF DocsOf, Unfinished
<1>2. AttendedOf(t)'
  <2> SUFFICES ASSUME NEW d \in Documents, session[t].docs[d].status \in Unfinished
               PROVE  \E u \in Uploads : Works(u, t)' /\ d \in ToSet(upload'[u].todo)
    BY <1>0 DEF AttendedOf, Unfinished
  <2>1. PICK u \in Uploads : Works(u, t) /\ d \in ToSet(upload[u].todo)
    BY DEF Tidy, AttendedOf
  <2>2. upload'[u] = upload[u]
    BY <2>1 DEF Works, StoppedShort
  <2> QED
    BY <1>0, <2>1, <2>2 DEF Works, StoppedShort, Active
<1>3. ReportsOf(t)'
  <2>1. ASSUME NEW d \in Documents, NEW u \in Uploads
        PROVE  Reporting(u, t, d)' <=> Reporting(u, t, d)
    BY DEF Reporting
  <2>2. ASSUME NEW d \in Documents, session[t].docs[d].status = "cancelled", Processing(d)
        PROVE  Processing(d)'
    <3>1. PICK u \in Uploads : /\ upload[u].pc \in {"parsing", "applying"}
                               /\ Head(upload[u].todo) = d
      BY <2>2 DEF Processing
    <3>2. d \in ToSet(upload[u].todo)
      BY <3>1, TodoParts DEF Types, UploadType
    <3>3. upload[u].session = t
      BY <2>2, <3>2 DEF Tidy, DocsOf
    <3>4. upload'[u] = upload[u]
      BY <3>3
    <3> QED
      BY <3>1, <3>4 DEF Processing
  <2>3. ASSUME NEW d \in Documents
        PROVE  /\ session[t].docs[d].status = "completed" => <<"report", d>> \in dir[t].files
               /\ <<"report", d>> \in dir[t].files =>
                    session[t].docs[d].report \/ (\E u \in Uploads : Reporting(u, t, d)')
               /\ session[t].docs[d].status = "cancelled" /\ ~Processing(d)' =>
                    \A f \in dir[t].files : f[2] = d => f = <<"zip", d>>
               /\ \A u \in Uploads : Reporting(u, t, d)' => <<"report", d>> \in dir[t].files
    BY <2>1, <2>2 DEF Tidy, ReportsOf
  <2> QED
    BY <1>0, <2>3 DEF ReportsOf
<1> QED
  BY <1>1, <1>2, <1>3 DEF Tidy

(* A session that was just made is tidy.                                   *)
LEMMA TidyFresh ==
  ASSUME NEW t \in Sessions, session'[t].docs = NoSession.docs, dir'[t].files = {},
         \A u \in Uploads : upload'[u].session # t
  PROVE  Tidy(t)'
<1>1. \A d \in Documents : session'[t].docs[d] = NoDocument
  BY EmptyRecords
<1>2. \A d \in Documents : session'[t].docs[d].status = "none" /\ ~session'[t].docs[d].report
  BY <1>1 DEF NoDocument
<1> QED
  BY <1>2 DEF Tidy, DocsOf, AttendedOf, ReportsOf, Reporting, Unfinished
-----------------------------------------------------------------------------
(* Steps that leave the uploads alone                                      *)

(* What LabInv says of uploads and documents survives a step that leaves   *)
(* the uploads, and the documents and files of every session that stays.   *)
LEMMA UploadsLeft ==
  ASSUME LabInv, UNCHANGED uploads, \A t \in Sessions : Quiet(t) \/ Served(t),
         \A t \in Sessions : Served(t) => SameView(t) \/ Tidy(t)'
  PROVE  TodoInv' /\ TidyInv' /\ LeftInv'
<1> USE DEF LabInv, uploads
<1>1. TodoInv'
  BY DEF TodoInv
<1>2. ASSUME NEW t \in Sessions, t \in Open'
      PROVE  Tidy(t)'
  <2>1. SameView(t) \/ Tidy(t)'
    BY <1>2 DEF Quiet, QuietTo, SameView, Open
  <2>2. ASSUME SameView(t)
        PROVE  Tidy(t)'
    <3>1. Types /\ Tidy(t)
      BY <2>2 DEF SameView, TidyInv
    <3>2. saved \in Nat /\ saved' = saved
      BY Limits DEF Types
    <3> QED
      BY <2>2, <3>1, <3>2, TidyElsewhere
  <2> QED
    BY <2>1, <2>2
<1>3. TidyInv'
  BY <1>2 DEF TidyInv, Open
<1>4. LeftInv'
  BY LeftStep
<1> QED
  BY <1>1, <1>3, <1>4

(* A request about a session, from the page or not.                        *)
LEMMA RequestStep ==
  ASSUME LabInv, NEW s \in Sessions, NEW files \in Files,
         NEW docs \in [Documents -> [status : Statuses \cup {"none", "late"},
                                     report : BOOLEAN]],
         GetSession(s, docs, files), UNCHANGED <<uploads, process>>,
         Found(s) => SameView(s) \/ Tidy(s)'
  PROVE  /\ session' \in [Sessions -> SessionType] /\ dir' \in [Sessions -> DirType]
         /\ DirsMatch' /\ sinceSweep' \in 0..Interval
         /\ \A t \in Sessions : Quiet(t) \/ Served(t)
         /\ \A t \in Sessions : Patient(t, session'[t])
         /\ Served(s) \/ session'[s].status # "open"
         /\ TodoInv' /\ TidyInv' /\ LeftInv'
<1>1. Types
  BY DEF LabInv
<1>2. /\ session' \in [Sessions -> SessionType] /\ dir' \in [Sessions -> DirType]
      /\ DirsMatch' /\ sinceSweep' \in 0..Interval
      /\ \A t \in Sessions : Patient(t, session'[t])
      /\ \A t \in Sessions : (t # s \/ ~Found(s)) => Quiet(t)
      /\ Found(s) => Served(s)
      /\ ~Found(s) => session'[s].status # "open"
  BY <1>1, GetSessionEffect
<1>3. \A t \in Sessions : Quiet(t) \/ Served(t)
  BY <1>2
<1>4. ASSUME NEW t \in Sessions, Served(t)
      PROVE  SameView(t) \/ Tidy(t)'
  <2>1. CASE t = s
    BY <1>2, <1>4, <2>1 DEF Served
  <2>2. CASE t # s
    BY <1>2, <1>4, <2>2 DEF Served, Quiet, QuietTo, SameView, Open
  <2> QED
    BY <2>1, <2>2
<1>5. TodoInv' /\ TidyInv' /\ LeftInv'
  <2>1. UNCHANGED uploads
    OBVIOUS
  <2> QED
    BY <1>3, <1>4, <2>1, UploadsLeft
<1> QED
  BY <1>2, <1>3, <1>5

(* A request that leaves uploads and process alone keeps the types.        *)
LEMMA RequestTypes ==
  ASSUME Types, UNCHANGED <<uploads, process>>,
         session' \in [Sessions -> SessionType], dir' \in [Sessions -> DirType],
         DirsMatch', sinceSweep' \in 0..Interval,
         page' \in [session : Sessions \cup {None}, transferring : BOOLEAN, timer : 0..Beat],
         wire' \in [beat : Sessions \cup {None}, age : 0..Delay,
                    close : Sessions \cup {None}],
         missed' \in BOOLEAN
  PROVE  Types'
BY DEF Types, uploads, process

(* get_session by a request that changes nothing of the session.           *)
LEMMA LookUpStep ==
  ASSUME LabInv, NEW s \in Sessions, LookUp(s), UNCHANGED <<uploads, process>>
  PROVE  /\ session' \in [Sessions -> SessionType] /\ dir' \in [Sessions -> DirType]
         /\ DirsMatch' /\ sinceSweep' \in 0..Interval
         /\ \A t \in Sessions : Quiet(t) \/ Served(t)
         /\ \A t \in Sessions : Patient(t, session'[t])
         /\ Found(s) => Served(s)
         /\ Served(s) \/ session'[s].status # "open"
         /\ TodoInv' /\ TidyInv' /\ LeftInv'
<1>1. Types
  BY DEF LabInv
<1>2. /\ session[s].docs \in [Documents -> [status : Statuses \cup {"none", "late"},
                                           report : BOOLEAN]]
      /\ dir[s].files \in Files
  BY <1>1, DocsType
<1>3. GetSession(s, session[s].docs, dir[s].files)
  BY DEF LookUp
<1>4. Found(s) => /\ Served(s) /\ session'[s].docs = session[s].docs
                  /\ dir'[s].files = dir[s].files
  BY <1>1, <1>2, <1>3, GetSessionEffect
<1>5. Found(s) => SameView(s)
  BY <1>4 DEF SameView, Found
<1> QED
  BY <1>2, <1>3, <1>4, <1>5, RequestStep

(* The page is well formed whatever it shows.                              *)
LEMMA PageType ==
  ASSUME NEW s \in Sessions \cup {None}
  PROVE  /\ [NoPage EXCEPT !.session = s] \in
              [session : Sessions \cup {None}, transferring : BOOLEAN, timer : 0..Beat]
         /\ [NoPage EXCEPT !.session = s].session = s
         /\ [NoPage EXCEPT !.session = s].timer = 0
         /\ NoPage \in
              [session : Sessions \cup {None}, transferring : BOOLEAN, timer : 0..Beat]
         /\ NoPage.session = None
<1>1. 0 \in 0 .. Beat
  BY Limits
<1>2. NoPage.session = None
  BY DEF NoPage
<1>3. NoPage \in
        [session : Sessions \cup {None}, transferring : BOOLEAN, timer : 0..Beat]
  BY <1>1 DEF NoPage
<1>4. /\ [NoPage EXCEPT !.session = s].session = s
      /\ [NoPage EXCEPT !.session = s].timer = 0
  BY DEF NoPage
<1>5. [NoPage EXCEPT !.session = s] \in
        [session : Sessions \cup {None}, transferring : BOOLEAN, timer : 0..Beat]
  BY <1>3
<1> QED
  BY <1>2, <1>3, <1>4, <1>5

(* A new page of a session takes over the promise of the old one.          *)
LEMMA NavigatePreserves ==
  ASSUME LabInv, Navigate
  PROVE  LabInv'
<1> DEFINE s == page.session
<1> USE DEF LabInv
<1>1. s \in Sessions /\ s # None
  BY DEF Navigate, Types
<1>2. LookUp(s) /\ UNCHANGED <<uploads, process, wire>>
  BY DEF Navigate
<1>3. /\ session' \in [Sessions -> SessionType] /\ dir' \in [Sessions -> DirType]
      /\ DirsMatch' /\ sinceSweep' \in 0..Interval
      /\ \A t \in Sessions : Quiet(t) \/ Served(t)
      /\ Found(s) => Served(s)
      /\ TodoInv' /\ TidyInv' /\ LeftInv'
  BY <1>1, <1>2, LookUpStep
<1>4. \/ Found(s) /\ page' = [NoPage EXCEPT !.session = s] /\ missed' = missed
      \/ page' = NoPage /\ missed' = FALSE
  BY DEF Navigate
<1>5. Types'
  <2>1. page' \in [session : Sessions \cup {None}, transferring : BOOLEAN, timer : 0..Beat]
    BY <1>1, <1>4, PageType
  <2>2. missed' \in BOOLEAN
    BY <1>4 DEF Types
  <2> QED
    BY <1>2, <1>3, <2>1, <2>2, RequestTypes DEF Types
<1>6. KnownInv'
  <2>1. page'.session \in {page.session, None}
    BY <1>1, <1>4, PageType
  <2>2. wire' = wire /\ upload' = upload
    BY <1>2 DEF uploads
  <2> QED
    BY <1>2, <1>3, <2>1, <2>2, KnownStep DEF Navigate, process
<1>7. KeptInv'
  <2>1. CASE page'.session = None
    BY <2>1 DEF KeptInv
  <2>2. CASE page'.session # None
    <3>1. Served(s) /\ page'.session = s /\ page'.timer = 0 /\ wire' = wire
      BY <1>1, <1>2, <1>3, <1>4, <2>2, PageType
    <3>2. wire.close # s
      BY <1>1 DEF KeptInv
    <3>3. wire.age \in Nat
      BY Limits DEF Types
    <3> QED
      BY <3>1, <3>2, <3>3, Limits DEF KeptInv, Served
  <2> QED
    BY <2>1, <2>2
<1> QED
  BY <1>3, <1>5, <1>6, <1>7

(* A step that leaves the sessions and the disk alone as well.             *)
LEMMA StillStep ==
  ASSUME LabInv, UNCHANGED <<store, uploads>>
  PROVE  /\ session' \in [Sessions -> SessionType] /\ dir' \in [Sessions -> DirType]
         /\ DirsMatch' /\ sinceSweep' \in 0..Interval
         /\ \A t \in Sessions : Quiet(t)
         /\ \A t \in Sessions : Patient(t, session'[t])
         /\ TodoInv' /\ TidyInv' /\ LeftInv'
<1>1. session' = session /\ dir' = dir /\ sinceSweep' = sinceSweep /\ UNCHANGED uploads
  BY DEF store
<1>2. /\ session' \in [Sessions -> SessionType] /\ dir' \in [Sessions -> DirType]
      /\ DirsMatch' /\ sinceSweep' \in 0..Interval
  BY <1>1 DEF LabInv, Types, DirsMatch, Open
<1>3. \A t \in Sessions : Quiet(t) /\ Patient(t, session'[t])
  BY <1>1 DEF Quiet, QuietTo, Patient, Open
<1>4. \A t \in Sessions : Served(t) => SameView(t)
  BY <1>1 DEF Served, SameView, Open
<1>5. TodoInv' /\ TidyInv' /\ LeftInv'
  BY <1>1, <1>3, <1>4, UploadsLeft
<1> QED
  BY <1>2, <1>3, <1>5

(* A step that closes sessions and removes directories.                    *)
LEMMA CloseStep ==
  ASSUME LabInv, NEW ss \in SUBSET Open, NEW orphans, orphans \cap Open = {},
         session' = Closed(ss), dir' \in Removed(dir, ss \cup orphans),
         UNCHANGED uploads
  PROVE  /\ session' \in [Sessions -> SessionType] /\ dir' \in [Sessions -> DirType]
         /\ DirsMatch'
         /\ \A t \in Sessions : Quiet(t)
         /\ \A t \in Sessions : t \notin ss \/ t \in Stale => Patient(t, session'[t])
         /\ TodoInv' /\ TidyInv' /\ LeftInv'
<1>1. Types
  BY DEF LabInv
<1>2. session' \in [Sessions -> SessionType] /\ dir' \in [Sessions -> DirType]
  BY <1>1, SweptTypes
<1>3. ASSUME NEW t \in Sessions
      PROVE  /\ Quiet(t)
             /\ t \notin ss \/ t \in Stale => Patient(t, session'[t])
             /\ t \in Open \ ss => session'[t] = session[t] /\ dir'[t] = dir[t]
             /\ t \in ss => session'[t].status # "open"
  <2>1. /\ QuietTo(t, Closed(ss)[t], dir'[t])
        /\ t \notin ss \/ t \in Stale => Patient(t, Closed(ss)[t])
        /\ t \in Open \ ss => Closed(ss)[t] = session[t] /\ dir'[t] = dir[t]
        /\ t \in ss => Closed(ss)[t].status # "open"
    BY <1>1, SweepEffect
  <2> QED
    BY <2>1 DEF Quiet
<1>4. DirsMatch'
  BY <1>1, <1>3, DirsKept
<1>5. ASSUME NEW t \in Sessions, Served(t)
      PROVE  SameView(t)
  BY <1>3, <1>5 DEF Served, SameView, Quiet, QuietTo, Open
<1>6. TodoInv' /\ TidyInv' /\ LeftInv'
  BY <1>3, <1>5, UploadsLeft
<1> QED
  BY <1>2, <1>3, <1>4, <1>6

(* Closing one session leaves the others as they are.                      *)
LEMMA CloseSessionStep ==
  ASSUME LabInv, NEW s \in Sessions, CloseSession(s), UNCHANGED uploads
  PROVE  /\ session' \in [Sessions -> SessionType] /\ dir' \in [Sessions -> DirType]
         /\ DirsMatch' /\ sinceSweep' \in 0..Interval
         /\ \A t \in Sessions : Quiet(t)
         /\ \A t \in Sessions : t # s => Patient(t, session'[t])
         /\ TodoInv' /\ TidyInv' /\ LeftInv'
<1> DEFINE ss == {s} \cap Open
<1>1. ss \in SUBSET Open
  OBVIOUS
<1>2. session' = Closed(ss) /\ dir' \in Removed(dir, ss)
  BY DEF CloseSession
<1>3. dir' \in Removed(dir, ss \cup {})
  BY <1>2
<1>4. sinceSweep' \in 0..Interval
  BY DEF CloseSession, LabInv, Types
<1>5. \A t \in Sessions : t # s => t \notin ss
  OBVIOUS
<1> HIDE DEF ss
<1>6. {} \cap Open = {}
  OBVIOUS
<1> QED
  BY <1>1, <1>2, <1>3, <1>4, <1>5, <1>6, CloseStep

(* A sweep closes stale sessions only, and removes orphans only.           *)
LEMMA CleanupExpiredPreserves ==
  ASSUME LabInv, CleanupExpired
  PROVE  LabInv'
<1> DEFINE orphans == Orphans(Open \ Stale) \ Open
<1>1. /\ Stale \in SUBSET Open
      /\ orphans \cap Open = {} /\ Stale \cup Orphans(Open \ Stale) = Stale \cup orphans
  BY DEF Stale, Orphans
<1>2. session' = Closed(Stale) /\ dir' \in Removed(dir, Stale \cup orphans)
  BY <1>1 DEF CleanupExpired
<1> HIDE DEF orphans
<1>3. UNCHANGED <<uploads, process>> /\ page' = page /\ wire' = wire /\ missed' = missed
      /\ sinceSweep' = sinceSweep /\ upload' = upload
  BY DEF CleanupExpired, browser, uploads
<1>4. /\ session' \in [Sessions -> SessionType] /\ dir' \in [Sessions -> DirType]
      /\ DirsMatch'
      /\ \A t \in Sessions : Quiet(t)
      /\ \A t \in Sessions : t \notin Stale \/ t \in Stale => Patient(t, session'[t])
      /\ TodoInv' /\ TidyInv' /\ LeftInv'
  <2>1. UNCHANGED uploads
    BY <1>3
  <2> QED
    BY <1>1, <1>2, <2>1, CloseStep
<1>5. Types'
  BY <1>3, <1>4, RequestTypes DEF LabInv, Types
<1>6. KnownInv'
  BY <1>3, <1>4, KnownStep DEF LabInv, CleanupExpired, process
<1>7. KeptInv'
  <2>1. page.session # None => page.session \in Sessions
    BY DEF LabInv, Types
  <2> QED
    BY <1>3, <1>4, <2>1, KeptStep DEF LabInv
<1> QED
  BY <1>4, <1>5, <1>6, <1>7 DEF LabInv

(* A heartbeat that is in time finds its session and touches it.           *)
LEMMA ReceiveBeatPreserves ==
  ASSUME LabInv, ReceiveBeat
  PROVE  LabInv'
<1> DEFINE s == wire.beat
<1>1. s \in Sessions
  BY DEF ReceiveBeat, LabInv, Types
<1>2. /\ UNCHANGED <<uploads, process>> /\ page' = page /\ missed' = missed
      /\ upload' = upload /\ wire' = [wire EXCEPT !.beat = None, !.age = 0]
  BY DEF ReceiveBeat, uploads
<1>3. wire \in [beat : Sessions \cup {None}, age : 0..Delay, close : Sessions \cup {None}]
  BY DEF LabInv, Types
<1>4. /\ wire' \in [beat : Sessions \cup {None}, age : 0..Delay,
                    close : Sessions \cup {None}]
      /\ wire'.beat = None /\ wire'.close = wire.close
  <2>1. 0 \in 0 .. Delay
    BY Limits
  <2> QED
    BY <1>2, <1>3, <2>1
<1>5. /\ session' \in [Sessions -> SessionType] /\ dir' \in [Sessions -> DirType]
      /\ DirsMatch' /\ sinceSweep' \in 0..Interval
      /\ \A t \in Sessions : Quiet(t) \/ Served(t)
      /\ \A t \in Sessions : Patient(t, session'[t])
      /\ up => Served(s) \/ session'[s].status # "open"
      /\ TodoInv' /\ TidyInv' /\ LeftInv'
  <2>1. CASE up
    <3>1. LookUp(s)
      BY <2>1 DEF ReceiveBeat
    <3> QED
      BY <1>1, <1>2, <3>1, LookUpStep
  <2>2. CASE ~up
    <3>1. UNCHANGED <<store, uploads>>
      BY <2>2 DEF ReceiveBeat
    <3> QED
      BY <2>2, <3>1, StillStep
  <2> QED
    BY <2>1, <2>2
<1>6. Types'
  BY <1>2, <1>4, <1>5, RequestTypes DEF LabInv, Types
<1>7. KnownInv'
  <2>1. /\ up' \/ starts' < MaxStarts
        /\ up' \/ \A t \in Sessions : session'[t].status # "open"
    BY <1>2 DEF ReceiveBeat, LabInv, KnownInv, process, store
  <2> QED
    BY <1>2, <1>4, <1>5, <2>1, KnownStep DEF LabInv
<1>8. KeptInv'
  <2>1. page.session # None => page.session \in Sessions
    BY DEF LabInv, Types
  <2>2. page.session = wire.beat => Served(page.session)
                                    \/ session'[page.session].status # "open"
    <3>1. CASE up
      BY <1>5, <3>1
    <3>2. CASE ~up
      <4>1. session' = session
        BY <3>2 DEF ReceiveBeat, store
      <4> QED
        BY <1>1, <3>2, <4>1 DEF LabInv, KnownInv
    <3> QED
      BY <3>1, <3>2
  <2> QED
    BY <1>2, <1>4, <1>5, <2>1, <2>2, KeptStep DEF LabInv
<1> QED
  BY <1>5, <1>6, <1>7, <1>8 DEF LabInv

(* The beacon of a page that has left closes no other page's session.      *)
LEMMA ReceiveClosePreserves ==
  ASSUME LabInv, ReceiveClose
  PROVE  LabInv'
<1> DEFINE s == wire.close
<1>1. s \in Sessions
  BY DEF ReceiveClose, LabInv, Types
<1>2. /\ UNCHANGED <<uploads, process>> /\ page' = page /\ missed' = missed
      /\ upload' = upload /\ wire' = [wire EXCEPT !.close = None]
  BY DEF ReceiveClose, uploads
<1>3. wire \in [beat : Sessions \cup {None}, age : 0..Delay, close : Sessions \cup {None}]
  BY DEF LabInv, Types
<1>4. /\ wire' \in [beat : Sessions \cup {None}, age : 0..Delay,
                    close : Sessions \cup {None}]
      /\ wire'.beat = wire.beat /\ wire'.age = wire.age /\ wire'.close = None
  BY <1>2, <1>3
<1>5. /\ session' \in [Sessions -> SessionType] /\ dir' \in [Sessions -> DirType]
      /\ DirsMatch' /\ sinceSweep' \in 0..Interval
      /\ \A t \in Sessions : Quiet(t)
      /\ \A t \in Sessions : t # s => Patient(t, session'[t])
      /\ TodoInv' /\ TidyInv' /\ LeftInv'
  <2>1. CASE up
    <3>1. CloseSession(s) /\ UNCHANGED uploads
      BY <2>1 DEF ReceiveClose
    <3> QED
      BY <1>1, <3>1, CloseSessionStep
  <2>2. CASE ~up
    <3>1. UNCHANGED <<store, uploads>>
      BY <2>2 DEF ReceiveClose
    <3> QED
      BY <3>1, StillStep
  <2> QED
    BY <2>1, <2>2
<1>6. Types'
  BY <1>2, <1>4, <1>5, RequestTypes DEF LabInv, Types
<1>7. KnownInv'
  <2>1. /\ up' \/ starts' < MaxStarts
        /\ up' \/ \A t \in Sessions : session'[t].status # "open"
    BY <1>2 DEF ReceiveClose, LabInv, KnownInv, process, store
  <2> QED
    BY <1>2, <1>4, <1>5, <2>1, KnownStep DEF LabInv
<1>8. KeptInv'
  <2>1. page.session # None => page.session \in Sessions /\ page.session # s
    BY DEF LabInv, Types, KeptInv
  <2> QED
    BY <1>2, <1>4, <1>5, <2>1, KeptStep DEF LabInv
<1> QED
  BY <1>5, <1>6, <1>7, <1>8 DEF LabInv

(* A page that clears its session has none afterwards.                     *)
LEMMA ClearSessionPreserves ==
  ASSUME LabInv, ClearSession
  PROVE  LabInv'
<1> DEFINE s == page.session
<1>1. s \in Sessions
  BY DEF ClearSession, LabInv, Types
<1>2. /\ UNCHANGED <<uploads, process>> /\ page' = NoPage /\ missed' = FALSE
      /\ upload' = upload /\ wire' = wire /\ CloseSession(s)
  BY DEF ClearSession, uploads
<1>3. /\ session' \in [Sessions -> SessionType] /\ dir' \in [Sessions -> DirType]
      /\ DirsMatch' /\ sinceSweep' \in 0..Interval
      /\ \A t \in Sessions : Quiet(t)
      /\ TodoInv' /\ TidyInv' /\ LeftInv'
  <2>1. UNCHANGED uploads
    BY <1>2
  <2> QED
    BY <1>1, <1>2, <2>1, CloseSessionStep
<1>4. /\ page' \in [session : Sessions \cup {None}, transferring : BOOLEAN, timer : 0..Beat]
      /\ page'.session = None
  BY <1>2, PageType
<1>5. Types'
  BY <1>2, <1>3, <1>4, RequestTypes DEF LabInv, Types
<1>6. KnownInv'
  BY <1>2, <1>3, <1>4, KnownStep DEF LabInv, ClearSession, process
<1>7. KeptInv'
  BY <1>4 DEF KeptInv
<1> QED
  BY <1>3, <1>5, <1>6, <1>7 DEF LabInv

(* A page that leaves takes its promise with it.                           *)
LEMMA LeavePreserves ==
  ASSUME LabInv, Leave
  PROVE  LabInv'
<1>1. /\ UNCHANGED <<store, uploads>> /\ UNCHANGED <<uploads, process>>
      /\ page' = NoPage /\ missed' = FALSE /\ upload' = upload /\ session' = session
      /\ up' = up /\ page.session \in Sessions
  BY DEF Leave, uploads, process, store, LabInv, Types
<1>2. wire \in [beat : Sessions \cup {None}, age : 0..Delay, close : Sessions \cup {None}]
  BY DEF LabInv, Types
<1>3. /\ wire' \in [beat : Sessions \cup {None}, age : 0..Delay,
                    close : Sessions \cup {None}]
      /\ wire'.beat = wire.beat /\ wire'.close \in {wire.close, page.session}
  <2>1. CASE wire' = [wire EXCEPT !.close = page.session]
    BY <1>1, <1>2, <2>1
  <2>2. CASE wire' = wire
    BY <1>2, <2>2
  <2> QED
    BY <2>1, <2>2 DEF Leave
<1>4. /\ page' \in [session : Sessions \cup {None}, transferring : BOOLEAN, timer : 0..Beat]
      /\ page'.session = None
  BY <1>1, PageType
<1>5. /\ session' \in [Sessions -> SessionType] /\ dir' \in [Sessions -> DirType]
      /\ DirsMatch' /\ sinceSweep' \in 0..Interval
      /\ \A t \in Sessions : Quiet(t)
      /\ TodoInv' /\ TidyInv' /\ LeftInv'
  BY <1>1, StillStep
<1>6. Types'
  BY <1>1, <1>3, <1>4, <1>5, RequestTypes DEF LabInv
<1>7. KnownInv'
  <2>1. /\ up' \/ starts' < MaxStarts
        /\ up' \/ \A t \in Sessions : session'[t].status # "open"
    BY <1>1 DEF LabInv, KnownInv, process
  <2> QED
    BY <1>1, <1>3, <1>4, <1>5, <2>1, KnownStep DEF LabInv
<1>8. KeptInv'
  BY <1>4 DEF KeptInv
<1> QED
  BY <1>5, <1>6, <1>7, <1>8 DEF LabInv

(* A heartbeat under way counts from where the timer stood.                *)
LEMMA SendBeatPreserves ==
  ASSUME LabInv, SendBeat
  PROVE  LabInv'
<1> DEFINE s == page.session
<1>1. /\ UNCHANGED <<store, uploads>> /\ UNCHANGED <<uploads, process>>
      /\ page' = [page EXCEPT !.timer = 0] /\ upload' = upload /\ session' = session
      /\ up' = up /\ s \in Sessions /\ page.timer = Beat
  BY DEF SendBeat, uploads, process, store, LabInv, Types
<1>2. /\ wire \in [beat : Sessions \cup {None}, age : 0..Delay, close : Sessions \cup {None}]
      /\ page \in [session : Sessions \cup {None}, transferring : BOOLEAN, timer : 0..Beat]
      /\ missed \in BOOLEAN
  BY DEF LabInv, Types
<1>3. \/ /\ wire.beat = None /\ missed' = missed
         /\ wire' = [wire EXCEPT !.beat = s, !.age = 0]
      \/ missed' = TRUE /\ wire' = wire
  BY DEF SendBeat
<1>4. /\ wire' \in [beat : Sessions \cup {None}, age : 0..Delay,
                    close : Sessions \cup {None}]
      /\ wire'.close = wire.close /\ wire'.beat \in {wire.beat, s}
      /\ missed' \in BOOLEAN
      /\ ~missed' => ~missed /\ wire.beat = None /\ wire'.beat = s /\ wire'.age = 0
  <2>1. 0 \in 0 .. Delay
    BY Limits
  <2> QED
    BY <1>1, <1>2, <1>3, <2>1
<1>5. /\ page' \in [session : Sessions \cup {None}, transferring : BOOLEAN, timer : 0..Beat]
      /\ page'.session = s
  <2>1. 0 \in 0 .. Beat
    BY Limits
  <2> QED
    BY <1>1, <1>2, <2>1
<1>6. /\ session' \in [Sessions -> SessionType] /\ dir' \in [Sessions -> DirType]
      /\ DirsMatch' /\ sinceSweep' \in 0..Interval
      /\ \A t \in Sessions : Quiet(t)
      /\ TodoInv' /\ TidyInv' /\ LeftInv'
  BY <1>1, StillStep
<1>7. Types'
  BY <1>1, <1>4, <1>5, <1>6, RequestTypes DEF LabInv
<1>8. KnownInv'
  <2>1. /\ up' \/ starts' < MaxStarts
        /\ up' \/ \A t \in Sessions : session'[t].status # "open"
    BY <1>1 DEF LabInv, KnownInv, process
  <2> QED
    BY <1>1, <1>4, <1>5, <1>6, <2>1, KnownStep DEF LabInv
<1>9. KeptInv'
  <2>1. /\ s # None /\ wire.close # s
        /\ missed \/ session[s].status # "closed"
        /\ missed \/ s \notin Open
           \/ session[s].idle <= IF wire.beat = s THEN Beat + wire.age ELSE page.timer
    BY <1>1, Limits DEF LabInv, KeptInv
  <2>2. ~missed' /\ session[s].status = "open" => session[s].idle <= Beat + wire'.age
    BY <1>1, <1>4, <2>1, Limits DEF Open
  <2> QED
    BY <1>1, <1>4, <1>5, <2>1, <2>2 DEF KeptInv, Open
<1> QED
  BY <1>6, <1>7, <1>8, <1>9 DEF LabInv

(* A new process knows of no session.                                      *)
LEMMA StartPreserves ==
  ASSUME LabInv, Start
  PROVE  LabInv'
<1>1. /\ UNCHANGED <<store, uploads>> /\ UNCHANGED browser
      /\ up' = TRUE /\ ~up /\ starts' = starts + 1 /\ upload' = upload
      /\ page' = page /\ wire' = wire /\ missed' = missed /\ saved' = saved
  BY DEF Start, browser, uploads
<1>2. /\ session' \in [Sessions -> SessionType] /\ dir' \in [Sessions -> DirType]
      /\ DirsMatch' /\ sinceSweep' \in 0..Interval
      /\ \A t \in Sessions : Quiet(t)
      /\ \A t \in Sessions : Patient(t, session'[t])
      /\ TodoInv' /\ TidyInv' /\ LeftInv'
  BY <1>1, StillStep
<1>3. starts' \in 1 .. MaxStarts
  BY <1>1, Limits DEF LabInv, Types, KnownInv
<1>4. Types'
  BY <1>1, <1>2, <1>3 DEF LabInv, Types
<1>5. KnownInv'
  BY <1>1, <1>2, KnownStep DEF LabInv
<1>6. KeptInv'
  <2>1. page.session # None => page.session \in Sessions
    BY DEF LabInv, Types
  <2> QED
    BY <1>1, <1>2, <2>1, KeptStep DEF LabInv
<1> QED
  BY <1>2, <1>4, <1>5, <1>6 DEF LabInv

(* A new session is empty, and nobody spoke of it before.                  *)
LEMMA CreateSessionPreserves ==
  ASSUME LabInv, NEW s \in Sessions, CreateSession(s)
  PROVE  LabInv'
<1> DEFINE new == [NoSession EXCEPT !.status = "open"]
           made == [NoDir EXCEPT !.there = TRUE]
<1>0. Types /\ KnownInv
  BY DEF LabInv
<1>1. /\ up /\ page.session = None /\ session[s].status = "none"
      /\ UNCHANGED <<uploads, process>> /\ wire' = wire /\ missed' = missed
      /\ upload' = upload /\ up' = up
  BY DEF CreateSession, uploads, process
<1>2. /\ session[s] = NoSession
      /\ page.session # s /\ wire.beat # s /\ wire.close # s
      /\ \A u \in Uploads : upload[u].session # s
  BY <1>0, <1>1 DEF KnownInv
<1>3. PICK left \in Removed(dir, Doomed) : dir' = [left EXCEPT ![s] = made]
  BY DEF CreateSession
<1>4. /\ Closed(Swept) \in [Sessions -> SessionType]
      /\ left \in [Sessions -> DirType]
  BY <1>0, SweptTypes
<1>5. \A t \in Sessions : /\ QuietTo(t, Closed(Swept)[t], left[t])
                          /\ Patient(t, Closed(Swept)[t])
  BY <1>0, SweptEffect
<1>6. Closed(Swept)[s] = NoSession
  <2>1. s \notin Swept
    BY <1>1 DEF Swept, Stale, Open
  <2> QED
    BY <1>0, <1>2, <2>1, ClosedShape
<1>7. /\ new \in SessionType /\ new.status = "open" /\ new.idle = 0
      /\ new.docs = NoSession.docs
      /\ made \in DirType /\ made.there /\ made.files = {}
  <2>1. /\ NoSession \in SessionType /\ NoDir \in DirType
        /\ NoSession.idle = 0 /\ NoDir.files = {}
    BY EmptyRecords DEF NoSession, NoDir
  <2> QED
    BY <2>1 DEF SessionType, DirType
<1>8. session' = [Closed(Swept) EXCEPT ![s] = new]
  BY <1>4, <1>6 DEF CreateSession
<1>9. /\ session' \in [Sessions -> SessionType] /\ dir' \in [Sessions -> DirType]
      /\ session'[s] = new /\ dir'[s] = made
      /\ \A t \in Sessions \ {s} : session'[t] = Closed(Swept)[t] /\ dir'[t] = left[t]
  BY <1>3, <1>4, <1>7, <1>8
<1>10. sinceSweep' \in 0..Interval
  BY <1>0, Limits DEF CreateSession, Types
<1> HIDE DEF new, made
<1>11. ASSUME NEW t \in Sessions
       PROVE  /\ t # s => Quiet(t) /\ Patient(t, session'[t])
              /\ t = s => Served(t) /\ Patient(t, session'[t])
  BY <1>5, <1>7, <1>9 DEF Quiet, Served, Patient
<1>12. Tidy(s)'
  <2>1. \A u \in Uploads : upload'[u].session # s
    BY <1>1, <1>2
  <2> QED
    BY <1>7, <1>9, <2>1, TidyFresh
<1>13. ASSUME NEW t \in Sessions, Served(t)
       PROVE  SameView(t) \/ Tidy(t)'
  BY <1>11, <1>12, <1>13 DEF Served, Quiet, QuietTo, SameView, Open
<1>14. \A t \in Sessions : Quiet(t) \/ Served(t)
  BY <1>11
<1>15. TodoInv' /\ TidyInv' /\ LeftInv'
  BY <1>1, <1>13, <1>14, UploadsLeft
<1>16. /\ page' \in [session : Sessions \cup {None}, transferring : BOOLEAN, timer : 0..Beat]
       /\ page'.session \in {None, s}
       /\ page'.session = s => page'.timer = 0
       /\ page'.session = None \/ page'.session = s
  <2>1. page' = [NoPage EXCEPT !.session = s] \/ page' = page
    BY DEF CreateSession
  <2> QED
    BY <1>0, <1>1, <1>2, <2>1, PageType DEF Types
<1>17. Types'
  <2>1. DirsMatch'
    BY <1>0, <1>14, DirsKept
  <2> QED
    BY <1>0, <1>1, <1>9, <1>10, <1>16, <2>1, RequestTypes DEF Types
<1>18. KnownInv'
  <2>1. \/ page'.session \in {page.session, None}
        \/ session'[page'.session].status # "none"
    BY <1>7, <1>9, <1>16
  <2> QED
    BY <1>0, <1>1, <1>14, <2>1, KnownStep
<1>19. KeptInv'
  <2>1. CASE page'.session = None
    BY <2>1 DEF KeptInv
  <2>2. CASE page'.session = s
    <3>1. s # None /\ session'[s].idle = 0 /\ session'[s].status = "open"
      BY <1>7, <1>9, Limits
    <3> QED
      BY <1>1, <1>2, <1>16, <2>2, <3>1, Limits DEF KeptInv
  <2> QED
    BY <1>16, <2>1, <2>2
<1> QED
  BY <1>15, <1>17, <1>18, <1>19 DEF LabInv
-----------------------------------------------------------------------------
(* The process and time                                                    *)

(* With the process go the sessions it held.                               *)
LEMMA OpenBecomeShape ==
  ASSUME Types, NEW x \in {"stopped", "lost"}, OpenBecome(x)
  PROVE  /\ session' \in [Sessions -> SessionType] /\ sinceSweep' \in 0..Interval
         /\ \A t \in Sessions : /\ t \in Open => session'[t].status = x
                                /\ t \notin Open => session'[t] = session[t]
<1>1. [NoSession EXCEPT !.status = x] \in SessionType
      /\ [NoSession EXCEPT !.status = x].status = x
  BY EmptyRecords DEF NoSession, SessionType
<1>2. session' = [s \in Sessions |-> IF s \in Open THEN [NoSession EXCEPT !.status = x]
                                     ELSE session[s]]
  BY DEF OpenBecome
<1>3. sinceSweep' \in 0..Interval
  BY Limits DEF OpenBecome
<1> QED
  BY <1>1, <1>2, <1>3 DEF Types

(* The files stay where they are, and nothing speaks of them any more.     *)
LEMMA LostStep ==
  ASSUME Types, OpenBecome("lost"), dir' = Unread
  PROVE  /\ session' \in [Sessions -> SessionType] /\ sinceSweep' \in 0..Interval
         /\ dir' \in [Sessions -> DirType] /\ DirsMatch'
         /\ \A t \in Sessions : Quiet(t) /\ session'[t].status # "open"
<1>1. /\ session' \in [Sessions -> SessionType] /\ sinceSweep' \in 0..Interval
      /\ \A t \in Sessions : /\ t \in Open => session'[t].status = "lost"
                             /\ t \notin Open => session'[t] = session[t]
  BY OpenBecomeShape
<1>2. ASSUME NEW t \in Sessions
      PROVE  /\ dir'[t] \in DirType /\ dir'[t].files = {}
             /\ dir[t].files = {} => dir'[t] = dir[t]
  <2>1. dir[t] \in DirType
    BY DocsType
  <2>2. dir'[t] = [dir[t] EXCEPT !.files = {}]
    BY DEF Unread
  <2> QED
    BY <2>1, <2>2 DEF DirType, Files
<1>3. dir' \in [Sessions -> DirType]
  BY <1>2 DEF Unread
<1>4. ASSUME NEW t \in Sessions
      PROVE  Quiet(t) /\ session'[t].status # "open"
  <2>1. CASE t \in Open
    BY <1>1, <1>2, <2>1 DEF Quiet, QuietTo
  <2>2. CASE t \notin Open
    <3>1. dir'[t] = dir[t]
      BY <1>2, <2>2 DEF Types, DirsMatch
    <3> QED
      BY <1>1, <2>2, <3>1 DEF Quiet, QuietTo, Open
  <2> QED
    BY <2>1, <2>2
<1>5. DirsMatch'
  BY <1>4, DirsKept
<1> QED
  BY <1>1, <1>3, <1>4, <1>5

(* A process that stops or dies leaves no session open.                    *)
LEMMA ProcessEnds ==
  ASSUME LabInv, \A t \in Sessions : Quiet(t) /\ session'[t].status # "open",
         \A t \in Sessions : Patient(t, session'[t]),
         session' \in [Sessions -> SessionType], sinceSweep' \in 0..Interval,
         dir' \in [Sessions -> DirType], DirsMatch', saved' = saved,
         upload' \in [Uploads -> UploadType],
         starts < MaxStarts, starts' = starts, up' = FALSE, UNCHANGED browser,
         \A u \in Uploads :
           \/ upload'[u] = upload[u]
           \/ /\ upload[u].pc # "idle"
              /\ upload'[u].pc = "raised" /\ upload'[u].session = upload[u].session
              /\ upload'[u].todo = <<>>
  PROVE  LabInv'
<1>1. page' = page /\ wire' = wire /\ missed' = missed
  BY DEF browser
<1>2. Types /\ \A t \in Sessions : Quiet(t) \/ Served(t)
  BY DEF LabInv
<1>3. Types'
  BY <1>1, <1>2 DEF Types
<1>4. KnownInv'
  BY <1>1, <1>2, KnownStep DEF LabInv
<1>5. KeptInv'
  <2>1. page.session # None => page.session \in Sessions
    BY <1>2 DEF Types
  <2> QED
    BY <1>1, <1>2, <2>1, KeptStep DEF LabInv
<1>6. TodoInv'
  <2>1. ASSUME NEW u \in Uploads
        PROVE  \/ upload'[u] = upload[u]
               \/ ToSet(upload'[u].todo) = {} /\ DOMAIN upload'[u].todo = {}
    BY DEF ToSet
  <2> QED
    BY <2>1 DEF LabInv, TodoInv
<1>7. TidyInv'
  BY DEF TidyInv, Open
<1>8. LeftInv'
  BY <1>2, LeftStep DEF LabInv
<1> QED
  BY <1>3, <1>4, <1>5, <1>6, <1>7, <1>8 DEF LabInv

(* A process that dies leaves directories, but no open session.            *)
LEMMA CrashPreserves ==
  ASSUME LabInv, Crash
  PROVE  LabInv'
<1>1. Types
  BY DEF LabInv
<1>2. /\ starts < MaxStarts /\ up' = FALSE /\ OpenBecome("lost") /\ dir' = Unread
      /\ saved' = saved /\ starts' = starts /\ UNCHANGED browser
  BY DEF Crash
<1>3. /\ session' \in [Sessions -> SessionType] /\ sinceSweep' \in 0..Interval
      /\ dir' \in [Sessions -> DirType] /\ DirsMatch'
      /\ \A t \in Sessions : Quiet(t) /\ session'[t].status # "open"
  BY <1>1, <1>2, LostStep
<1>4. \A t \in Sessions : Patient(t, session'[t])
  BY <1>1, <1>2, OpenBecomeShape DEF Patient
<1>5. ASSUME NEW u \in Uploads
      PROVE  /\ upload'[u] \in UploadType
             /\ \/ upload'[u] = upload[u]
                \/ /\ upload[u].pc # "idle"
                   /\ upload'[u].pc = "raised" /\ upload'[u].session = upload[u].session
                   /\ upload'[u].todo = <<>>
  <2>1. upload[u] \in UploadType
    BY <1>1 DEF Types
  <2>2. CASE Ended(u)
    BY <2>1, <2>2 DEF Crash
  <2>3. CASE ~Ended(u)
    <3> DEFINE new == [NoUpload EXCEPT !.pc = "raised", !.session = upload[u].session]
    <3>1. upload'[u] = new /\ upload[u].pc # "idle"
      BY <2>3 DEF Crash, Ended
    <3>2. upload[u].session \in Sessions \cup {None}
      BY <2>1 DEF UploadType
    <3>3. new \in UploadType /\ new.pc = "raised" /\ new.session = upload[u].session
          /\ new.todo = <<>>
      BY <3>2, EmptyRecords DEF NoUpload, UploadType
    <3> QED
      BY <3>1, <3>3
  <2> QED
    BY <2>2, <2>3
<1>6. upload' \in [Uploads -> UploadType]
  BY <1>5 DEF Crash
<1> QED
  BY <1>2, <1>3, <1>4, <1>5, <1>6, ProcessEnds

(* A process that stops removes its sessions, or loses them.               *)
LEMMA ShutdownPreserves ==
  ASSUME LabInv, Shutdown
  PROVE  LabInv'
<1>1. Types
  BY DEF LabInv
<1>2. /\ starts < MaxStarts /\ up' = FALSE /\ UNCHANGED uploads
      /\ upload' = upload /\ saved' = saved /\ starts' = starts /\ UNCHANGED browser
      /\ \A u \in Uploads : Ended(u)
  BY DEF Shutdown, uploads
<1>3. /\ session' \in [Sessions -> SessionType] /\ sinceSweep' \in 0..Interval
      /\ dir' \in [Sessions -> DirType] /\ DirsMatch'
      /\ \A t \in Sessions : Quiet(t) /\ session'[t].status # "open"
      /\ \A t \in Sessions : Patient(t, session'[t])
  <2>1. CASE OpenBecome("lost") /\ dir' = Unread
    <3>1. \A t \in Sessions : Patient(t, session'[t])
      BY <1>1, <2>1, OpenBecomeShape DEF Patient
    <3> QED
      BY <1>1, <2>1, <3>1, LostStep
  <2>2. CASE OpenBecome("stopped") /\ dir' \in Removed(dir, Open)
    <3>1. /\ session' \in [Sessions -> SessionType] /\ sinceSweep' \in 0..Interval
          /\ \A t \in Sessions : /\ t \in Open => session'[t].status = "stopped"
                                 /\ t \notin Open => session'[t] = session[t]
      BY <1>1, <2>2, OpenBecomeShape
    <3>2. dir \in [Sessions -> DirType]
      BY <1>1 DEF Types
    <3>3. /\ dir' \in [Sessions -> DirType]
          /\ \A t \in Sessions :
               /\ t \notin Open => dir'[t] = dir[t]
               /\ t \in Open => dir'[t].files = {} /\ (dir'[t].there => Busy(t))
      BY <2>2, <3>2, RemovedShape
    <3>4. ASSUME NEW t \in Sessions
          PROVE  /\ Quiet(t) /\ session'[t].status # "open"
                 /\ Patient(t, session'[t])
      BY <3>1, <3>3 DEF Quiet, QuietTo, Patient, Open
    <3>5. DirsMatch'
      BY <1>1, <3>4, DirsKept
    <3> QED
      BY <3>1, <3>3, <3>4, <3>5
  <2> QED
    BY <2>1, <2>2 DEF Shutdown
<1>4. upload' \in [Uploads -> UploadType]
  BY <1>1, <1>2 DEF Types
<1> QED
  BY <1>2, <1>3, <1>4, ProcessEnds

(* An age stays below its limit and grows by one at most.                  *)
LEMMA OlderBound ==
  ASSUME NEW limit \in Nat, NEW x \in 0 .. limit
  PROVE  Older(x, limit) \in 0 .. limit /\ Older(x, limit) <= x + 1
BY DEF Older

(* Idle time grows no faster than the page's timer or the wire's.          *)
LEMMA TickPreserves ==
  ASSUME LabInv, Tick
  PROVE  LabInv'
<1>1. Types
  BY DEF LabInv
<1>2. /\ upload' = upload /\ saved' = saved /\ starts' = starts /\ up' = up
      /\ missed' = missed
  BY DEF Tick, uploads, process
<1>3. ASSUME NEW t \in Sessions
      PROVE  /\ session'[t] \in SessionType
             /\ session'[t].status = session[t].status
             /\ session'[t].docs = session[t].docs
             /\ session'[t].idle <= session[t].idle + 1
             /\ t \notin Open => session'[t] = session[t]
  <2>1. session[t] \in SessionType /\ session[t].idle \in 0..Grace
        /\ session[t].age \in 0..Lifetime
    BY <1>1, DocsType DEF SessionType
  <2>2. CASE t \in Open
    <3>1. session'[t] = [session[t] EXCEPT !.idle = Older(@, Grace),
                                           !.age = Older(@, Lifetime)]
      BY <2>2 DEF Tick
    <3>2. /\ Older(session[t].idle, Grace) \in 0..Grace
          /\ Older(session[t].idle, Grace) <= session[t].idle + 1
          /\ Older(session[t].age, Lifetime) \in 0..Lifetime
      BY <2>1, Limits, OlderBound
    <3> QED
      BY <2>1, <2>2, <3>1, <3>2 DEF SessionType
  <2>3. CASE t \notin Open
    <3>1. session'[t] = session[t]
      BY <2>3 DEF Tick
    <3>2. session[t].idle <= session[t].idle + 1
      BY <2>1, Limits
    <3> QED
      BY <2>1, <3>1, <3>2
  <2> QED
    BY <2>2, <2>3
<1>4. ASSUME NEW t \in Sessions
      PROVE  /\ dir'[t] \in DirType
             /\ dir'[t].there = dir[t].there /\ dir'[t].files = dir[t].files
  <2>1. dir[t] \in DirType /\ dir[t].age \in 0..Lifetime
    BY <1>1, DocsType DEF DirType
  <2>2. CASE t \in Dirs
    <3>1. dir'[t] = [dir[t] EXCEPT !.age = Older(@, Lifetime)]
      BY <2>2 DEF Tick
    <3>2. Older(dir[t].age, Lifetime) \in 0..Lifetime
      BY <2>1, Limits, OlderBound
    <3> QED
      BY <2>1, <3>1, <3>2 DEF DirType
  <2>3. CASE t \notin Dirs
    BY <2>1, <2>3 DEF Tick
  <2> QED
    BY <2>2, <2>3
<1>5. /\ page \in [session : Sessions \cup {None}, transferring : BOOLEAN, timer : 0..Beat]
      /\ wire \in [beat : Sessions \cup {None}, age : 0..Delay, close : Sessions \cup {None}]
  BY <1>1 DEF Types
<1>6. /\ page' \in [session : Sessions \cup {None}, transferring : BOOLEAN, timer : 0..Beat]
      /\ page'.session = page.session
      /\ page.session # None => page'.timer = page.timer + 1
  <2>1. CASE page.session = None
    BY <1>5, <2>1 DEF Tick
  <2>2. CASE page.session # None
    <3>1. page.timer + 1 \in 0 .. Beat /\ page' = [page EXCEPT !.timer = @ + 1]
      <4>1. page.timer \in 0 .. Beat /\ page.timer < Beat
        BY <1>5, <2>2 DEF Tick
      <4>2. page.timer + 1 \in 0 .. Beat
        BY <4>1, Limits
      <4>3. page' = [page EXCEPT !.timer = @ + 1]
        BY <2>2 DEF Tick
      <4> QED
        BY <4>2, <4>3
    <3> QED
      BY <1>5, <3>1
  <2> QED
    BY <2>1, <2>2
<1>7. /\ wire' \in [beat : Sessions \cup {None}, age : 0..Delay, close : Sessions \cup {None}]
      /\ wire'.beat = wire.beat /\ wire'.close = wire.close
      /\ wire.beat # None => wire'.age = wire.age + 1
  <2>1. CASE wire.beat = None
    BY <1>5, <2>1 DEF Tick
  <2>2. CASE wire.beat # None
    <3>1. wire.age + 1 \in 0 .. Delay /\ wire' = [wire EXCEPT !.age = @ + 1]
      <4>1. wire.age \in 0 .. Delay /\ wire.age < Delay
        BY <1>5, <2>2 DEF Tick
      <4>2. wire.age + 1 \in 0 .. Delay
        BY <4>1, Limits
      <4>3. wire' = [wire EXCEPT !.age = @ + 1]
        BY <2>2 DEF Tick
      <4> QED
        BY <4>2, <4>3
    <3> QED
      BY <1>5, <3>1
  <2> QED
    BY <2>1, <2>2
<1>8. Types'
  <2>1. session' \in [Sessions -> SessionType] /\ dir' \in [Sessions -> DirType]
    BY <1>3, <1>4 DEF Tick
  <2>2. sinceSweep' \in 0..Interval
    BY <1>1, Limits, OlderBound DEF Types, Tick
  <2>3. DirsMatch'
    BY <1>1, <1>3, <1>4 DEF Types, DirsMatch, Open
  <2> QED
    BY <1>1, <1>2, <1>6, <1>7, <2>1, <2>2, <2>3 DEF Types
<1>9. KnownInv'
  <2>1. \A t \in Sessions : session'[t].status = "none" => session'[t] = session[t]
    BY <1>3 DEF Open
  <2>2. ASSUME NEW t \in Sessions, session'[t].status = "none"
        PROVE  /\ session'[t] = NoSession
               /\ page'.session # t /\ wire'.beat # t /\ wire'.close # t
               /\ \A u \in Uploads : upload'[u].session # t
    BY <1>2, <1>6, <1>7, <2>1, <2>2 DEF LabInv, KnownInv
  <2>3. /\ up' \/ starts' < MaxStarts
        /\ up' \/ \A t \in Sessions : session'[t].status # "open"
    BY <1>2, <1>3 DEF LabInv, KnownInv
  <2>4. \A u \in Uploads : /\ upload'[u].pc = "idle" => upload'[u] = NoUpload
                           /\ Active(u)' => upload'[u].session # None
    BY <1>2 DEF LabInv, KnownInv, Active
  <2> QED
    BY <2>2, <2>3, <2>4 DEF KnownInv, NoSession, NoUpload
<1>10. KeptInv'
  <2> SUFFICES ASSUME page.session # None
               PROVE  /\ wire'.close # page.session
                      /\ missed \/ session'[page.session].status # "closed"
                      /\ missed \/ session'[page.session].status # "open"
                         \/ session'[page.session].idle <=
                              IF wire'.beat = page.session THEN Beat + wire'.age
                              ELSE page'.timer
    BY <1>2, <1>6 DEF KeptInv, Open
  <2>1. page.session \in Sessions
    BY <1>5
  <2>2. /\ wire.close # page.session
        /\ missed \/ session[page.session].status # "closed"
        /\ missed \/ page.session \notin Open
           \/ session[page.session].idle <=
                IF wire.beat = page.session THEN Beat + wire.age ELSE page.timer
    BY DEF LabInv, KeptInv
  <2>3. session[page.session].idle \in Nat /\ session'[page.session].idle \in Nat
    BY <1>1, <1>3, <2>1, DocsType, Limits DEF SessionType
  <2>4. page.timer \in Nat /\ wire.age \in Nat
    BY <1>5, Limits
  <2>5. CASE missed \/ page.session \notin Open
    BY <1>3, <1>7, <2>1, <2>2, <2>5 DEF Open
  <2>6. CASE wire.beat = page.session /\ ~missed /\ page.session \in Open
    BY <1>3, <1>7, <2>1, <2>2, <2>3, <2>4, <2>6, Limits
  <2>7. CASE wire.beat # page.session /\ ~missed /\ page.session \in Open
    BY <1>3, <1>6, <1>7, <2>1, <2>2, <2>3, <2>4, <2>7
  <2> QED
    BY <2>5, <2>6, <2>7
<1>11. TodoInv'
  BY <1>2 DEF LabInv, TodoInv
<1>12. ASSUME NEW t \in Sessions, t \in Open'
       PROVE  Tidy(t)'
  <2>1. t \in Open
    BY <1>3, <1>12 DEF Open
  <2>2. SameView(t) /\ Tidy(t)
    BY <1>3, <1>4, <2>1 DEF SameView, LabInv, TidyInv
  <2>3. saved \in Nat
    BY <1>1, Limits DEF Types
  <2> QED
    BY <1>1, <1>2, <2>2, <2>3, TidyElsewhere
<1>13. TidyInv'
  BY <1>12 DEF TidyInv, Open
<1>14. LeftInv'
  BY <1>2, <1>3, <1>4 DEF LabInv, LeftInv, LeftOf
<1> QED
  BY <1>8, <1>9, <1>10, <1>11, <1>13, <1>14 DEF LabInv
-----------------------------------------------------------------------------
(* Requests about one document                                             *)

(* Removing a document changes that one only.                              *)
LEMMA CancelledType ==
  ASSUME Types, NEW s \in Sessions, NEW d \in Documents
  PROVE  /\ Cancelled(session[s].docs, d) \in
              [Documents -> [status : Statuses \cup {"none", "late"}, report : BOOLEAN]]
         /\ Cancelled(session[s].docs, d)[d].status = "cancelled"
         /\ ~Cancelled(session[s].docs, d)[d].report
         /\ \A e \in Documents \ {d} :
              Cancelled(session[s].docs, d)[e] = session[s].docs[e]
<1>1. session[s].docs \in [Documents -> [status : Statuses \cup {"none", "late"},
                                        report : BOOLEAN]]
  BY DocsType
<1>2. /\ [NoDocument EXCEPT !.status = "cancelled"] \in
           [status : Statuses \cup {"none", "late"}, report : BOOLEAN]
      /\ [NoDocument EXCEPT !.status = "cancelled"].status = "cancelled"
      /\ ~[NoDocument EXCEPT !.status = "cancelled"].report
  BY DEF NoDocument, Statuses
<1> QED
  BY <1>1, <1>2 DEF Cancelled

(* The upload of d is being processed, and reported on, in this session.   *)
LEMMA ReportingFacts ==
  ASSUME Types, NEW s \in Sessions, NEW d \in Documents, NEW u \in Uploads,
         Reporting(u, s, d)
  PROVE  /\ d \in ToSet(upload[u].todo) /\ Active(u) /\ upload[u].session = s
         /\ Processing(d)
<1>1. upload[u].todo \in Seq(Documents) /\ upload[u].todo # <<>>
  BY DEF Types, UploadType, Reporting
<1>2. d \in ToSet(upload[u].todo)
  BY <1>1, TodoParts DEF Reporting
<1> QED
  BY <1>2 DEF Reporting, Active, Processing

(* A document that is removed leaves an export only, and the report of a   *)
(* request that is still processing it.                                    *)
LEMMA TidyRemoved ==
  ASSUME Types, NEW s \in Sessions, NEW d \in Documents, Tidy(s), s \in Open,
         session[s].docs[d].status # "none", UNCHANGED uploads,
         session'[s].docs = Cancelled(session[s].docs, d),
         dir'[s].files = dir[s].files \ ({<<"upload", d>>}
            \cup (IF session[s].docs[d].report THEN {<<"report", d>>} ELSE {}))
  PROVE  Tidy(s)'
<1>1. /\ session'[s].docs[d].status = "cancelled" /\ ~session'[s].docs[d].report
      /\ \A e \in Documents : e # d => session'[s].docs[e] = session[s].docs[e]
  BY CancelledType
<1>2. upload' = upload /\ saved' = saved
  BY DEF uploads
<1>3. DocsOf(s)'
  <2> SUFFICES ASSUME NEW e \in Documents
               PROVE  /\ session'[s].docs[e].status # "none" => e <= saved
                      /\ session'[s].docs[e].status = "none" => ~session'[s].docs[e].report
                      /\ \A u \in Uploads : e \in ToSet(upload[u].todo) =>
                           /\ session'[s].docs[e].status # "none" => upload[u].session = s
                           /\ Active(u) /\ upload[u].session = s =>
                                /\ session'[s].docs[e].status \in Unfinished \cup {"cancelled"}
                                /\ ~session'[s].docs[e].report
    BY <1>2 DEF DocsOf, Active, Unfinished
  <2>1. CASE e = d
    BY <1>1, <2>1 DEF Tidy, DocsOf
  <2>2. CASE e # d
    BY <1>1, <2>2 DEF Tidy, DocsOf
  <2> QED
    BY <2>1, <2>2
<1>4. AttendedOf(s)'
  <2> SUFFICES ASSUME NEW e \in Documents, session'[s].docs[e].status \in Unfinished
               PROVE  \E u \in Uploads : Works(u, s)' /\ e \in ToSet(upload[u].todo)
    BY <1>2 DEF AttendedOf, Unfinished
  <2>1. e # d
    BY <1>1 DEF Unfinished
  <2>2. PICK u \in Uploads : Works(u, s) /\ e \in ToSet(upload[u].todo)
    BY <1>1, <2>1 DEF Tidy, AttendedOf
  <2>3. \A f \in Documents : session[s].docs[f].status = "cancelled" =>
                               session'[s].docs[f].status = "cancelled"
    BY <1>1
  <2>4. Head(upload[u].todo) \in Documents
    BY <2>2, HeadIsThere DEF Types, UploadType
  <2>5. Works(u, s)'
    BY <1>2, <2>2, <2>3, <2>4 DEF Works, StoppedShort, Active
  <2> QED
    BY <2>2, <2>5
<1>5. ReportsOf(s)'
  <2>1. ASSUME NEW e \in Documents, NEW u \in Uploads
        PROVE  (Reporting(u, s, e)' <=> Reporting(u, s, e))
               /\ (Processing(e)' <=> Processing(e))
    BY <1>2 DEF Reporting, Processing
  <2>2. ASSUME NEW e \in Documents, e # d, NEW kind
        PROVE  <<kind, e>> \in dir'[s].files <=> <<kind, e>> \in dir[s].files
    BY <2>2
  <2>3. /\ \A f \in dir'[s].files : f \in dir[s].files
        /\ \A f \in dir[s].files : f = <<f[1], f[2]>> /\ f[1] \in {"upload", "report", "zip"}
    BY DocsType DEF Files
  <2>4. (\E u \in Uploads : Reporting(u, s, d)) => Processing(d) /\ ~session[s].docs[d].report
    BY ReportingFacts DEF Tidy, DocsOf
  <2>5. ASSUME <<"report", d>> \in dir'[s].files
        PROVE  \E u \in Uploads : Reporting(u, s, d)
    BY <2>5 DEF Tidy, ReportsOf
  <2>6. ~Processing(d) => \A f \in dir'[s].files : f[2] = d => f = <<"zip", d>>
    BY <2>3, <2>4, <2>5
  <2>7. ASSUME NEW e \in Documents
        PROVE  /\ session'[s].docs[e].status = "completed" => <<"report", e>> \in dir'[s].files
               /\ <<"report", e>> \in dir'[s].files =>
                    session'[s].docs[e].report \/ (\E u \in Uploads : Reporting(u, s, e))
               /\ session'[s].docs[e].status = "cancelled" /\ ~Processing(e) =>
                    \A f \in dir'[s].files : f[2] = e => f = <<"zip", e>>
               /\ \A u \in Uploads : Reporting(u, s, e) => <<"report", e>> \in dir'[s].files
    <3>1. /\ session[s].docs[e].status = "completed" => <<"report", e>> \in dir[s].files
          /\ <<"report", e>> \in dir[s].files =>
               session[s].docs[e].report \/ (\E u \in Uploads : Reporting(u, s, e))
          /\ session[s].docs[e].status = "cancelled" /\ ~Processing(e) =>
               \A f \in dir[s].files : f[2] = e => f = <<"zip", e>>
          /\ \A u \in Uploads : Reporting(u, s, e) => <<"report", e>> \in dir[s].files
      BY DEF Tidy, ReportsOf
    <3>2. CASE e = d
      <4>1. ASSUME NEW u \in Uploads, Reporting(u, s, d)
            PROVE  <<"report", d>> \in dir'[s].files
        <5>1. <<"report", d>> \in dir[s].files /\ ~session[s].docs[d].report
          BY <2>4, <3>1, <3>2, <4>1
        <5> QED
          BY <5>1
      <4> QED
        BY <1>1, <2>5, <2>6, <3>2, <4>1
    <3>3. CASE e # d
      <4>1. session'[s].docs[e] = session[s].docs[e]
        BY <1>1, <3>3
      <4>2. <<"report", e>> \in dir'[s].files <=> <<"report", e>> \in dir[s].files
        BY <2>2, <3>3
      <4> QED
        BY <2>3, <3>1, <4>1, <4>2
    <3> QED
      BY <3>2, <3>3
  <2>8. ASSUME NEW e \in Documents
        PROVE  /\ session'[s].docs[e].status = "completed" => <<"report", e>> \in dir'[s].files
               /\ <<"report", e>> \in dir'[s].files =>
                    session'[s].docs[e].report \/ (\E u \in Uploads : Reporting(u, s, e)')
               /\ session'[s].docs[e].status = "cancelled" /\ ~Processing(e)' =>
                    \A f \in dir'[s].files : f[2] = e => f = <<"zip", e>>
               /\ \A u \in Uploads : Reporting(u, s, e)' => <<"report", e>> \in dir'[s].files
    <3>1. Processing(e)' <=> Processing(e)
      BY <1>2 DEF Processing
    <3>2. \A u \in Uploads : Reporting(u, s, e)' <=> Reporting(u, s, e)
      BY <2>1
    <3> QED
      BY <2>7, <3>1, <3>2
  <2> QED
    BY <2>8 DEF ReportsOf
<1> QED
  BY <1>3, <1>4, <1>5 DEF Tidy

(* A removed document takes its upload and its known report along.         *)
LEMMA RemoveDocumentPreserves ==
  ASSUME LabInv, NEW s \in Sessions, NEW d \in Documents, RemoveDocument(s, d)
  PROVE  LabInv'
<1> DEFINE known == {<<"upload", d>>}
                    \cup (IF session[s].docs[d].report THEN {<<"report", d>>} ELSE {})
           docs == Cancelled(session[s].docs, d)
           files == dir[s].files \ known
<1>1. Types
  BY DEF LabInv
<1>2. /\ up /\ Listed(s, d) /\ GetSession(s, docs, files)
      /\ UNCHANGED <<uploads, process>>
      /\ page' = page /\ wire' = wire /\ missed' = missed /\ upload' = upload /\ up' = up
  BY DEF RemoveDocument, browser, uploads, process
<1>3. files \in Files
  BY <1>1, DocsType DEF Files
<1>4. docs \in [Documents -> [status : Statuses \cup {"none", "late"}, report : BOOLEAN]]
  BY <1>1, CancelledType
<1>5. s \in Open /\ session[s].docs[d].status # "none" /\ Tidy(s)
  BY <1>2 DEF Listed, Statuses, Unfinished, LabInv, TidyInv
<1>6. Found(s) => session'[s].docs = docs /\ dir'[s].files = files
  BY <1>1, <1>2, <1>3, <1>4, GetSessionEffect
<1>7. Found(s) => Tidy(s)'
  <2>1. UNCHANGED uploads
    BY <1>2
  <2> QED
    BY <1>1, <1>5, <1>6, <2>1, TidyRemoved
<1> HIDE DEF docs, files
<1>8. /\ session' \in [Sessions -> SessionType] /\ dir' \in [Sessions -> DirType]
      /\ DirsMatch' /\ sinceSweep' \in 0..Interval
      /\ \A t \in Sessions : Quiet(t) \/ Served(t)
      /\ \A t \in Sessions : Patient(t, session'[t])
      /\ TodoInv' /\ TidyInv' /\ LeftInv'
  BY <1>2, <1>3, <1>4, <1>7, RequestStep
<1>9. Types'
  BY <1>1, <1>2, <1>8, RequestTypes DEF Types
<1>10. KnownInv'
  BY <1>1, <1>2, <1>8, KnownStep DEF LabInv
<1>11. KeptInv'
  <2>1. page.session # None => page.session \in Sessions
    BY <1>1 DEF Types
  <2> QED
    BY <1>1, <1>2, <1>8, <2>1, KeptStep DEF LabInv
<1> QED
  BY <1>8, <1>9, <1>10, <1>11 DEF LabInv

(* An export adds a zip and removes nothing.                               *)
LEMMA ExportDocumentPreserves ==
  ASSUME LabInv, NEW s \in Sessions, NEW d \in Documents, ExportDocument(s, d)
  PROVE  LabInv'
<1> DEFINE exists == session[s].docs[d].report /\ <<"report", d>> \in dir[s].files
           docs == session[s].docs
           files == dir[s].files \cup {f \in {<<"zip", d>>} : exists}
<1>1. Types
  BY DEF LabInv
<1>2. /\ up /\ Listed(s, d) /\ GetSession(s, docs, files)
      /\ UNCHANGED <<uploads, process>>
      /\ wire' = wire /\ missed' = missed /\ upload' = upload /\ saved' = saved /\ up' = up
  BY DEF ExportDocument, uploads, process
<1>3. files \in Files
  BY <1>1, DocsType DEF Files
<1>4. docs \in [Documents -> [status : Statuses \cup {"none", "late"}, report : BOOLEAN]]
  BY <1>1, DocsType
<1>5. s \in Open /\ Tidy(s) /\ session[s].docs[d].status # "none"
  BY <1>2 DEF Listed, LabInv, TidyInv, Statuses, Unfinished
<1>6. Found(s) => session'[s].docs = docs /\ dir'[s].files = files
  BY <1>1, <1>2, <1>3, <1>4, GetSessionEffect
<1>7. ASSUME Found(s)
      PROVE  Tidy(s)'
  <2>1. DocsOf(s)' /\ AttendedOf(s)'
    <3>1. session'[s].docs = session[s].docs
      BY <1>6, <1>7
    <3> QED
      BY <1>2, <1>5, <3>1 DEF Tidy, DocsOf, AttendedOf, Works, StoppedShort, Active, Unfinished
  <2>2. \A e : <<"report", e>> \in dir'[s].files <=> <<"report", e>> \in dir[s].files
    BY <1>6, <1>7
  <2>3. \A f \in dir'[s].files : f \in dir[s].files \/ f = <<"zip", d>>
    BY <1>6, <1>7
  <2>4. session'[s].docs = session[s].docs
    BY <1>6, <1>7
  <2>5. ASSUME NEW e \in Documents, NEW u \in Uploads
        PROVE  (Reporting(u, s, e)' <=> Reporting(u, s, e))
               /\ (Processing(e)' <=> Processing(e))
    BY <1>2 DEF Reporting, Processing
  <2>6. ASSUME NEW e \in Documents
        PROVE  /\ session[s].docs[e].status = "completed" => <<"report", e>> \in dir'[s].files
               /\ <<"report", e>> \in dir'[s].files =>
                    session[s].docs[e].report \/ (\E u \in Uploads : Reporting(u, s, e)')
               /\ session[s].docs[e].status = "cancelled" /\ ~Processing(e)' =>
                    \A f \in dir'[s].files : f[2] = e => f = <<"zip", e>>
               /\ \A u \in Uploads : Reporting(u, s, e)' => <<"report", e>> \in dir'[s].files
    <3>1. /\ session[s].docs[e].status = "completed" => <<"report", e>> \in dir[s].files
          /\ <<"report", e>> \in dir[s].files =>
               session[s].docs[e].report \/ (\E u \in Uploads : Reporting(u, s, e))
          /\ session[s].docs[e].status = "cancelled" /\ ~Processing(e) =>
               \A f \in dir[s].files : f[2] = e => f = <<"zip", e>>
          /\ \A u \in Uploads : Reporting(u, s, e) => <<"report", e>> \in dir[s].files
      BY <1>5 DEF Tidy, ReportsOf
    <3>2. ASSUME session[s].docs[e].status = "cancelled", ~Processing(e)',
                 NEW f \in dir'[s].files, f[2] = e
          PROVE  f = <<"zip", e>>
      <4>1. ~Processing(e)
        BY <1>2, <3>2 DEF Processing
      <4> QED
        BY <2>3, <3>1, <3>2, <4>1
    <3> QED
      BY <2>2, <2>5, <3>1, <3>2
  <2> QED
    BY <2>1, <2>4, <2>6 DEF Tidy, ReportsOf
<1> HIDE DEF docs, files, exists
<1>8. /\ session' \in [Sessions -> SessionType] /\ dir' \in [Sessions -> DirType]
      /\ DirsMatch' /\ sinceSweep' \in 0..Interval
      /\ \A t \in Sessions : Quiet(t) \/ Served(t)
      /\ \A t \in Sessions : Patient(t, session'[t])
      /\ TodoInv' /\ TidyInv' /\ LeftInv'
  BY <1>2, <1>3, <1>4, <1>7, RequestStep
<1>9. /\ page' \in [session : Sessions \cup {None}, transferring : BOOLEAN, timer : 0..Beat]
      /\ page'.session = page.session /\ page'.timer = page.timer
  <2>1. page' = page \/ page' = [page EXCEPT !.transferring = TRUE]
    BY DEF ExportDocument
  <2> QED
    BY <1>1, <2>1 DEF Types
<1>10. Types'
  BY <1>1, <1>2, <1>8, <1>9, RequestTypes DEF Types
<1>11. KnownInv'
  BY <1>1, <1>2, <1>8, <1>9, KnownStep DEF LabInv
<1>12. KeptInv'
  <2>1. page.session # None => page.session \in Sessions
    BY <1>1 DEF Types
  <2> QED
    BY <1>1, <1>2, <1>8, <1>9, <2>1, KeptStep DEF LabInv
<1> QED
  BY <1>8, <1>10, <1>11, <1>12 DEF LabInv
-----------------------------------------------------------------------------
(* An upload                                                               *)

(* What every step of upload u does, about session s.                      *)
ServeEffect(u, s) ==
  /\ upload[u].session = s /\ upload[u].pc # "idle"
  /\ up' = up /\ UNCHANGED <<saved, process, browser>>
  /\ session' \in [Sessions -> SessionType] /\ dir' \in [Sessions -> DirType]
  /\ sinceSweep' \in 0..Interval /\ upload' \in [Uploads -> UploadType]
  /\ up \/ \A t \in Sessions : session'[t].status # "open"
  /\ \A t \in Sessions : Quiet(t) \/ Served(t) \/ Written(t)
  /\ \A t \in Sessions : Patient(t, session'[t])
  /\ \A t \in Sessions : t # s /\ session'[t].status = "open" => SameView(t)
  /\ \A v \in Uploads : v # u => upload'[v] = upload[v]
  /\ upload'[u].session = s /\ upload'[u].pc # "idle"
  /\ upload'[u].pc \in {"parsing", "applying"} => upload'[u].todo # <<>>
  /\ upload'[u].pc # "done" \/ session'[s].status = "open"
  /\ \/ upload'[u].todo = upload[u].todo
     \/ upload[u].todo # <<>> /\ upload'[u].todo = Tail(upload[u].todo)

(* It preserves the invariant when s, if it is still open, is tidy then.   *)
LEMMA ServeStep ==
  ASSUME LabInv, NEW u \in Uploads, NEW s \in Sessions, ServeEffect(u, s),
         session'[s].status = "open" => Tidy(s)'
  PROVE  LabInv'
<1> USE DEF ServeEffect
<1>0. Types
  BY DEF LabInv
<1>1. page' = page /\ wire' = wire /\ missed' = missed /\ saved' = saved
      /\ starts' = starts /\ s # None
  BY Limits DEF browser, process
<1>2. Types'
  <2>1. DirsMatch'
    BY <1>0, DirsKept
  <2>2. \A v \in Uploads : upload'[v].pc \in {"parsing", "applying"} => upload'[v].todo # <<>>
    BY <1>0 DEF Types
  <2> QED
    BY <1>0, <1>1, <2>1, <2>2 DEF Types
<1>3. KnownInv'
  <2>1. up' \/ starts' < MaxStarts
    BY <1>1 DEF LabInv, KnownInv
  <2> QED
    BY <1>0, <1>1, <2>1, KnownStep DEF LabInv
<1>4. KeptInv'
  <2>1. page.session # None => page.session \in Sessions
    BY <1>0 DEF Types
  <2> QED
    BY <1>0, <1>1, <2>1, KeptStep DEF LabInv
<1>5. upload[u].todo \in Seq(Documents)
  BY <1>0 DEF Types, UploadType
<1>6. /\ \A d \in ToSet(upload'[u].todo) : d \in ToSet(upload[u].todo)
      /\ \A i, j \in DOMAIN upload'[u].todo :
           upload'[u].todo[i] = upload'[u].todo[j] => i = j
  <2>1. \A i, j \in DOMAIN upload[u].todo : upload[u].todo[i] = upload[u].todo[j] => i = j
    BY DEF LabInv, TodoInv
  <2>2. CASE upload'[u].todo = upload[u].todo
    BY <2>1, <2>2
  <2>3. CASE upload[u].todo # <<>> /\ upload'[u].todo = Tail(upload[u].todo)
    BY <1>5, <2>1, <2>3, TodoParts
  <2> QED
    BY <2>2, <2>3
<1>7. TodoInv'
  <2>1. ASSUME NEW v \in Uploads
        PROVE  /\ \A d \in ToSet(upload'[v].todo) : d <= saved'
               /\ \A i, j \in DOMAIN upload'[v].todo :
                    upload'[v].todo[i] = upload'[v].todo[j] => i = j
    BY <1>1, <1>6 DEF LabInv, TodoInv
  <2>2. \A v \in Uploads : \A d \in ToSet(upload'[v].todo) : d \in ToSet(upload[v].todo)
    BY <1>6
  <2>3. ASSUME NEW v \in Uploads, NEW w \in Uploads,
               NEW d \in ToSet(upload'[v].todo), d \in ToSet(upload'[w].todo)
        PROVE  v = w
    BY <2>2, <2>3 DEF LabInv, TodoInv
  <2> QED
    BY <2>1, <2>3 DEF TodoInv
<1>8. ASSUME NEW t \in Sessions, session'[t].status = "open"
      PROVE  Tidy(t)'
  <2>1. CASE t = s
    BY <1>8, <2>1
  <2>2. CASE t # s
    <3>1. SameView(t) /\ Tidy(t)
      BY <1>8, <2>2 DEF SameView, LabInv, TidyInv
    <3>2. saved' \in Nat /\ saved <= saved'
      BY <1>0, <1>1, Limits DEF Types
    <3>3. \A v \in Uploads :
            \/ upload'[v] = upload[v]
            \/ /\ upload[v].session # t /\ upload'[v].session # t
               /\ \A d \in ToSet(upload'[v].todo) :
                    d \in ToSet(upload[v].todo) \/ (d \in Nat /\ d > saved)
      BY <1>6, <2>2
    <3> QED
      BY <1>0, <3>1, <3>2, <3>3, TidyElsewhere
  <2> QED
    BY <2>1, <2>2
<1>9. TidyInv'
  BY <1>8 DEF TidyInv, Open
<1>10. LeftInv'
  <2>1. ASSUME NEW v \in Uploads, upload[v].pc \notin {"idle", "done"}
        PROVE  /\ upload'[v].session = upload[v].session
               /\ \/ upload'[v].pc \notin {"idle", "done"}
                  \/ session'[upload[v].session].status = "open"
    BY <2>1
  <2> QED
    BY <1>0, <2>1, LeftStep DEF LabInv
<1> QED
  BY <1>2, <1>3, <1>4, <1>7, <1>9, <1>10 DEF LabInv

(* What LabInv says of the document an upload comes to next.               *)
LEMMA NextDocument ==
  ASSUME LabInv, NEW u \in Uploads, Active(u), upload[u].todo # <<>>
  PROVE  /\ upload[u].session \in Sessions /\ Head(upload[u].todo) \in Documents
         /\ upload[u] \in UploadType /\ upload[u].todo \in Seq(Documents)
         /\ Head(upload[u].todo) \in ToSet(upload[u].todo)
         /\ Head(upload[u].todo) <= saved
         /\ Head(upload[u].todo) \notin ToSet(Tail(upload[u].todo))
         /\ \A v \in Uploads : Head(upload[u].todo) \in ToSet(upload[v].todo) => v = u
         /\ upload[u].session \in Open =>
              /\ session[upload[u].session].docs[Head(upload[u].todo)].status \in
                   Unfinished \cup {"cancelled"}
              /\ ~session[upload[u].session].docs[Head(upload[u].todo)].report
         /\ \A t \in Open :
              session[t].docs[Head(upload[u].todo)].status # "none" => t = upload[u].session
<1> DEFINE d == Head(upload[u].todo)
           s == upload[u].session
<1>1. upload[u] \in UploadType /\ upload[u].todo \in Seq(Documents)
  BY DEF LabInv, Types, UploadType
<1>2. s \in Sessions
  BY <1>1 DEF LabInv, KnownInv, UploadType
<1>3. \A i, j \in DOMAIN upload[u].todo : upload[u].todo[i] = upload[u].todo[j] => i = j
  BY DEF LabInv, TodoInv
<1>4. d \in Documents /\ d \in ToSet(upload[u].todo) /\ d \notin ToSet(Tail(upload[u].todo))
  BY <1>1, <1>3, TodoParts
<1>5. d <= saved /\ \A v \in Uploads : d \in ToSet(upload[v].todo) => v = u
  BY <1>4 DEF LabInv, TodoInv
<1>6. s \in Open => session[s].docs[d].status \in Unfinished \cup {"cancelled"}
                    /\ ~session[s].docs[d].report
  BY <1>4 DEF LabInv, TidyInv, Tidy, DocsOf
<1>7. \A t \in Open : session[t].docs[d].status # "none" => t = s
  BY <1>4 DEF LabInv, TidyInv, Tidy, DocsOf
<1> QED
  BY <1>1, <1>2, <1>4, <1>5, <1>6, <1>7

(* An upload that answers has nothing left to do.                          *)
LEMMA AnswerUploadPreserves ==
  ASSUME LabInv, NEW u \in Uploads, AnswerUpload(u)
  PROVE  LabInv'
<1>1. Types /\ upload[u] \in UploadType
  BY DEF LabInv, Types
<1>2. PICK s \in Sessions : upload[u].session = s
  BY <1>1 DEF AnswerUpload, LabInv, KnownInv, Active, UploadType
<1>3. /\ up /\ upload[u].pc = "loop" /\ upload[u].todo = <<>> /\ LookUp(s)
      /\ upload' = [upload EXCEPT ![u].pc = IF Found(s) THEN "done" ELSE "raised"]
      /\ UNCHANGED <<saved, process, browser>> /\ up' = up
  BY <1>2 DEF AnswerUpload, process
<1>4. /\ session[s].docs \in [Documents -> [status : Statuses \cup {"none", "late"},
                                           report : BOOLEAN]]
      /\ dir[s].files \in Files /\ GetSession(s, session[s].docs, dir[s].files)
  BY <1>1, <1>2, <1>3, DocsType DEF LookUp
<1>5. /\ session' \in [Sessions -> SessionType] /\ dir' \in [Sessions -> DirType]
      /\ sinceSweep' \in 0..Interval
      /\ \A t \in Sessions : Patient(t, session'[t])
      /\ \A t \in Sessions : (t # s \/ ~Found(s)) => Quiet(t)
      /\ Found(s) => /\ Served(s) /\ session'[s].docs = session[s].docs
                     /\ dir'[s].files = dir[s].files
      /\ ~Found(s) => session'[s].status # "open"
  BY <1>1, <1>2, <1>4, GetSessionEffect
<1>6. /\ upload' \in [Uploads -> UploadType]
      /\ \A v \in Uploads : v # u => upload'[v] = upload[v]
      /\ upload'[u].session = s /\ upload'[u].todo = <<>>
      /\ upload'[u].pc = (IF Found(s) THEN "done" ELSE "raised")
      /\ upload'[u].refused = upload[u].refused
  BY <1>1, <1>2, <1>3 DEF Types, UploadType
<1>7. ASSUME session'[s].status = "open"
      PROVE  Tidy(s)'
  <2>1. s \in Open /\ SameView(s)
    BY <1>5, <1>7 DEF Found, SameView
  <2>2. Tidy(s)
    BY <2>1 DEF LabInv, TidyInv
  <2>3. session'[s].docs = session[s].docs /\ dir'[s].files = dir[s].files
    BY <2>1 DEF SameView
  <2>4. saved' = saved /\ \A d : d \notin ToSet(upload'[u].todo) /\ d \notin ToSet(upload[u].todo)
    BY <1>3, <1>6 DEF ToSet
  <2>5. DocsOf(s)'
    <3>1. ASSUME NEW d \in Documents, NEW v \in Uploads, d \in ToSet(upload'[v].todo)
          PROVE  /\ session[s].docs[d].status # "none" => upload'[v].session = s
                 /\ Active(v)' /\ upload'[v].session = s =>
                      /\ session[s].docs[d].status \in Unfinished \cup {"cancelled"}
                      /\ ~session[s].docs[d].report
      BY <1>6, <2>2, <2>4, <3>1 DEF Tidy, DocsOf, Active
    <3>2. \A d \in Documents :
            /\ session[s].docs[d].status # "none" => d <= saved
            /\ session[s].docs[d].status = "none" => ~session[s].docs[d].report
      BY <2>2 DEF Tidy, DocsOf
    <3> QED
      BY <2>3, <2>4, <3>1, <3>2 DEF DocsOf, Unfinished
  <2>6. AttendedOf(s)'
    <3> SUFFICES ASSUME NEW d \in Documents, session[s].docs[d].status \in Unfinished
                 PROVE  \E v \in Uploads : Works(v, s)' /\ d \in ToSet(upload'[v].todo)
      BY <2>3 DEF AttendedOf, Unfinished
    <3>1. PICK v \in Uploads : Works(v, s) /\ d \in ToSet(upload[v].todo)
      BY <2>2 DEF Tidy, AttendedOf
    <3>2. upload'[v] = upload[v]
      BY <1>6, <2>4, <3>1
    <3> QED
      BY <2>3, <3>1, <3>2 DEF Works, StoppedShort, Active
  <2>7. ReportsOf(s)'
    <3>1. ASSUME NEW d \in Documents, NEW v \in Uploads
          PROVE  Reporting(v, s, d)' <=> Reporting(v, s, d)
      BY <1>3, <1>6 DEF Reporting
    <3>2. ASSUME NEW d \in Documents
          PROVE  Processing(d)' <=> Processing(d)
      BY <1>3, <1>6 DEF Processing
    <3>3. ASSUME NEW d \in Documents
          PROVE  /\ session[s].docs[d].status = "completed" => <<"report", d>> \in dir[s].files
                 /\ <<"report", d>> \in dir[s].files =>
                      session[s].docs[d].report \/ (\E v \in Uploads : Reporting(v, s, d)')
                 /\ session[s].docs[d].status = "cancelled" /\ ~Processing(d)' =>
                      \A f \in dir[s].files : f[2] = d => f = <<"zip", d>>
                 /\ \A v \in Uploads : Reporting(v, s, d)' => <<"report", d>> \in dir[s].files
      BY <2>2, <3>1, <3>2 DEF Tidy, ReportsOf
    <3> QED
      BY <2>3, <3>3 DEF ReportsOf
  <2> QED
    BY <2>5, <2>6, <2>7 DEF Tidy
<1>8. \A t \in Sessions : t # s /\ session'[t].status = "open" => SameView(t)
  BY <1>5 DEF Quiet, QuietTo, SameView, Open
<1>9. /\ \A t \in Sessions : Quiet(t) \/ Served(t) \/ Written(t)
      /\ upload[u].pc # "idle" /\ upload'[u].pc # "idle"
      /\ upload'[u].pc \in {"parsing", "applying"} => upload'[u].todo # <<>>
      /\ upload'[u].pc # "done" \/ session'[s].status = "open"
      /\ \/ upload'[u].todo = upload[u].todo
         \/ upload[u].todo # <<>> /\ upload'[u].todo = Tail(upload[u].todo)
      /\ up \/ \A t \in Sessions : session'[t].status # "open"
  BY <1>3, <1>5, <1>6 DEF Served
<1>10. UNCHANGED <<saved, process, browser>> /\ up' = up
  BY <1>3
<1>11. /\ session' \in [Sessions -> SessionType] /\ dir' \in [Sessions -> DirType]
       /\ sinceSweep' \in 0..Interval /\ upload' \in [Uploads -> UploadType]
       /\ \A t \in Sessions : Patient(t, session'[t])
       /\ \A v \in Uploads : v # u => upload'[v] = upload[v]
       /\ upload'[u].session = s
  BY <1>5, <1>6
<1>12. ServeEffect(u, s)
  BY <1>2, <1>8, <1>9, <1>10, <1>11 DEF ServeEffect
<1> QED
  BY <1>7, <1>12, ServeStep

(* The next document is processed, or the upload ends on a removed one.    *)
LEMMA StartDocumentPreserves ==
  ASSUME LabInv, NEW u \in Uploads, StartDocument(u)
  PROVE  LabInv'
<1>1. Types /\ Active(u) /\ upload[u].todo # <<>>
  BY DEF LabInv, StartDocument, Active
<1>2. PICK s \in Sessions, d \in Documents :
        /\ upload[u].session = s /\ Head(upload[u].todo) = d
        /\ upload[u] \in UploadType /\ d \in ToSet(upload[u].todo)
        /\ \A v \in Uploads : d \in ToSet(upload[v].todo) => v = u
        /\ s \in Open => session[s].docs[d].status \in Unfinished \cup {"cancelled"}
                         /\ ~session[s].docs[d].report
  BY <1>1, NextDocument
<1> DEFINE docs == IF Listed(s, d) THEN [session[s].docs EXCEPT ![d].status = "building_scene"]
                   ELSE session[s].docs
           goes == Found(s) /\ Listed(s, d)
<1>3. /\ up /\ upload[u].pc = "loop" /\ GetSession(s, docs, dir[s].files)
      /\ upload' = [upload EXCEPT ![u].pc = IF goes THEN "parsing" ELSE "raised"]
      /\ UNCHANGED <<saved, process, browser>> /\ up' = up
  BY <1>2 DEF StartDocument, process
<1>4. session[s].docs \in [Documents -> [status : Statuses \cup {"none", "late"},
                                        report : BOOLEAN]]
      /\ dir[s].files \in Files
  BY <1>1, DocsType
<1>5. /\ docs \in [Documents -> [status : Statuses \cup {"none", "late"}, report : BOOLEAN]]
      /\ Listed(s, d) => docs[d].status = "building_scene"
                         /\ docs[d].report = session[s].docs[d].report
      /\ \A e \in Documents : e # d \/ ~Listed(s, d) => docs[e] = session[s].docs[e]
  BY <1>4 DEF Statuses, Unfinished
<1> HIDE DEF docs
<1>6. /\ session' \in [Sessions -> SessionType] /\ dir' \in [Sessions -> DirType]
      /\ sinceSweep' \in 0..Interval
      /\ \A t \in Sessions : Patient(t, session'[t])
      /\ \A t \in Sessions : (t # s \/ ~Found(s)) => Quiet(t)
      /\ Found(s) => Served(s) /\ session'[s].docs = docs /\ dir'[s].files = dir[s].files
      /\ ~Found(s) => session'[s].status # "open"
  BY <1>1, <1>3, <1>4, <1>5, GetSessionEffect
<1>7. /\ upload' \in [Uploads -> UploadType]
      /\ \A v \in Uploads : v # u => upload'[v] = upload[v]
      /\ upload'[u].session = s /\ upload'[u].todo = upload[u].todo
      /\ upload'[u].pc = (IF goes THEN "parsing" ELSE "raised")
      /\ upload'[u].refused = upload[u].refused
  BY <1>1, <1>2, <1>3 DEF Types, UploadType
<1>8. ASSUME session'[s].status = "open"
      PROVE  Tidy(s)'
  <2>1. /\ Found(s) /\ s \in Open /\ Tidy(s) /\ session'[s].docs = docs
        /\ dir'[s].files = dir[s].files /\ saved' = saved
    BY <1>3, <1>6, <1>8 DEF Found, LabInv, TidyInv
  <2>2. /\ Listed(s, d) => session[s].docs[d].status \in Unfinished
        /\ ~Listed(s, d) => session[s].docs[d].status = "cancelled"
    BY <1>2, <2>1 DEF Listed, Statuses, Unfinished
  <2>3. \A v \in Uploads : /\ upload'[v].todo = upload[v].todo
                           /\ upload'[v].session = upload[v].session
                           /\ upload'[v].refused = upload[v].refused
                           /\ Active(v)' => Active(v)
    BY <1>1, <1>2, <1>7 DEF Active
  <2>4. DocsOf(s)'
    <3> SUFFICES ASSUME NEW e \in Documents
                 PROVE  /\ docs[e].status # "none" => e <= saved
                        /\ docs[e].status = "none" => ~docs[e].report
                        /\ \A v \in Uploads : e \in ToSet(upload[v].todo) =>
                             /\ docs[e].status # "none" => upload[v].session = s
                             /\ Active(v) /\ upload[v].session = s =>
                                  /\ docs[e].status \in Unfinished \cup {"cancelled"}
                                  /\ ~docs[e].report
      BY <2>1, <2>3 DEF DocsOf, Unfinished
    <3>1. /\ session[s].docs[e].status # "none" => e <= saved
          /\ session[s].docs[e].status = "none" => ~session[s].docs[e].report
          /\ \A v \in Uploads : e \in ToSet(upload[v].todo) =>
               /\ session[s].docs[e].status # "none" => upload[v].session = s
               /\ Active(v) /\ upload[v].session = s =>
                    /\ session[s].docs[e].status \in Unfinished \cup {"cancelled"}
                    /\ ~session[s].docs[e].report
      BY <2>1 DEF Tidy, DocsOf
    <3>2. CASE e = d /\ Listed(s, d)
      BY <1>2, <1>5, <2>1, <2>2, <3>1, <3>2 DEF Unfinished
    <3>3. CASE ~(e = d /\ Listed(s, d))
      <4>1. docs[e] = session[s].docs[e]
        BY <1>5, <3>3
      <4> QED
        BY <3>1, <4>1
    <3> QED
      BY <3>2, <3>3
  <2>5. AttendedOf(s)'
    <3> SUFFICES ASSUME NEW e \in Documents, docs[e].status \in Unfinished
                 PROVE  \E v \in Uploads : Works(v, s)' /\ e \in ToSet(upload'[v].todo)
      BY <2>1 DEF AttendedOf, Unfinished
    <3>1. session[s].docs[e].status \in Unfinished
      BY <1>5, <2>2
    <3>2. PICK v \in Uploads : Works(v, s) /\ e \in ToSet(upload[v].todo)
      BY <2>1, <3>1 DEF Tidy, AttendedOf
    <3>3. Head(upload[v].todo) \in Documents
      BY <1>1, <3>2, HeadIsThere DEF Types, UploadType
    <3>4. ASSUME NEW f \in Documents, session[s].docs[f].status = "cancelled"
          PROVE  docs[f].status = "cancelled"
      BY <1>5, <2>2, <3>4 DEF Unfinished
    <3>5. Works(v, s)'
      <4>1. CASE v = u
        <5>1. CASE goes
          BY <1>7, <4>1, <5>1 DEF Works, StoppedShort, Active
        <5>2. CASE ~goes
          <6>1. docs[d].status = "cancelled"
            BY <1>5, <2>1, <2>2, <5>2
          <6>2. upload'[u].pc = "raised" /\ Head(upload'[u].todo) = d
            BY <1>2, <1>7, <5>2
          <6> QED
            BY <1>2, <1>7, <2>1, <4>1, <6>1, <6>2 DEF Works, StoppedShort
        <5> QED
          BY <5>1, <5>2
      <4>2. CASE v # u
        BY <1>7, <2>1, <3>2, <3>3, <3>4, <4>2 DEF Works, StoppedShort, Active
      <4> QED
        BY <4>1, <4>2
    <3> QED
      BY <2>3, <3>2, <3>5
  <2>6. ReportsOf(s)'
    <3>1. ASSUME NEW e \in Documents, NEW v \in Uploads
          PROVE  Reporting(v, s, e)' <=> Reporting(v, s, e)
      BY <1>3, <1>7 DEF Reporting
    <3>2. ASSUME NEW e \in Documents, Processing(e)
          PROVE  Processing(e)'
      <4>1. PICK v \in Uploads : /\ upload[v].pc \in {"parsing", "applying"}
                                 /\ Head(upload[v].todo) = e
        BY <3>2 DEF Processing
      <4>2. v # u
        BY <1>3, <4>1
      <4> QED
        BY <1>7, <4>1, <4>2 DEF Processing
    <3>3. ASSUME NEW e \in Documents
          PROVE  /\ docs[e].status = "completed" => <<"report", e>> \in dir[s].files
                 /\ <<"report", e>> \in dir[s].files =>
                      docs[e].report \/ (\E v \in Uploads : Reporting(v, s, e)')
                 /\ docs[e].status = "cancelled" /\ ~Processing(e)' =>
                      \A f \in dir[s].files : f[2] = e => f = <<"zip", e>>
                 /\ \A v \in Uploads : Reporting(v, s, e)' => <<"report", e>> \in dir[s].files
      <4>1. /\ session[s].docs[e].status = "completed" => <<"report", e>> \in dir[s].files
            /\ <<"report", e>> \in dir[s].files =>
                 session[s].docs[e].report \/ (\E v \in Uploads : Reporting(v, s, e)')
            /\ session[s].docs[e].status = "cancelled" /\ ~Processing(e)' =>
                 \A f \in dir[s].files : f[2] = e => f = <<"zip", e>>
            /\ \A v \in Uploads : Reporting(v, s, e)' => <<"report", e>> \in dir[s].files
        BY <2>1, <3>1, <3>2 DEF Tidy, ReportsOf
      <4>2. /\ docs[e].status = session[s].docs[e].status \/ docs[e].status = "building_scene"
            /\ docs[e].report = session[s].docs[e].report
        BY <1>5
      <4> QED
        BY <4>1, <4>2
    <3> QED
      BY <2>1, <3>3 DEF ReportsOf
  <2> QED
    BY <2>4, <2>5, <2>6 DEF Tidy
<1>9. \A t \in Sessions : t # s /\ session'[t].status = "open" => SameView(t)
  BY <1>6 DEF Quiet, QuietTo, SameView, Open
<1>10. /\ \A t \in Sessions : Quiet(t) \/ Served(t) \/ Written(t)
       /\ upload[u].pc # "idle" /\ upload'[u].pc # "idle"
       /\ upload'[u].pc \in {"parsing", "applying"} => upload'[u].todo # <<>>
       /\ upload'[u].pc # "done" \/ session'[s].status = "open"
       /\ \/ upload'[u].todo = upload[u].todo
          \/ upload[u].todo # <<>> /\ upload'[u].todo = Tail(upload[u].todo)
       /\ up \/ \A t \in Sessions : session'[t].status # "open"
  BY <1>1, <1>3, <1>6, <1>7
<1>11. UNCHANGED <<saved, process, browser>> /\ up' = up
  BY <1>3
<1>12. /\ session' \in [Sessions -> SessionType] /\ dir' \in [Sessions -> DirType]
       /\ sinceSweep' \in 0..Interval /\ upload' \in [Uploads -> UploadType]
       /\ \A t \in Sessions : Patient(t, session'[t])
       /\ \A v \in Uploads : v # u => upload'[v] = upload[v]
       /\ upload'[u].session = s
  BY <1>6, <1>7
<1>13. upload[u].session = s
  BY <1>2
<1>14. ServeEffect(u, s)
  BY <1>9, <1>10, <1>11, <1>12, <1>13 DEF ServeEffect
<1> QED
  BY <1>8, <1>14, ServeStep

(* A report is written for the document that is processed.                 *)
LEMMA WriteReportPreserves ==
  ASSUME LabInv, NEW u \in Uploads, WriteReport(u)
  PROVE  LabInv'
<1>1. Types /\ Active(u) /\ upload[u].todo # <<>> /\ upload[u].pc = "parsing" /\ up
  BY DEF LabInv, Types, WriteReport, Active
<1>2. PICK s \in Sessions, d \in Documents :
        /\ upload[u].session = s /\ Head(upload[u].todo) = d
        /\ upload[u] \in UploadType /\ d \in ToSet(upload[u].todo)
        /\ \A v \in Uploads : d \in ToSet(upload[v].todo) => v = u
        /\ s \in Open => session[s].docs[d].status \in Unfinished \cup {"cancelled"}
                         /\ ~session[s].docs[d].report
  BY <1>1, NextDocument
<1>3. PICK outcome \in {"completed", "failed", "raised"} :
       /\ upload' = [upload EXCEPT ![u].pc = "applying", ![u].outcome = outcome]
       /\ dir' = IF outcome = "raised" THEN dir
                 ELSE [dir EXCEPT ![s].there = TRUE,
                                  ![s].files = IF s \in Open
                                               THEN @ \cup {<<"report", d>>} ELSE @]
  BY <1>2 DEF WriteReport
<1>4. /\ session' = session /\ sinceSweep' = sinceSweep /\ up' = up
      /\ UNCHANGED <<saved, process, browser>>
  BY DEF WriteReport, process
<1>5. /\ upload' \in [Uploads -> UploadType]
      /\ \A v \in Uploads : v # u => upload'[v] = upload[v]
      /\ upload'[u].session = s /\ upload'[u].todo = upload[u].todo
      /\ upload'[u].pc = "applying" /\ upload'[u].outcome = outcome
      /\ upload'[u].refused = upload[u].refused
  BY <1>1, <1>2, <1>3 DEF Types, UploadType
<1>6. /\ dir' \in [Sessions -> DirType]
      /\ \A t \in Sessions : t # s => dir'[t] = dir[t]
      /\ outcome = "raised" => dir'[s] = dir[s]
      /\ outcome # "raised" =>
           /\ dir'[s].there
           /\ dir'[s].files = IF s \in Open THEN dir[s].files \cup {<<"report", d>>}
                              ELSE dir[s].files
  <2>1. dir \in [Sessions -> DirType] /\ dir[s] \in DirType
    BY <1>1 DEF Types
  <2>2. dir[s].files \cup {<<"report", d>>} \in Files
    BY <2>1 DEF DirType, Files
  <2>3. CASE outcome = "raised"
    BY <1>3, <2>1, <2>3
  <2>4. CASE outcome # "raised"
    <3> DEFINE files == IF s \in Open THEN dir[s].files \cup {<<"report", d>>}
                        ELSE dir[s].files
    <3>1. files \in Files
      BY <2>1, <2>2 DEF DirType
    <3>2. dir' = [dir EXCEPT ![s] = [dir[s] EXCEPT !.there = TRUE, !.files = files]]
      BY <1>3, <2>1, <2>4 DEF DirType
    <3> HIDE DEF files
    <3>3. /\ [dir[s] EXCEPT !.there = TRUE, !.files = files] \in DirType
          /\ [dir[s] EXCEPT !.there = TRUE, !.files = files].there
          /\ [dir[s] EXCEPT !.there = TRUE, !.files = files].files = files
      BY <2>1, <3>1 DEF DirType
    <3>4. dir'[s].there /\ dir'[s].files = files /\ dir' \in [Sessions -> DirType]
          /\ \A t \in Sessions : t # s => dir'[t] = dir[t]
      BY <2>1, <3>2, <3>3
    <3> QED
      BY <2>4, <3>4 DEF files
  <2> QED
    BY <2>3, <2>4
<1>7. ASSUME s \in Open
      PROVE  Tidy(s)'
  <2>1. /\ Tidy(s) /\ session'[s].docs = session[s].docs /\ saved' = saved
        /\ session[s].docs[d].status \in Unfinished \cup {"cancelled"}
        /\ ~session[s].docs[d].report
    BY <1>2, <1>4, <1>7 DEF LabInv, TidyInv
  <2>2. \A v \in Uploads : /\ upload'[v].todo = upload[v].todo
                           /\ upload'[v].session = upload[v].session
                           /\ upload'[v].refused = upload[v].refused
                           /\ Active(v)' <=> Active(v)
                           /\ upload[v].pc = "raised" => upload'[v].pc = "raised"
    BY <1>1, <1>2, <1>5 DEF Active
  <2>3. DocsOf(s)'
    BY <2>1, <2>2 DEF Tidy, DocsOf, Unfinished
  <2>4. AttendedOf(s)'
    BY <2>1, <2>2 DEF Tidy, AttendedOf, Works, StoppedShort, Unfinished
  <2>5. ReportsOf(s)'
    <3>1. ASSUME NEW e \in Documents, NEW v \in Uploads
          PROVE  Reporting(v, s, e)' <=>
                   Reporting(v, s, e) \/ (v = u /\ e = d /\ outcome # "raised")
      <4>1. CASE v = u
        BY <1>1, <1>2, <1>5, <4>1 DEF Reporting
      <4>2. CASE v # u
        BY <1>5, <4>2 DEF Reporting
      <4> QED
        BY <4>1, <4>2
    <3>2. ASSUME NEW e \in Documents
          PROVE  Processing(e)' <=> Processing(e)
      BY <1>1, <1>5 DEF Processing
    <3>3. Processing(d)
      BY <1>1, <1>2 DEF Processing
    <3>4. ASSUME NEW e \in Documents
          PROVE  /\ session[s].docs[e].status = "completed" => <<"report", e>> \in dir'[s].files
                 /\ <<"report", e>> \in dir'[s].files =>
                      session[s].docs[e].report \/ (\E v \in Uploads : Reporting(v, s, e)')
                 /\ session[s].docs[e].status = "cancelled" /\ ~Processing(e)' =>
                      \A f \in dir'[s].files : f[2] = e => f = <<"zip", e>>
                 /\ \A v \in Uploads : Reporting(v, s, e)' => <<"report", e>> \in dir'[s].files
      <4>1. /\ session[s].docs[e].status = "completed" => <<"report", e>> \in dir[s].files
            /\ <<"report", e>> \in dir[s].files =>
                 session[s].docs[e].report \/ (\E v \in Uploads : Reporting(v, s, e))
            /\ session[s].docs[e].status = "cancelled" /\ ~Processing(e) =>
                 \A f \in dir[s].files : f[2] = e => f = <<"zip", e>>
            /\ \A v \in Uploads : Reporting(v, s, e) => <<"report", e>> \in dir[s].files
        BY <2>1 DEF Tidy, ReportsOf
      <4>2. dir'[s].files = IF outcome = "raised" THEN dir[s].files
                            ELSE dir[s].files \cup {<<"report", d>>}
        BY <1>6, <1>7
      <4>3. CASE outcome = "raised"
        BY <3>1, <3>2, <4>1, <4>2, <4>3
      <4>4. CASE outcome # "raised" /\ e = d
        <5>1. <<"report", d>> \in dir'[s].files /\ Reporting(u, s, d)'
          BY <3>1, <4>2, <4>4
        <5> QED
          BY <3>2, <3>3, <4>4, <5>1
      <4>5. CASE outcome # "raised" /\ e # d
        <5>1. /\ <<"report", e>> \in dir'[s].files <=> <<"report", e>> \in dir[s].files
              /\ \A f \in dir'[s].files : f[2] = e => f \in dir[s].files
          BY <4>2, <4>5
        <5> QED
          BY <3>1, <3>2, <4>1, <4>5, <5>1
      <4> QED
        BY <4>3, <4>4, <4>5
    <3> QED
      BY <2>1, <3>4 DEF ReportsOf
  <2> QED
    BY <2>3, <2>4, <2>5 DEF Tidy
<1>8. \A t \in Sessions : t # s /\ session'[t].status = "open" => SameView(t)
  BY <1>4, <1>6 DEF SameView, Open
<1>9. \A t \in Sessions : Quiet(t) \/ Served(t) \/ Written(t)
  <2>1. ASSUME NEW t \in Sessions
        PROVE  Quiet(t) \/ Served(t) \/ Written(t)
    <3>1. CASE t = s /\ outcome # "raised"
      <4>1. dir'[s].files # {} => s \in Open
        BY <1>1, <1>6, <3>1 DEF Types, DirsMatch
      <4> QED
        BY <1>4, <1>5, <1>6, <3>1, <4>1 DEF Written
    <3>2. CASE ~(t = s /\ outcome # "raised")
      BY <1>4, <1>6, <3>2 DEF Quiet, QuietTo
    <3> QED
      BY <3>1, <3>2
  <2> QED
    BY <2>1
<1>10. /\ upload[u].pc # "idle" /\ upload'[u].pc # "idle"
       /\ upload'[u].pc \in {"parsing", "applying"} => upload'[u].todo # <<>>
       /\ upload'[u].pc # "done" \/ session'[s].status = "open"
       /\ \/ upload'[u].todo = upload[u].todo
          \/ upload[u].todo # <<>> /\ upload'[u].todo = Tail(upload[u].todo)
       /\ up \/ \A t \in Sessions : session'[t].status # "open"
       /\ session'[s].status = "open" => Tidy(s)'
  BY <1>1, <1>4, <1>5, <1>7 DEF Open
<1>11. UNCHANGED <<saved, process, browser>> /\ up' = up
  BY <1>4
<1>12. /\ session' \in [Sessions -> SessionType] /\ dir' \in [Sessions -> DirType]
       /\ sinceSweep' \in 0..Interval /\ upload' \in [Uploads -> UploadType]
       /\ \A t \in Sessions : Patient(t, session'[t])
       /\ \A v \in Uploads : v # u => upload'[v] = upload[v]
       /\ upload'[u].session = s
  BY <1>1, <1>4, <1>5, <1>6 DEF Types, Patient, Open
<1>13. upload[u].session = s
  BY <1>2
<1>14. ServeEffect(u, s)
  BY <1>8, <1>9, <1>10, <1>11, <1>12, <1>13 DEF ServeEffect
<1> QED
  BY <1>10, <1>14, ServeStep

(* The document that was processed gets its result and its report.         *)
LEMMA ApplyResultPreserves ==
  ASSUME LabInv, NEW u \in Uploads, ApplyResult(u)
  PROVE  LabInv'
<1>1. Types /\ Active(u) /\ upload[u].todo # <<>> /\ upload[u].pc = "applying" /\ up
  BY DEF LabInv, Types, ApplyResult, Active
<1>2. PICK s \in Sessions, d \in Documents :
        /\ upload[u].session = s /\ Head(upload[u].todo) = d
        /\ upload[u] \in UploadType /\ d \in ToSet(upload[u].todo)
        /\ upload[u].todo \in Seq(Documents)
        /\ d \notin ToSet(Tail(upload[u].todo)) /\ d <= saved
        /\ \A v \in Uploads : d \in ToSet(upload[v].todo) => v = u
        /\ s \in Open => session[s].docs[d].status \in Unfinished \cup {"cancelled"}
                         /\ ~session[s].docs[d].report
        /\ \A t \in Open : session[t].docs[d].status # "none" => t = s
  <2>1. PICK s \in Sessions, d \in Documents :
          s = upload[u].session /\ d = Head(upload[u].todo)
    BY <1>1, NextDocument
  <2>2. /\ upload[u] \in UploadType /\ d \in ToSet(upload[u].todo)
        /\ upload[u].todo \in Seq(Documents)
        /\ d \notin ToSet(Tail(upload[u].todo)) /\ d <= saved
        /\ \A v \in Uploads : d \in ToSet(upload[v].todo) => v = u
    BY <1>1, <2>1, NextDocument
  <2>3. /\ s \in Open => session[s].docs[d].status \in Unfinished \cup {"cancelled"}
                           /\ ~session[s].docs[d].report
        /\ \A t \in Open : session[t].docs[d].status # "none" => t = s
    BY <1>1, <2>1, NextDocument
  <2> QED
    BY <2>1, <2>2, <2>3
<1>3. PICK outcome \in {"none", "completed", "failed", "raised"} :
        outcome = upload[u].outcome
  BY <1>2 DEF UploadType
<1> DEFINE result == IF session[s].docs[d].status = "cancelled" THEN "late"
                     ELSE IF outcome = "completed" THEN "completed" ELSE "failed"
           reported == outcome # "raised"
           docs == [session[s].docs EXCEPT ![d] = [status |-> result, report |-> reported]]
<1>4. /\ sinceSweep' = sinceSweep /\ dir' = dir /\ up' = up
      /\ UNCHANGED <<saved, process, browser>>
      /\ upload' = [upload EXCEPT ![u].pc = "loop", ![u].todo = Tail(@),
                                  ![u].outcome = "none"]
      /\ s \notin Open => session' = session
      /\ s \in Open =>
           session' = [session EXCEPT ![s] = Touched([session[s] EXCEPT !.docs = docs])]
  <2>1. /\ sinceSweep' = sinceSweep /\ dir' = dir /\ up' = up
        /\ UNCHANGED <<saved, process, browser>>
        /\ upload' = [upload EXCEPT ![u].pc = "loop", ![u].todo = Tail(@),
                                    ![u].outcome = "none"]
    BY DEF ApplyResult, process
  <2>2. s \notin Open => session' = session
    BY <1>2 DEF ApplyResult
  <2>3. s \in Open =>
          session' = [session EXCEPT ![s] = Touched([session[s] EXCEPT !.docs = docs])]
    BY <1>2, <1>3 DEF ApplyResult
  <2> QED
    BY <2>1, <2>2, <2>3
<1>5. /\ upload' \in [Uploads -> UploadType]
      /\ \A v \in Uploads : v # u => upload'[v] = upload[v]
      /\ upload'[u].session = s /\ upload'[u].todo = Tail(upload[u].todo)
      /\ upload'[u].pc = "loop" /\ upload'[u].refused = upload[u].refused
  <2>1. Tail(upload[u].todo) \in Seq(Documents)
    BY <1>1, <1>2, TodoParts
  <2> QED
    BY <1>1, <1>2, <1>4, <2>1 DEF Types, UploadType
<1>6. /\ session' \in [Sessions -> SessionType]
      /\ \A t \in Sessions : t # s \/ s \notin Open => session'[t] = session[t]
      /\ s \in Open => /\ session'[s].status = "open" /\ session'[s].idle = 0
                       /\ session'[s].docs[d].status = result
                       /\ session'[s].docs[d].report <=> outcome # "raised"
                       /\ \A e \in Documents \ {d} : session'[s].docs[e] = session[s].docs[e]
  <2>1. CASE s \notin Open
    BY <1>1, <1>4, <2>1 DEF Types
  <2>2. CASE s \in Open
    <3> DEFINE rec == [session[s] EXCEPT !.docs = docs]
    <3>1. /\ session \in [Sessions -> SessionType] /\ session[s] \in SessionType
          /\ session[s].status = "open"
          /\ session[s].docs \in [Documents -> [status : Statuses \cup {"none", "late"},
                                               report : BOOLEAN]]
      BY <1>1, <2>2, DocsType DEF Types, Open
    <3>2. result \in Statuses \cup {"none", "late"} /\ reported \in BOOLEAN
      BY DEF Statuses
    <3> HIDE DEF result, reported
    <3>3. [status |-> result, report |-> reported] \in
            [status : Statuses \cup {"none", "late"}, report : BOOLEAN]
      BY <3>2
    <3>4. /\ docs \in [Documents -> [status : Statuses \cup {"none", "late"},
                                     report : BOOLEAN]]
          /\ docs[d].status = result /\ docs[d].report = reported
          /\ \A e \in Documents \ {d} : docs[e] = session[s].docs[e]
      BY <3>1, <3>3
    <3> HIDE DEF docs
    <3>5. rec \in SessionType /\ rec.status = "open" /\ rec.docs = docs
      BY <3>1, <3>4 DEF SessionType
    <3>6. session' = [session EXCEPT ![s] = Touched(rec)]
      BY <1>4, <2>2
    <3> HIDE DEF rec
    <3>7. /\ Touched(rec) \in SessionType /\ Touched(rec).status = "open"
          /\ Touched(rec).docs = rec.docs /\ Touched(rec).idle = 0
      BY <3>5, Limits DEF Touched, SessionType
    <3>8. /\ session' \in [Sessions -> SessionType] /\ session'[s] = Touched(rec)
          /\ \A t \in Sessions : t # s => session'[t] = session[t]
      BY <3>1, <3>6, <3>7
    <3> QED
      BY <2>2, <3>4, <3>5, <3>7, <3>8 DEF reported
  <2> QED
    BY <2>1, <2>2
<1> HIDE DEF result, reported, docs
<1>7. ASSUME s \in Open
      PROVE  Tidy(s)'
  <2>1. /\ Tidy(s) /\ saved' = saved /\ dir' = dir
        /\ session[s].docs[d].status \in Unfinished \cup {"cancelled"}
        /\ ~session[s].docs[d].report
    BY <1>2, <1>4, <1>7 DEF LabInv, TidyInv
  <2>2. ASSUME NEW e \in Documents, NEW v \in Uploads
        PROVE  /\ e \in ToSet(upload'[v].todo) <=> e \in ToSet(upload[v].todo) /\ e # d
               /\ upload'[v].session = upload[v].session
               /\ upload'[v].refused = upload[v].refused
               /\ Active(v)' <=> Active(v)
    <3>1. CASE v = u
      BY <1>1, <1>2, <1>5, <3>1, TodoParts DEF Active
    <3>2. CASE v # u
      BY <1>2, <1>5, <3>2 DEF Active
    <3> QED
      BY <3>1, <3>2
  <2>3. result \in {"late", "completed", "failed"}
    BY DEF result
  <2>4. /\ session'[s].docs[d].status = result
        /\ session'[s].docs[d].report <=> outcome # "raised"
        /\ \A e \in Documents \ {d} : session'[s].docs[e] = session[s].docs[e]
    BY <1>6, <1>7
  <2>5. DocsOf(s)'
    <3>1. ASSUME NEW e \in Documents
          PROVE  /\ session'[s].docs[e].status # "none" => e <= saved
                 /\ session'[s].docs[e].status = "none" => ~session'[s].docs[e].report
      <4>1. CASE e = d
        BY <1>2, <2>3, <2>4, <4>1
      <4>2. CASE e # d
        BY <2>1, <2>4, <4>2 DEF Tidy, DocsOf
      <4> QED
        BY <4>1, <4>2
    <3>2. ASSUME NEW e \in Documents, NEW v \in Uploads, e \in ToSet(upload'[v].todo)
          PROVE  /\ session'[s].docs[e].status # "none" => upload'[v].session = s
                 /\ Active(v)' /\ upload'[v].session = s =>
                      /\ session'[s].docs[e].status \in Unfinished \cup {"cancelled"}
                      /\ ~session'[s].docs[e].report
      <4>1. e # d /\ e \in ToSet(upload[v].todo)
        BY <2>2, <3>2
      <4>2. session'[s].docs[e] = session[s].docs[e]
        BY <2>4, <4>1
      <4>3. /\ session[s].docs[e].status # "none" => upload[v].session = s
            /\ Active(v) /\ upload[v].session = s =>
                 /\ session[s].docs[e].status \in Unfinished \cup {"cancelled"}
                 /\ ~session[s].docs[e].report
        BY <2>1, <4>1 DEF Tidy, DocsOf
      <4> QED
        BY <2>2, <4>2, <4>3
    <3> QED
      BY <2>1, <3>1, <3>2 DEF DocsOf, Unfinished
  <2>6. AttendedOf(s)'
    <3> SUFFICES ASSUME NEW e \in Documents, session'[s].docs[e].status \in Unfinished
                 PROVE  \E v \in Uploads : Works(v, s)' /\ e \in ToSet(upload'[v].todo)
      BY DEF AttendedOf, Unfinished
    <3>1. e # d
      BY <2>3, <2>4 DEF Unfinished
    <3>2. session[s].docs[e].status \in Unfinished
      BY <2>4, <3>1
    <3>3. PICK v \in Uploads : Works(v, s) /\ e \in ToSet(upload[v].todo)
      BY <2>1, <3>2 DEF Tidy, AttendedOf
    <3>4. Works(v, s)'
      <4>1. CASE v = u
        BY <1>5, <4>1 DEF Works, StoppedShort, Active
      <4>2. CASE v # u
        <5>1. d \notin ToSet(upload[v].todo)
          BY <1>2, <4>2
        <5>2. ToSet(upload[v].todo) \subseteq Documents
          BY <1>1 DEF Types, UploadType, ToSet
        <5>3. \A f \in ToSet(upload[v].todo) : session'[s].docs[f] = session[s].docs[f]
          BY <2>4, <5>1, <5>2
        <5>4. Head(upload[v].todo) \in ToSet(upload[v].todo)
          BY <1>1, <3>3, HeadIsThere DEF Types, UploadType
        <5> QED
          BY <1>5, <3>3, <4>2, <5>3, <5>4 DEF Works, StoppedShort, Active
      <4> QED
        BY <4>1, <4>2
    <3> QED
      BY <2>2, <3>1, <3>3, <3>4
  <2>7. ReportsOf(s)'
    <3>1. ASSUME NEW e \in Documents, NEW v \in Uploads
          PROVE  Reporting(v, s, e)' <=> Reporting(v, s, e) /\ e # d
      <4>1. CASE v = u
        <5>1. ~Reporting(u, s, e)' /\ (Reporting(u, s, e) => e = d)
          BY <1>2, <1>5 DEF Reporting
        <5> QED
          BY <4>1, <5>1
      <4>2. CASE v # u
        <5>1. Reporting(v, s, e)' <=> Reporting(v, s, e)
          BY <1>5, <4>2 DEF Reporting
        <5>2. Reporting(v, s, e) => e # d
          BY <1>1, <1>2, <4>2, ReportingFacts
        <5> QED
          BY <5>1, <5>2
      <4> QED
        BY <4>1, <4>2
    <3>2. ASSUME NEW e \in Documents, e # d, Processing(e)
          PROVE  Processing(e)'
      <4>1. PICK v \in Uploads : /\ upload[v].pc \in {"parsing", "applying"}
                                 /\ Head(upload[v].todo) = e
        BY <3>2 DEF Processing
      <4>2. v # u
        BY <1>2, <3>2, <4>1
      <4> QED
        BY <1>5, <4>1, <4>2 DEF Processing
    <3>3. ASSUME NEW e \in Documents
          PROVE  /\ session[s].docs[e].status = "completed" => <<"report", e>> \in dir[s].files
                 /\ <<"report", e>> \in dir[s].files =>
                      session[s].docs[e].report \/ (\E v \in Uploads : Reporting(v, s, e))
                 /\ session[s].docs[e].status = "cancelled" /\ ~Processing(e) =>
                      \A f \in dir[s].files : f[2] = e => f = <<"zip", e>>
                 /\ \A v \in Uploads : Reporting(v, s, e) => <<"report", e>> \in dir[s].files
      BY <2>1 DEF Tidy, ReportsOf
    <3>4. Reporting(u, s, d) <=> outcome \in {"completed", "failed"}
      BY <1>1, <1>2, <1>3 DEF Reporting
    <3>5. \A v \in Uploads : Reporting(v, s, d) => v = u
      BY <1>1, <1>2, ReportingFacts
    <3>6. ASSUME NEW e \in Documents
          PROVE  /\ session'[s].docs[e].status = "completed" => <<"report", e>> \in dir[s].files
                 /\ <<"report", e>> \in dir[s].files =>
                      session'[s].docs[e].report \/ (\E v \in Uploads : Reporting(v, s, e)')
                 /\ session'[s].docs[e].status = "cancelled" /\ ~Processing(e)' =>
                      \A f \in dir[s].files : f[2] = e => f = <<"zip", e>>
                 /\ \A v \in Uploads : Reporting(v, s, e)' => <<"report", e>> \in dir[s].files
      <4>1. CASE e = d
        <5>1. session'[s].docs[d].status = "completed" => <<"report", d>> \in dir[s].files
          BY <2>4, <3>3, <3>4 DEF result
        <5>2. <<"report", d>> \in dir[s].files => session'[s].docs[d].report
          BY <2>1, <2>4, <3>3, <3>4, <3>5
        <5>3. session'[s].docs[d].status # "cancelled"
          BY <2>3, <2>4
        <5> QED
          BY <3>1, <4>1, <5>1, <5>2, <5>3
      <4>2. CASE e # d
        <5>1. session'[s].docs[e] = session[s].docs[e]
          BY <2>4, <4>2
        <5> QED
          BY <3>1, <3>2, <3>3, <4>2, <5>1
      <4> QED
        BY <4>1, <4>2
    <3> QED
      BY <2>1, <3>6 DEF ReportsOf
  <2> QED
    BY <2>5, <2>6, <2>7 DEF Tidy
<1>8. /\ \A t \in Sessions : t # s /\ session'[t].status = "open" => SameView(t)
      /\ \A t \in Sessions : Patient(t, session'[t])
  BY <1>4, <1>6 DEF SameView, Patient, Open
<1>9. ASSUME NEW t \in Sessions
      PROVE  Quiet(t) \/ Served(t) \/ Written(t)
  <2>1. CASE t = s /\ s \in Open
    BY <1>1, <1>4, <1>6, <2>1 DEF Types, DirsMatch, Served
  <2>2. CASE ~(t = s /\ s \in Open)
    BY <1>4, <1>6, <2>2 DEF Quiet, QuietTo
  <2> QED
    BY <2>1, <2>2
<1>10. ServeEffect(u, s)
  <2>1. sinceSweep' \in 0..Interval /\ dir' \in [Sessions -> DirType]
    BY <1>1, <1>4 DEF Types
  <2> QED
    BY <1>1, <1>2, <1>4, <1>5, <1>6, <1>8, <1>9, <2>1 DEF ServeEffect
<1>11. session'[s].status = "open" => Tidy(s)'
  BY <1>6, <1>7 DEF Open
<1> QED
  BY <1>10, <1>11, ServeStep

(* An idle upload has no document, so it stands behind none.               *)
LEMMA IdleUpload ==
  ASSUME LabInv, NEW u \in Uploads, upload[u].pc = "idle"
  PROVE  /\ ToSet(upload[u].todo) = {} /\ ~Active(u)
         /\ upload[u].session = None
<1>1. upload[u] = NoUpload
  BY DEF LabInv, KnownInv
<1>2. NoUpload.todo = <<>> /\ NoUpload.session = None
  BY DEF NoUpload
<1> QED
  BY <1>1, <1>2 DEF ToSet, Active

(* The files of a request are saved, or some before the one that is        *)
(* refused: what waits is what an upload will process, or never will.      *)
LEMMA TidySaved ==
  ASSUME LabInv, NEW u \in Uploads, upload[u].pc = "idle",
         NEW s \in Sessions, s \in Open, NEW n \in 0 .. MaxDocuments - saved,
         NEW refused \in BOOLEAN, saved' = saved + n,
         \A v \in Uploads : v # u => upload'[v] = upload[v],
         upload'[u].pc = (IF refused THEN "raised" ELSE "loop"),
         upload'[u].session = s, upload'[u].todo = Batch(n), upload'[u].refused = refused,
         session'[s].docs = [d \in Documents |->
           IF d \in ToSet(Batch(n)) THEN [NoDocument EXCEPT !.status = "queued"]
           ELSE session[s].docs[d]],
         dir'[s].files = dir[s].files \cup {<<"upload", d>> : d \in ToSet(Batch(n))}
  PROVE  Tidy(s)'
<1> DEFINE new == ToSet(Batch(n))
<1>1. Types /\ Tidy(s)
  BY DEF LabInv, TidyInv
<1>2. /\ saved \in Nat /\ n \in Nat /\ \A d \in Documents : d \in Nat
      /\ \A d : d \in new <=> d \in saved + 1 .. saved + n
      /\ new \subseteq Documents
  <2>1. saved \in Nat /\ n \in Nat /\ \A d \in Documents : d \in Nat
    <3>1. saved \in 0 .. MaxDocuments
      BY <1>1 DEF Types
    <3> QED
      BY <3>1, Limits DEF Documents
  <2>2. /\ \A d : d \in new <=> d \in saved + 1 .. saved + n
        /\ new \subseteq Documents
    BY <1>1, BatchElements
  <2> QED
    BY <2>1, <2>2
<1> HIDE DEF new
<1>3. ASSUME NEW d \in Documents
      PROVE  /\ d \in new => /\ d > saved /\ d <= saved' /\ ~(d <= saved)
                             /\ session'[s].docs[d].status = "queued"
                             /\ ~session'[s].docs[d].report
             /\ d \notin new => session'[s].docs[d] = session[s].docs[d]
             /\ d <= saved => d <= saved'
  <2>1. /\ [NoDocument EXCEPT !.status = "queued"].status = "queued"
        /\ ~[NoDocument EXCEPT !.status = "queued"].report
    BY DEF NoDocument
  <2>2. session'[s].docs[d] = IF d \in new THEN [NoDocument EXCEPT !.status = "queued"]
                              ELSE session[s].docs[d]
    BY DEF new
  <2>3. d \in new => d > saved /\ d <= saved' /\ ~(d <= saved)
    BY <1>2
  <2>4. d <= saved => d <= saved'
    BY <1>2
  <2> QED
    BY <2>1, <2>2, <2>3, <2>4
<1>4. /\ ToSet(upload[u].todo) = {} /\ ~Active(u) /\ upload[u].session = None
      /\ upload'[u].todo = Batch(n) /\ s # None
  BY IdleUpload, Limits
<1>5. ASSUME NEW v \in Uploads, NEW d \in ToSet(upload[v].todo)
      PROVE  v # u /\ d <= saved /\ d \in Documents /\ d \notin new
  <2>1. d <= saved
    BY DEF LabInv, TodoInv
  <2>2. d \in Documents
    BY <1>1 DEF Types, UploadType, ToSet
  <2> QED
    BY <1>3, <1>4, <2>1, <2>2
<1>6. DocsOf(s)'
  <2>1. ASSUME NEW d \in Documents
        PROVE  /\ session'[s].docs[d].status # "none" => d <= saved'
               /\ session'[s].docs[d].status = "none" => ~session'[s].docs[d].report
    <3>1. /\ session[s].docs[d].status # "none" => d <= saved
          /\ session[s].docs[d].status = "none" => ~session[s].docs[d].report
      BY <1>1 DEF Tidy, DocsOf
    <3>2. CASE d \in new
      BY <1>3, <3>2
    <3>3. CASE d \notin new
      BY <1>3, <3>1, <3>3
    <3> QED
      BY <3>2, <3>3
  <2>2. ASSUME NEW d \in Documents, NEW v \in Uploads, d \in ToSet(upload'[v].todo)
        PROVE  /\ session'[s].docs[d].status # "none" => upload'[v].session = s
               /\ Active(v)' /\ upload'[v].session = s =>
                    /\ session'[s].docs[d].status \in Unfinished \cup {"cancelled"}
                    /\ ~session'[s].docs[d].report
    <3>1. CASE v = u
      <4>1. d \in new
        BY <2>2, <3>1 DEF new
      <4> QED
        BY <1>3, <3>1, <4>1 DEF Unfinished
    <3>2. CASE v # u
      <4>1. upload'[v] = upload[v] /\ d \in ToSet(upload[v].todo)
        BY <2>2, <3>2
      <4>2. d \notin new
        BY <1>5, <4>1
      <4>3. session'[s].docs[d] = session[s].docs[d]
        BY <1>3, <4>2
      <4>4. /\ session[s].docs[d].status # "none" => upload[v].session = s
            /\ Active(v) /\ upload[v].session = s =>
                 /\ session[s].docs[d].status \in Unfinished \cup {"cancelled"}
                 /\ ~session[s].docs[d].report
        BY <1>1, <4>1 DEF Tidy, DocsOf
      <4>5. Active(v)' <=> Active(v)
        BY <4>1 DEF Active
      <4> QED
        BY <4>1, <4>3, <4>4, <4>5
    <3> QED
      BY <3>1, <3>2
  <2> QED
    BY <2>1, <2>2 DEF DocsOf, Unfinished
<1>7. AttendedOf(s)'
  <2> SUFFICES ASSUME NEW d \in Documents, session'[s].docs[d].status \in Unfinished
               PROVE  \E v \in Uploads : Works(v, s)' /\ d \in ToSet(upload'[v].todo)
    BY DEF AttendedOf, Unfinished
  <2>1. CASE d \in new
    <3>1. d \in ToSet(upload'[u].todo)
      BY <2>1 DEF new
    <3>2. Works(u, s)'
      BY DEF Works, StoppedShort, Active
    <3> QED
      BY <3>1, <3>2
  <2>2. CASE d \notin new
    <3>1. session[s].docs[d].status \in Unfinished
      BY <1>3, <2>2
    <3>2. PICK v \in Uploads : Works(v, s) /\ d \in ToSet(upload[v].todo)
      BY <1>1, <3>1 DEF Tidy, AttendedOf
    <3>3. v # u /\ upload'[v] = upload[v]
      BY <1>5, <3>2
    <3>4. \A f \in ToSet(upload[v].todo) : session'[s].docs[f] = session[s].docs[f]
      BY <1>3, <1>5
    <3>5. Head(upload[v].todo) \in ToSet(upload[v].todo)
      BY <1>1, <3>2, HeadIsThere DEF Types, UploadType
    <3>6. Works(v, s)'
      BY <3>2, <3>3, <3>4, <3>5 DEF Works, StoppedShort, Active
    <3> QED
      BY <3>2, <3>3, <3>6
  <2> QED
    BY <2>1, <2>2
<1>8. ReportsOf(s)'
  <2>1. ASSUME NEW d \in Documents, NEW v \in Uploads
        PROVE  Reporting(v, s, d)' <=> Reporting(v, s, d)
    BY <1>4 DEF Reporting
  <2>2. ASSUME NEW d \in Documents, Processing(d)
        PROVE  Processing(d)'
    <3>1. PICK v \in Uploads : /\ upload[v].pc \in {"parsing", "applying"}
                               /\ Head(upload[v].todo) = d
      BY <2>2 DEF Processing
    <3>2. v # u
      BY <3>1
    <3> QED
      BY <3>1, <3>2 DEF Processing
  <2>3. ASSUME NEW d \in Documents
        PROVE  /\ session[s].docs[d].status = "completed" => <<"report", d>> \in dir[s].files
               /\ <<"report", d>> \in dir[s].files =>
                    session[s].docs[d].report \/ (\E v \in Uploads : Reporting(v, s, d))
               /\ session[s].docs[d].status = "cancelled" /\ ~Processing(d) =>
                    \A f \in dir[s].files : f[2] = d => f = <<"zip", d>>
               /\ \A v \in Uploads : Reporting(v, s, d) => <<"report", d>> \in dir[s].files
    BY <1>1 DEF Tidy, ReportsOf
  <2>4. /\ \A d : <<"report", d>> \in dir'[s].files <=> <<"report", d>> \in dir[s].files
        /\ \A f \in dir'[s].files : f \in dir[s].files \/ f[2] \in new
    BY DEF new
  <2>5. ASSUME NEW d \in Documents, d \in new
        PROVE  <<"report", d>> \notin dir[s].files
    <3>1. ~(d <= saved)
      BY <1>3, <2>5
    <3>2. ~session[s].docs[d].report
      BY <1>1, <3>1 DEF Tidy, DocsOf
    <3>3. \A v \in Uploads : ~Reporting(v, s, d)
      BY <1>1, <1>5, <2>5, ReportingFacts
    <3> QED
      BY <2>3, <3>2, <3>3
  <2>6. ASSUME NEW d \in Documents
        PROVE  /\ session'[s].docs[d].status = "completed" => <<"report", d>> \in dir'[s].files
               /\ <<"report", d>> \in dir'[s].files =>
                    session'[s].docs[d].report \/ (\E v \in Uploads : Reporting(v, s, d)')
               /\ session'[s].docs[d].status = "cancelled" /\ ~Processing(d)' =>
                    \A f \in dir'[s].files : f[2] = d => f = <<"zip", d>>
               /\ \A v \in Uploads : Reporting(v, s, d)' => <<"report", d>> \in dir'[s].files
    <3>1. CASE d \in new
      <4>1. session'[s].docs[d].status = "queued"
        BY <1>3, <3>1
      <4>2. <<"report", d>> \notin dir[s].files
        BY <2>5, <3>1
      <4> QED
        BY <2>1, <2>3, <2>4, <4>1, <4>2
    <3>2. CASE d \notin new
      <4>1. session'[s].docs[d] = session[s].docs[d]
        BY <1>3, <3>2
      <4>2. \A f \in dir'[s].files : f[2] = d => f \in dir[s].files
        BY <2>4, <3>2
      <4> QED
        BY <2>1, <2>2, <2>3, <2>4, <4>1, <4>2
    <3> QED
      BY <3>1, <3>2
  <2> QED
    BY <2>6 DEF ReportsOf
<1> QED
  BY <1>6, <1>7, <1>8 DEF Tidy

(* Saved files are new documents of one session and one upload.            *)
LEMMA SaveUploadsPreserves ==
  ASSUME LabInv, NEW u \in Uploads, NEW s \in Sessions, NEW refused \in BOOLEAN,
         NEW n \in 0 .. MaxDocuments - saved, SaveUploads(u, s, n, refused)
  PROVE  LabInv'
<1> DEFINE new == ToSet(Batch(n))
           docs == [d \in Documents |->
             IF d \in new THEN [NoDocument EXCEPT !.status = "queued"]
             ELSE session[s].docs[d]]
           files == dir[s].files \cup {<<"upload", d>> : d \in new}
           sent == [NoUpload EXCEPT !.pc = IF refused THEN "raised" ELSE "loop",
                                    !.session = s, !.todo = Batch(n), !.refused = refused]
           lost == [NoUpload EXCEPT !.pc = "raised"]
<1>1. Types /\ saved \in Nat /\ n \in Nat /\ saved + n <= MaxDocuments /\ s # None
  <2>1. Types /\ saved \in 0 .. MaxDocuments
    BY DEF LabInv, Types
  <2> QED
    BY <2>1, Limits
<1>2. /\ up /\ upload[u].pc = "idle" /\ session[s].status # "none"
      /\ GetSession(s, docs, files) /\ up' = up
      /\ upload' = [upload EXCEPT ![u] = IF Found(s) THEN sent ELSE lost]
      /\ saved' = IF Found(s) THEN saved + n ELSE saved
      /\ page' = page /\ wire' = wire /\ missed' = missed /\ starts' = starts
  BY DEF SaveUploads, process, browser
<1>3. /\ Batch(n) \in Seq(Documents) /\ new \subseteq Documents
      /\ \A d : d \in new <=> d \in saved + 1 .. saved + n
      /\ \A i, j \in DOMAIN Batch(n) : Batch(n)[i] = Batch(n)[j] => i = j
  BY <1>1, BatchElements
<1>4. docs \in [Documents -> [status : Statuses \cup {"none", "late"}, report : BOOLEAN]]
  <2>1. [NoDocument EXCEPT !.status = "queued"] \in
          [status : Statuses \cup {"none", "late"}, report : BOOLEAN]
    BY DEF NoDocument, Statuses, Unfinished
  <2>2. session[s].docs \in [Documents -> [status : Statuses \cup {"none", "late"},
                                          report : BOOLEAN]]
    BY <1>1, DocsType
  <2> QED
    BY <2>1, <2>2
<1>5. files \in Files
  <2>1. dir[s].files \in Files
    BY <1>1, DocsType
  <2> QED
    BY <1>3, <2>1 DEF Files
<1>6. /\ lost \in UploadType /\ lost.pc = "raised" /\ lost.session = None
      /\ lost.todo = <<>>
      /\ sent \in UploadType /\ sent.session = s /\ sent.todo = Batch(n)
      /\ sent.pc = (IF refused THEN "raised" ELSE "loop") /\ sent.refused = refused
  BY <1>3, EmptyRecords DEF NoUpload, UploadType
<1> HIDE DEF docs, files, sent, lost
<1>7. /\ session' \in [Sessions -> SessionType] /\ dir' \in [Sessions -> DirType]
      /\ DirsMatch' /\ sinceSweep' \in 0..Interval
      /\ \A t \in Sessions : Patient(t, session'[t])
      /\ \A t \in Sessions : (t # s \/ ~Found(s)) => Quiet(t)
      /\ Found(s) => /\ Served(s) /\ session'[s].docs = docs
                     /\ dir'[s].files = files
      /\ ~Found(s) => session'[s].status # "open"
  BY <1>1, <1>2, <1>4, <1>5, GetSessionEffect
<1>8. \A t \in Sessions : Quiet(t) \/ Served(t) \/ Written(t)
  BY <1>7
<1>9. /\ upload' \in [Uploads -> UploadType]
      /\ \A v \in Uploads : v # u => upload'[v] = upload[v]
      /\ upload'[u] = IF Found(s) THEN sent ELSE lost
  BY <1>1, <1>2, <1>6 DEF Types
<1>10. /\ ToSet(upload[u].todo) = {} /\ ~Active(u) /\ upload[u].session = None
       /\ ToSet(<<>>) = {} /\ DOMAIN <<>> = {}
  <2>1. ToSet(<<>>) = {} /\ DOMAIN <<>> = {}
    BY DEF ToSet
  <2> QED
    BY <1>2, <2>1, IdleUpload
<1>11. Types'
  <2>1. \A v \in Uploads : upload'[v].pc \in {"parsing", "applying"} => upload'[v].todo # <<>>
    BY <1>1, <1>6, <1>9 DEF Types
  <2>2. saved' \in 0..MaxDocuments
    BY <1>1, <1>2, Limits DEF Types
  <2> QED
    BY <1>1, <1>2, <1>7, <1>9, <2>1, <2>2 DEF Types
<1>12. KnownInv'
  <2>1. /\ up' \/ starts' < MaxStarts
        /\ up' \/ \A t \in Sessions : session'[t].status # "open"
    BY <1>2
  <2>2. ASSUME NEW v \in Uploads
        PROVE  \/ upload'[v] = upload[v]
               \/ /\ upload'[v].pc # "idle"
                  /\ upload'[v].pc \in {"loop", "parsing", "applying"} =>
                       upload'[v].session # None
                  /\ \/ upload'[v].session \in {upload[v].session, None}
                     \/ session[upload'[v].session].status # "none"
    BY <1>1, <1>2, <1>6, <1>9
  <2> QED
    BY <1>1, <1>2, <1>8, <2>1, <2>2, KnownStep DEF LabInv
<1>13. KeptInv'
  <2>1. page.session # None => page.session \in Sessions
    BY <1>1 DEF Types
  <2> QED
    BY <1>1, <1>2, <1>7, <1>8, <2>1, KeptStep DEF LabInv
<1>14. ASSUME NEW v \in Uploads, v # u
       PROVE  /\ upload'[v].todo = upload[v].todo
              /\ \A d \in ToSet(upload[v].todo) : d <= saved /\ d <= saved' /\ d \notin new
  <2>1. \A d \in ToSet(upload[v].todo) : d <= saved /\ d \in Documents
    BY <1>1 DEF LabInv, TodoInv, Types, UploadType, ToSet
  <2>2. \A d \in Documents : d \in Nat
    BY Limits DEF Documents
  <2> QED
    BY <1>1, <1>2, <1>3, <1>9, <1>14, <2>1, <2>2
<1>15. \/ upload'[u].todo = Batch(n) /\ saved' = saved + n
       \/ upload'[u].todo = <<>>
  BY <1>2, <1>6, <1>9
<1>16. TodoInv'
  <2>1. ASSUME NEW v \in Uploads
        PROVE  /\ \A d \in ToSet(upload'[v].todo) : d <= saved'
               /\ \A i, j \in DOMAIN upload'[v].todo :
                    upload'[v].todo[i] = upload'[v].todo[j] => i = j
    <3>1. CASE v # u
      BY <1>14, <3>1 DEF LabInv, TodoInv
    <3>2. CASE v = u
      BY <1>1, <1>3, <1>10, <1>15, <3>2
    <3> QED
      BY <3>1, <3>2
  <2>2. ASSUME NEW v \in Uploads, NEW w \in Uploads,
               NEW d \in ToSet(upload'[v].todo), d \in ToSet(upload'[w].todo)
        PROVE  v = w
    <3>1. \A d1 \in ToSet(upload'[u].todo) : d1 \in new
      BY <1>10, <1>15
    <3>2. CASE v # u /\ w # u
      BY <1>14, <2>2, <3>2 DEF LabInv, TodoInv
    <3>3. CASE v = u \/ w = u
      BY <1>14, <2>2, <3>1, <3>3
    <3> QED
      BY <3>2, <3>3
  <2> QED
    BY <2>1, <2>2 DEF TodoInv
<1>17. ASSUME NEW t \in Sessions, session'[t].status = "open"
       PROVE  Tidy(t)'
  <2>1. CASE t = s
    <3>1. Found(s) /\ s \in Open
      BY <1>7, <1>17, <2>1 DEF Found
    <3>2. /\ upload'[u].pc = (IF refused THEN "raised" ELSE "loop")
          /\ upload'[u].session = s /\ upload'[u].todo = Batch(n)
          /\ upload'[u].refused = refused /\ saved' = saved + n
      BY <1>2, <1>6, <1>9, <3>1
    <3>3. /\ session'[s].docs = [d \in Documents |->
               IF d \in ToSet(Batch(n)) THEN [NoDocument EXCEPT !.status = "queued"]
               ELSE session[s].docs[d]]
          /\ dir'[s].files = dir[s].files \cup {<<"upload", d>> : d \in ToSet(Batch(n))}
      BY <1>7, <3>1 DEF docs, files
    <3>4. \A v \in Uploads : v # u => upload'[v] = upload[v]
      BY <1>9
    <3>5. Tidy(s)'
      BY <1>2, <3>1, <3>2, <3>3, <3>4, TidySaved
    <3> QED
      BY <2>1, <3>5
  <2>2. CASE t # s
    <3>1. SameView(t)
      BY <1>7, <1>17, <2>2 DEF Quiet, QuietTo, SameView, Open
    <3>2. Tidy(t)
      BY <3>1 DEF SameView, LabInv, TidyInv
    <3>3. saved' \in Nat /\ saved <= saved'
      BY <1>1, <1>2
    <3>4. ASSUME NEW v \in Uploads
          PROVE  \/ upload'[v] = upload[v]
                 \/ /\ upload[v].session # t /\ upload'[v].session # t
                    /\ \A d \in ToSet(upload'[v].todo) :
                         d \in ToSet(upload[v].todo) \/ (d \in Nat /\ d > saved)
      <4>1. CASE v # u
        BY <1>9, <4>1
      <4>2. CASE v = u
        <5>1. upload[v].session # t /\ upload'[v].session # t
          BY <1>6, <1>9, <1>10, <2>2, <4>2, Limits
        <5>2. \A d \in ToSet(upload'[v].todo) : d \in Nat /\ d > saved
          BY <1>1, <1>3, <1>10, <1>15, <4>2
        <5> QED
          BY <5>1, <5>2
      <4> QED
        BY <4>1, <4>2
    <3> QED
      BY <1>1, <3>1, <3>2, <3>3, <3>4, TidyElsewhere
  <2> QED
    BY <2>1, <2>2
<1>18. TidyInv'
  BY <1>17 DEF TidyInv, Open
<1>19. LeftInv'
  <2>1. ASSUME NEW v \in Uploads, upload[v].pc \notin {"idle", "done"}
        PROVE  upload'[v] = upload[v]
    BY <1>2, <1>9, <2>1
  <2> QED
    BY <1>1, <1>8, <2>1, LeftStep DEF LabInv
<1> QED
  BY <1>11, <1>12, <1>13, <1>16, <1>18, <1>19 DEF LabInv
-----------------------------------------------------------------------------
(* The invariant holds                                                     *)

(* A process starts with no session, no upload, and nothing on the disk.   *)
LEMMA InitTidy == Init => LabInv
<1> SUFFICES ASSUME Init PROVE LabInv
  OBVIOUS
<1>1. /\ \A s \in Sessions : session[s] = NoSession /\ dir[s] = NoDir
      /\ \A u \in Uploads : upload[u] = NoUpload
  BY DEF Init
<1>2. /\ NoSession.status = "none" /\ NoDir.files = {} /\ NoDir.there = FALSE
      /\ NoUpload.pc = "idle" /\ NoUpload.session = None /\ NoUpload.todo = <<>>
      /\ NoPage.session = None /\ NoWire.beat = None /\ NoWire.close = None
  BY DEF NoSession, NoDir, NoUpload, NoPage, NoWire
<1>3. Open = {}
  BY <1>1, <1>2 DEF Open
<1>4. Types
  <2>1. session \in [Sessions -> SessionType] /\ dir \in [Sessions -> DirType]
    BY EmptyRecords DEF Init
  <2>2. upload \in [Uploads -> UploadType]
    BY EmptyRecords DEF Init
  <2>3. saved \in 0..MaxDocuments /\ sinceSweep \in 0..Interval
    BY Limits DEF Init
  <2>4. starts \in 1..MaxStarts /\ up \in BOOLEAN /\ missed \in BOOLEAN
    <3>1. starts = 1 /\ up = TRUE /\ missed = FALSE
      BY DEF Init
    <3>2. starts \in 1..MaxStarts
      BY <3>1, Limits
    <3> QED
      BY <3>1, <3>2
  <2>5. page \in [session : Sessions \cup {None}, transferring : BOOLEAN, timer : 0..Beat]
    BY Limits DEF Init, NoPage
  <2>6. wire \in [beat : Sessions \cup {None}, age : 0..Delay,
                  close : Sessions \cup {None}]
    BY Limits DEF Init, NoWire
  <2>7. DirsMatch
    BY <1>1, <1>2, <1>3 DEF DirsMatch
  <2>8. \A u \in Uploads : upload[u].pc \in {"parsing", "applying"} => upload[u].todo # <<>>
    BY <1>1, <1>2
  <2> QED
    BY <2>1, <2>2, <2>3, <2>4, <2>5, <2>6, <2>7, <2>8 DEF Types
<1>5. KnownInv
  <2>1. up /\ page.session = None /\ wire.beat = None /\ wire.close = None
    BY <1>2 DEF Init
  <2> QED
    BY <1>1, <1>2, <2>1, Limits DEF KnownInv, Active
<1>6. KeptInv
  BY <1>2 DEF Init, KeptInv
<1>7. TodoInv
  <2>1. ToSet(<<>>) = {} /\ DOMAIN <<>> = {}
    BY DEF ToSet
  <2>2. \A u \in Uploads : upload[u].todo = <<>>
    BY <1>1, <1>2
  <2> QED
    BY <2>1, <2>2 DEF TodoInv
<1>8. TidyInv
  BY <1>3 DEF TidyInv
<1>9. LeftInv
  BY <1>1, <1>2 DEF LeftInv, LeftOf
<1> QED
  BY <1>4, <1>5, <1>6, <1>7, <1>8, <1>9 DEF LabInv

(* Nothing the process, its requests, the page or time do breaks it.       *)
LEMMA StepTidy == LabInv /\ [Next]_vars => LabInv'
<1> SUFFICES ASSUME LabInv, [Next]_vars PROVE LabInv'
  OBVIOUS
<1>1. ASSUME NEW s \in Sessions, CreateSession(s) PROVE LabInv'
  BY <1>1, CreateSessionPreserves
<1>2. ASSUME NEW u \in Uploads, NEW s \in Sessions, NEW refused \in BOOLEAN,
             NEW n \in 0 .. MaxDocuments - saved, SaveUploads(u, s, n, refused)
      PROVE  LabInv'
  BY <1>2, SaveUploadsPreserves
<1>3. ASSUME NEW u \in Uploads, Serve(u) PROVE LabInv'
  <2>1. CASE StartDocument(u)
    BY <2>1, StartDocumentPreserves
  <2>2. CASE WriteReport(u)
    BY <2>2, WriteReportPreserves
  <2>3. CASE ApplyResult(u)
    BY <2>3, ApplyResultPreserves
  <2>4. CASE AnswerUpload(u)
    BY <2>4, AnswerUploadPreserves
  <2> QED
    BY <1>3, <2>1, <2>2, <2>3, <2>4 DEF Serve
<1>4. ASSUME NEW s \in Sessions, NEW d \in Documents,
             RemoveDocument(s, d) \/ ExportDocument(s, d)
      PROVE  LabInv'
  BY <1>4, RemoveDocumentPreserves, ExportDocumentPreserves
<1>5. Navigate => LabInv'
  BY NavigatePreserves
<1>6. SendBeat \/ ReceiveBeat => LabInv'
  BY SendBeatPreserves, ReceiveBeatPreserves
<1>7. Leave \/ ReceiveClose => LabInv'
  BY LeavePreserves, ReceiveClosePreserves
<1>8. ClearSession \/ CleanupExpired => LabInv'
  BY ClearSessionPreserves, CleanupExpiredPreserves
<1>9. Shutdown \/ Crash => LabInv'
  BY ShutdownPreserves, CrashPreserves
<1>10. Start \/ Tick => LabInv'
  BY StartPreserves, TickPreserves
<1>11. UNCHANGED vars => LabInv'
  <2> SUFFICES ASSUME UNCHANGED vars PROVE LabInv'
    OBVIOUS
  <2>1. /\ session' = session /\ upload' = upload /\ saved' = saved
        /\ sinceSweep' = sinceSweep /\ dir' = dir /\ starts' = starts /\ up' = up
        /\ page' = page /\ wire' = wire /\ missed' = missed
    BY DEF vars
  <2>2. TodoInv' /\ TidyInv' /\ LeftInv'
    BY <2>1, StillStep DEF store, uploads
  <2>3. Types'
    BY <2>1 DEF LabInv, Types, DirsMatch, Open
  <2>4. KnownInv'
    BY <2>1 DEF LabInv, KnownInv, Active
  <2>5. KeptInv'
    BY <2>1 DEF LabInv, KeptInv, Open
  <2> QED
    BY <2>2, <2>3, <2>4, <2>5 DEF LabInv
<1>12. CASE Next
  BY <1>1, <1>2, <1>3, <1>4, <1>5, <1>6, <1>7, <1>8, <1>9, <1>10, <1>12 DEF Next
<1> QED
  BY <1>11, <1>12

(* The inductive invariant of the lab.                                     *)
THEOREM LabInvariant == Spec => []LabInv
<1>1. Init => LabInv
  BY InitTidy
<1>2. LabInv /\ [Next]_vars => LabInv'
  BY StepTidy
<1> QED
  BY <1>1, <1>2, PTL DEF Spec

(* Sessions, uploads, directories, page and wire have the types of the     *)
(* code's records; files are only read of a session that is open.          *)
THEOREM LabTypes == Spec => []TypeOK
<1>1. LabInv => TypeOK
  BY DEF LabInv, Types, TypeOK, DirsMatch, SessionType, DirType, Files, UploadType
<1> QED
  BY <1>1, LabInvariant, PTL

(* A page that is open and whose heartbeats arrive keeps its session from  *)
(* being closed as abandoned, for any beat, delay and grace with           *)
(* Beat + Delay < Grace.                                                   *)
THEOREM HeartbeatsKeepAlive == Spec => []KeptAlive
<1>1. LabInv => KeptAlive
  BY DEF LabInv, KeptInv, KeptAlive
<1> QED
  BY <1>1, LabInvariant, PTL

(* No document of an open session waits for an upload that has forgotten   *)
(* it: the upload works, or ended on a refused file or a removed document. *)
THEOREM WaitingIsExplained == Spec => []UploadsAttended
<1>1. LabInv => UploadsAttended
  BY DEF LabInv, TidyInv, Tidy, AttendedOf, Works, StoppedShort, Active, UploadsAttended
<1> QED
  BY <1>1, LabInvariant, PTL

(* A completed document has its report, and a removed one that is no       *)
(* longer processed leaves nothing but an export behind.                   *)
THEOREM ReportsFollowDocuments == Spec => []ReportsMatchDocuments
<1>1. LabInv => ReportsMatchDocuments
  <2> SUFFICES ASSUME LabInv, NEW s \in Sessions, s \in Open, NEW d \in Documents
               PROVE  /\ session[s].docs[d].status = "completed" =>
                           <<"report", d>> \in {f \in dir[s].files : f[2] = d}
                      /\ session[s].docs[d].status = "cancelled" /\ ~Processing(d) =>
                           {f \in dir[s].files : f[2] = d} \subseteq {<<"zip", d>>}
    BY DEF ReportsMatchDocuments, Open
  <2>1. ReportsOf(s)
    BY DEF LabInv, TidyInv, Tidy
  <2> QED
    BY <2>1 DEF ReportsOf
<1> QED
  BY <1>1, LabInvariant, PTL

(* The directory of a session that was closed is there only while, or      *)
(* because, an upload was under way: everything else is removed.           *)
THEOREM ClosedLeaveNothing == Spec => []NothingLeftBehind
<1>1. LabInv => NothingLeftBehind
  BY DEF LabInv, LeftInv, LeftOf, NothingLeftBehind, Dirs
<1> QED
  BY <1>1, LabInvariant, PTL
=============================================================================
