------------------------------- MODULE Storage -------------------------------
(***************************************************************************)
(* IngestDocument over LocalDocumentRepository and LocalArtifactStore: the *)
(* reads and decisions of Intake, then three writes of the document record *)
(* with a line of the transition log after each, and between the second    *)
(* and the third the artifact, as two files named by the content's hash.   *)
(*                                                                         *)
(* Ingestions run in processes of their own on one data directory (an API  *)
(* server beside CLI commands), so any step of one may come between two of *)
(* another; what a single event loop allows is less.  Files are replaced   *)
(* atomically by os.replace; a process may die between any two steps, and  *)
(* any write may raise OSError.  A content is its own hash.                *)
(***************************************************************************)
EXTENDS Intake, FiniteSets

CONSTANTS
  Ingestions,  (* calls of IngestDocument.execute                          *)
  Sources,     (* what callers pass                                        *)
  Contents,    (* what the sources may contain                             *)
  Rewrites,    (* what a source may contain after it was changed           *)
  Removable,   (* contents somebody may delete                             *)
  Policies,    (* IngestionSecurityPolicy of the data directory's engines  *)
  Episodes,    (* records of a policy and of what each ingestion is passed *)
  Unknown,     (* not a content                                            *)
  NoSource     (* of an ingestion that is never called                     *)

ASSUME StorageAssumption ==
  /\ Unknown \notin Contents /\ NoSource \notin Sources
  /\ \A e \in Episodes :
       /\ e.policy \in Policies
       /\ e.source \in [Ingestions -> Sources \cup {NoSource}]
       /\ e.file \in [Ingestions -> Contents]
  /\ Rewrites \cup Removable \subseteq Contents
  /\ \A c \in Contents :
       /\ c.size \in Nat /\ Len(c.entries) \in Nat
       /\ \A k \in DOMAIN c.entries : c.entries[k].size \in Nat
       /\ TotalSize(c) \in Nat /\ PackedSize(c) \in Nat
  /\ \A s \in Sources : s.size \in Int /\ s.pages \in Int
  /\ \A p \in Policies :
       /\ {p.maxSize, p.maxEntries, p.maxEntry, p.maxTotal, p.maxRatio} \subseteq Nat
       /\ p.maxPages \in Nat \cup {Undeclared}

VARIABLES
  policy,
  source, file,               (* what was passed, and what it holds now    *)
  pc, fate, answer,           (* next step, whether it still runs, outcome *)
  length, format, identity,   (* what was read: content_length, detection, *)
                              (* hash                                      *)
  examined,                   (* history: what the structure check read    *)
  caller,                     (* position of the caller's stream           *)
  record, log,                (* document.json, transitions.jsonl          *)
  content, meta,              (* content and metadata.json of each hash    *)
  temps, spool,               (* files in temporary/; content of one       *)
  deleting, deleted           (* deletes between unlinks; history          *)

inputs  == <<policy, source, file>>
control == <<pc, fate, answer, caller>>
facts   == <<length, format, identity, examined>>
documents == <<record, log>>
artifacts == <<content, meta, temps, spool>>
removal   == <<deleting, deleted>>
vars == <<policy, source, file, pc, fate, answer, length, format, identity,
          examined, caller, record, log, content, meta, temps, spool,
          deleting, deleted>>

-----------------------------------------------------------------------------
(* DocumentLifecycle.default(): the part an ingestion walks.               *)
AllowedTransitions ==
  [none      |-> {"received"},
   received  |-> {"validated", "failed"},
   validated |-> {"stored", "failed"},
   stored    |-> {"processing", "failed", "cancelled"}]

NoRecord == [status |-> "none", version |-> 0, artifact |-> Unknown]

ReadSteps  == {"detect", "declared", "structure", "identify"}
WriteSteps == {"create", "validated", "stored", "describe"}

Init ==
  /\ \E e \in Episodes :
       policy = e.policy /\ source = e.source /\ file = e.file
  /\ pc       = [i \in Ingestions |-> "open"]
  /\ fate     = [i \in Ingestions |-> "new"]
  /\ answer   = [i \in Ingestions |-> "none"]
  /\ length   = [i \in Ingestions |-> Undeclared]
  /\ format   = [i \in Ingestions |-> "unknown"]
  /\ identity = [i \in Ingestions |-> Unknown]
  /\ examined = [i \in Ingestions |-> Unknown]
  /\ caller   = [i \in Ingestions |-> "original"]
  /\ record   = [i \in Ingestions |-> NoRecord]
  /\ log      = [i \in Ingestions |-> <<>>]
  /\ content  = [c \in Contents |-> Unknown]
  /\ meta     = [c \in Contents |-> Unknown]
  /\ temps    = {}
  /\ spool    = [i \in Ingestions |-> Unknown]
  /\ deleting = {}
  /\ deleted  = {}

-----------------------------------------------------------------------------
Running(i)  == fate[i] = "running"
At(i, step) == Running(i) /\ pc[i] = step
Goto(i, step) ==
  pc' = [pc EXCEPT ![i] = step] /\ UNCHANGED <<fate, answer, caller>>

(* close() of a resolved source, on every way out of the async with: the   *)
(* caller's stream goes back to where it was, or is closed on request.     *)
Released(i) ==
  IF source[i].kind \in {"stream", "pipe"} /\ source[i].closes THEN "closed"
  ELSE IF source[i].kind = "stream" THEN "original"
  ELSE caller[i]

(* Mutant: the stream goes back only when the ingestion succeeds. *)
EndUnreleased(i, outcome) ==
  /\ fate'   = [fate EXCEPT ![i] = "answered"]
  /\ answer' = [answer EXCEPT ![i] = outcome]
  /\ caller' = [caller EXCEPT ![i] = IF outcome = "stored" THEN Released(i) ELSE @]
  /\ UNCHANGED pc

End(i, outcome) ==
  /\ fate'   = [fate EXCEPT ![i] = "answered"]
  /\ answer' = [answer EXCEPT ![i] = outcome]
  /\ caller' = [caller EXCEPT ![i] = Released(i)]
  /\ UNCHANGED pc

(* Goes on to step, or ends with the error of a check. *)
Continue(i, error, step) ==
  IF error = "ok" THEN Goto(i, step) ELSE End(i, error)

-----------------------------------------------------------------------------
(* Reading.  Every read awaits a thread, so the caller can change a file   *)
(* or a stream between two of them.                                        *)

(* LocalSourceResolver.open; copying a stream may time out.  When a check  *)
(* refuses the source here, close() is not called: there is no resolved    *)
(* source yet.                                                             *)
Open(i) ==
  /\ fate[i] = "new" /\ source[i] # NoSource
  /\ caller' = [caller EXCEPT ![i] = CASE source[i].kind = "stream" -> "rewound"
                                       [] source[i].kind = "pipe"   -> "consumed"
                                       [] OTHER                     -> @]
  /\ length' = [length EXCEPT ![i] = ContentLength(source[i], file[i])]
  /\ \E error \in {OpenError(policy, source[i], file[i])}
                  \cup {e \in {"read_timeout"} : source[i].kind = "pipe"} :
       /\ fate'   = [fate EXCEPT ![i] = IF error = "ok" THEN "running"
                                                        ELSE "answered"]
       /\ answer' = [answer EXCEPT ![i] = IF error = "ok" THEN @ ELSE error]
       /\ pc'     = [pc EXCEPT ![i] = IF error = "ok" THEN "detect" ELSE @]
  /\ UNCHANGED <<inputs, format, identity, examined, documents, artifacts,
                 removal>>

Change(i) ==
  /\ Running(i) /\ pc[i] \in ReadSteps \cup {"create", "spool"}
  /\ Mutable(source[i])
  /\ \E c \in Rewrites : file' = [file EXCEPT ![i] = c]
  /\ UNCHANGED <<policy, source, control, facts, documents, artifacts,
                 removal>>

DetectFormat(i) ==
  /\ At(i, "detect")
  /\ format' = [format EXCEPT ![i] = Detect(source[i], file[i])]
  /\ Goto(i, "declared")
  /\ UNCHANGED <<inputs, length, identity, examined, documents, artifacts,
                 removal>>

ValidateDeclared(i) ==
  /\ At(i, "declared")
  /\ Continue(i, DeclaredError(policy, source[i], file[i], length[i],
                               format[i]), "structure")
  /\ UNCHANGED <<inputs, facts, documents, artifacts, removal>>

ValidateStructure(i) ==
  /\ At(i, "structure")
  /\ examined' = [examined EXCEPT ![i] = file[i]]
  /\ Continue(i, StructureError(policy, source[i], file[i], format[i]),
              "identify")
  /\ UNCHANGED <<inputs, length, format, identity, documents, artifacts,
                 removal>>

(* Sha256ContentHasher.hash, which counts what it reads. *)
Identify(i) ==
  /\ At(i, "identify")
  /\ IF file[i].size > policy.maxSize
       THEN End(i, "too_large") /\ UNCHANGED identity
       ELSE /\ identity' = [identity EXCEPT ![i] = file[i]]
            /\ Goto(i, "create")
  /\ UNCHANGED <<inputs, length, format, examined, documents, artifacts,
                 removal>>

(* A read that takes too long, or the task of the ingestion cancelled      *)
(* while it awaits one.  The thread that reads is not stopped by either.   *)
Interrupt(i) ==
  /\ Running(i) /\ pc[i] \in ReadSteps
  /\ \E error \in {"read_timeout", "cancelled"} : End(i, error)
  /\ UNCHANGED <<inputs, facts, documents, artifacts, removal>>

(* The abandoned read ends after close() and moves the caller's stream. *)
LateRead(i) ==
  /\ fate[i] = "answered" /\ answer[i] \in {"read_timeout", "cancelled"}
  /\ source[i].kind = "stream" /\ caller[i] = "original"
  /\ caller' = [caller EXCEPT ![i] = "adrift"]
  /\ UNCHANGED <<inputs, pc, fate, answer, facts, documents, artifacts, removal>>

-----------------------------------------------------------------------------
(* The document record and its log.  From here on nothing yields: the      *)
(* other steps in between are those of other processes.                    *)

(* new_document_record gives a fresh id, so the file cannot exist yet. *)
CreateRecord(i) ==
  /\ At(i, "create") /\ record[i] = NoRecord
  /\ record' = [record EXCEPT ![i] = [status |-> "received", version |-> 1,
                                      artifact |-> Unknown]]
  /\ Goto(i, "log")
  /\ UNCHANGED <<inputs, facts, log, artifacts, removal>>

NextStep(status) ==
  CASE status = "received"  -> "validated"
    [] status = "validated" -> "lookup"
    [] OTHER                -> "answer"

AppendTransition(i) ==
  /\ At(i, "log")
  /\ log' = [log EXCEPT ![i] = Append(@, record[i].status)]
  /\ Goto(i, NextStep(record[i].status))
  /\ UNCHANGED <<inputs, facts, record, artifacts, removal>>

(* Mutant: transition() and update() both count the version. *)
UpdateRecordTwice(i, status, reference) ==
  /\ status \in AllowedTransitions[record[i].status]
  /\ record' = [record EXCEPT ![i] = [status   |-> status,
                                      version  |-> @.version + 2,
                                      artifact |-> reference]]
  /\ Goto(i, "log")
  /\ UNCHANGED <<inputs, facts, log, artifacts, removal>>

(* lifecycle.transition and repository.update.  A document has one writer, *)
(* its ingestion: the version it expects is always there.                  *)
UpdateRecord(i, status, reference) ==
  /\ status \in AllowedTransitions[record[i].status]
  /\ record' = [record EXCEPT ![i] = [status   |-> status,
                                      version  |-> @.version + 1,
                                      artifact |-> reference]]
  /\ Goto(i, "log")
  /\ UNCHANGED <<inputs, facts, log, artifacts, removal>>

MarkValidated(i) ==
  At(i, "validated") /\ UpdateRecord(i, "validated", Unknown)

(* Mutant: the last transition is never logged. *)
MarkStoredUnlogged(i) ==
  /\ At(i, "stored")
  /\ record' = [record EXCEPT ![i] = [status   |-> "stored", version |-> 3,
                                      artifact |-> identity[i]]]
  /\ Goto(i, "answer")
  /\ UNCHANGED <<inputs, facts, log, artifacts, removal>>

MarkStored(i) ==
  At(i, "stored") /\ UpdateRecord(i, "stored", identity[i])

Answer(i) ==
  /\ At(i, "answer")
  /\ End(i, "stored")
  /\ UNCHANGED <<inputs, facts, documents, artifacts, removal>>

-----------------------------------------------------------------------------
(* LocalArtifactStore.put                                                  *)

(* Mutant: content under the hash is taken for the artifact. *)
PutLookupTrusting(i) ==
  /\ At(i, "lookup")
  /\ Goto(i, IF content[identity[i]] # Unknown THEN "stored" ELSE "spool")
  /\ UNCHANGED <<inputs, facts, documents, artifacts, removal>>

PutLookup(i) ==
  /\ At(i, "lookup")
  /\ Goto(i, IF content[identity[i]] # Unknown THEN "reuse" ELSE "spool")
  /\ UNCHANGED <<inputs, facts, documents, artifacts, removal>>

(* Mutant: the metadata is looked at only if it is there. *)
ReuseErrorLenient(c) ==
  IF content[c] = Unknown THEN "artifact_not_found"
  ELSE IF meta[c] \notin {c, Unknown} THEN "artifact_mismatch"
  ELSE "ok"

(* _load_existing_metadata, _verify_paths and the comparisons. *)
ReuseError(c) ==
  IF meta[c] = Unknown THEN "metadata_missing"
  ELSE IF content[c] = Unknown THEN "artifact_not_found"
  ELSE IF content[c] # meta[c] \/ meta[c] # c THEN "artifact_mismatch"
  ELSE "ok"

PutReuse(i) ==
  /\ At(i, "reuse")
  /\ Continue(i, ReuseError(identity[i]), "stored")
  /\ UNCHANGED <<inputs, facts, documents, artifacts, removal>>

(* Mutant: the temporary file is not compared with the identity. *)
PutSpoolUnchecked(i) ==
  /\ At(i, "spool")
  /\ temps' = temps \cup {<<i, "content">>}
  /\ spool' = [spool EXCEPT ![i] = file[i]]
  /\ Goto(i, "move")
  /\ UNCHANGED <<inputs, facts, documents, content, meta, removal>>

(* _write_temp reads the source once more; the temporary file goes away    *)
(* when its size or its hash is not the one identified.                    *)
PutSpool(i) ==
  /\ At(i, "spool")
  /\ IF file[i] # identity[i]
       THEN End(i, "artifact_mismatch") /\ UNCHANGED <<temps, spool>>
       ELSE /\ temps' = temps \cup {<<i, "content">>}
            /\ spool' = [spool EXCEPT ![i] = file[i]]
            /\ Goto(i, "move")
  /\ UNCHANGED <<inputs, facts, documents, content, meta, removal>>

(* Mutant: the metadata is written only by the next put. *)
PutMoveUndescribed(i) ==
  /\ At(i, "move")
  /\ IF content[identity[i]] = Unknown
       THEN /\ content' = [content EXCEPT ![identity[i]] = spool[i]]
            /\ temps'   = temps \ {<<i, "content">>}
       ELSE UNCHANGED <<content, temps>>
  /\ Goto(i, "stored")
  /\ UNCHANGED <<inputs, facts, documents, meta, spool, removal>>

(* Another process may have moved the same content into place meanwhile. *)
PutMove(i) ==
  /\ At(i, "move")
  /\ IF content[identity[i]] = Unknown
       THEN /\ content' = [content EXCEPT ![identity[i]] = spool[i]]
            /\ temps'   = temps \ {<<i, "content">>}
       ELSE UNCHANGED <<content, temps>>
  /\ Goto(i, "describe")
  /\ UNCHANGED <<inputs, facts, documents, meta, spool, removal>>

PutDescribe(i) ==
  /\ At(i, "describe")
  /\ meta'  = [meta EXCEPT ![identity[i]] = identity[i]]
  /\ temps' = temps \ {<<i, "content">>}
  /\ Goto(i, "stored")
  /\ UNCHANGED <<inputs, facts, documents, content, spool, removal>>

-----------------------------------------------------------------------------
(* LocalArtifactStore.delete by a holder of the reference.                 *)

DeleteContent(c) ==
  /\ c \notin deleting /\ (content[c] # Unknown \/ meta[c] # Unknown)
  /\ content'  = [content EXCEPT ![c] = Unknown]
  /\ deleting' = deleting \cup {c}
  /\ deleted'  = deleted \cup {c}
  /\ UNCHANGED <<inputs, control, facts, documents, meta, temps, spool>>

DeleteMetadata(c) ==
  /\ c \in deleting
  /\ meta'     = [meta EXCEPT ![c] = Unknown]
  /\ deleting' = deleting \ {c}
  /\ UNCHANGED <<inputs, control, facts, documents, content, temps, spool,
                 deleted>>

-----------------------------------------------------------------------------
(* OSError at a write: every handler removes its temporary files; nothing  *)
(* already written is taken back.                                          *)
Fault(i) ==
  /\ Running(i) /\ pc[i] \in WriteSteps \cup {"log", "spool", "move"}
  /\ End(i, "storage_error")
  /\ temps' = {t \in temps : t[1] # i}
  /\ UNCHANGED <<inputs, facts, documents, content, meta, spool, removal>>

(* The process dies; a JSON file may have been written and not yet moved. *)
Crash(i) ==
  /\ Running(i)
  /\ fate' = [fate EXCEPT ![i] = "crashed"]
  /\ \/ UNCHANGED temps
     \/ pc[i] \in WriteSteps /\ temps' = temps \cup {<<i, "json">>}
     \/ pc[i] = "spool" /\ temps' = temps \cup {<<i, "content">>}
  /\ UNCHANGED <<inputs, pc, answer, caller, facts, documents, content, meta,
                 spool, removal>>

-----------------------------------------------------------------------------
Read(i)  == \/ Open(i) \/ Change(i) \/ DetectFormat(i) \/ ValidateDeclared(i)
            \/ ValidateStructure(i) \/ Identify(i) \/ Interrupt(i)
            \/ LateRead(i)
Write(i) == \/ CreateRecord(i) \/ AppendTransition(i) \/ MarkValidated(i)
            \/ MarkStored(i) \/ Answer(i)
Put(i)   == \/ PutLookup(i) \/ PutReuse(i) \/ PutSpool(i) \/ PutMove(i)
            \/ PutDescribe(i)

Next ==
  \/ \E i \in Ingestions : Read(i) \/ Write(i) \/ Put(i) \/ Fault(i) \/ Crash(i)
  \/ \E c \in Removable : DeleteContent(c) \/ DeleteMetadata(c)

Spec == Init /\ [][Next]_vars

-----------------------------------------------------------------------------
(* Properties                                                              *)

Outcomes == {"none", "stored", "too_large", "empty", "unsafe_filename",
             "unsupported", "invalid_mime", "mime_mismatch", "corrupted",
             "truncated", "invalid_container", "archive", "structure",
             "too_many_pages", "read_timeout", "cancelled", "storage_error",
             "metadata_missing", "artifact_not_found", "artifact_mismatch"}

(* Types of the variables of execute() and of the files. *)
TypeOK ==
  /\ policy   \in Policies
  /\ source   \in [Ingestions -> Sources \cup {NoSource}]
  /\ file     \in [Ingestions -> Contents]
  /\ pc       \in [Ingestions -> ReadSteps \cup WriteSteps \cup
                   {"open", "log", "lookup", "reuse", "spool", "move", "answer"}]
  /\ fate     \in [Ingestions -> {"new", "running", "answered", "crashed"}]
  /\ answer   \in [Ingestions -> Outcomes]
  /\ length   \in [Ingestions -> Int]
  /\ format   \in [Ingestions -> Formats \cup {"unknown"}]
  /\ identity \in [Ingestions -> Contents \cup {Unknown}]
  /\ examined \in [Ingestions -> Contents \cup {Unknown}]
  /\ spool    \in [Ingestions -> Contents \cup {Unknown}]
  /\ caller   \in [Ingestions -> {"original", "rewound", "consumed", "closed",
                                  "adrift"}]
  /\ record   \in [Ingestions -> [status : {"none", "received", "validated", "stored"},
                                  version : 0..3, artifact : Contents \cup {Unknown}]]
  /\ log      \in [Ingestions -> Seq({"received", "validated", "stored"})]
  /\ content  \in [Contents -> Contents \cup {Unknown}]
  /\ meta     \in [Contents -> Contents \cup {Unknown}]
  /\ temps    \subseteq Ingestions \X {"content", "json"}
  /\ deleting \subseteq deleted /\ deleted \subseteq Contents

(* The bytes under a hash are the bytes with that hash, and so is what the *)
(* metadata says, whatever happened to the source between the hash and the *)
(* copy and whoever put the same content at the same time: put() checks    *)
(* its temporary file before it moves it.                                  *)
ContentMatchesHash ==
  \A c \in Contents : content[c] \in {Unknown, c} /\ meta[c] \in {Unknown, c}

(* A document whose record says stored refers to an artifact that is there *)
(* with both its files, after any crash, fault or concurrent put, unless   *)
(* somebody deleted that content.                                          *)
StoredHasArtifact ==
  \A i \in Ingestions :
    record[i].status = "stored" =>
      LET c == record[i].artifact IN
      /\ c = identity[i]
      /\ c \in deleted \/ (content[c] = c /\ meta[c] = c)

(* The log is the record's history, short of its last transition only when *)
(* the ingestion stopped between the two files; an ingestion that answered *)
(* with a stored document logged all three.                                *)
LogFollowsRecord ==
  \A i \in Ingestions :
    LET walk == <<"received", "validated", "stored">>
        done == record[i].version
    IN  /\ done > 0 => record[i].status = walk[done]
        /\ log[i] = SubSeq(walk, 1, Len(log[i]))
        /\ \/ Len(log[i]) = done
           \/ Len(log[i]) + 1 = done /\ pc[i] = "log"
        /\ answer[i] = "stored" => Len(log[i]) = 3

(* What gets a document record is within the size limit even if the source *)
(* grew while it was read, and if the source cannot change it meets every  *)
(* condition of the policy, in whatever order the code checks them.        *)
RecordedWasAccepted ==
  \A i \in Ingestions :
    record[i] # NoRecord =>
      /\ identity[i].size <= policy.maxSize
      /\ StructureError(policy, source[i], examined[i], format[i]) = "ok"
      /\ ~Mutable(source[i]) => Acceptable(policy, source[i], identity[i])

(* A source that cannot change and meets every condition of the policy is  *)
(* never refused by a check: it ends stored, or by something else's doing. *)
AcceptedNotRefused ==
  \A i \in Ingestions :
    /\ fate[i] = "answered" /\ ~Mutable(source[i])
    /\ Acceptable(policy, source[i], file[i])
    /\ source[i].size \in {Undeclared, file[i].size}
    => answer[i] \in {"stored", "read_timeout", "cancelled", "storage_error",
                      "metadata_missing", "artifact_not_found"}

(* Content without metadata, which makes every later put of that content   *)
(* fail, is the work of an ingestion that is between the two files or was  *)
(* stopped there, by a crash or an error, or of a delete that met a put.   *)
IncompleteExplained ==
  \A c \in Contents \ deleted :
    content[c] # Unknown /\ meta[c] = Unknown =>
      \E i \in Ingestions : identity[i] = c /\ pc[i] = "describe"

(* Only a crash leaves files in temporary/: every other end removes them,  *)
(* also that of a put which found the content moved into place by another. *)
TemporariesRemoved ==
  \A t \in temps : fate[t[1]] \in {"running", "crashed"}

(* A caller's seekable stream is given back where it was, or closed if the *)
(* caller asked for it, however the ingestion ends; except when open()     *)
(* itself refuses the source, which leaves the stream at its beginning,    *)
(* and when a read was abandoned, which may still move it.                 *)
CallerStreamReturned ==
  \A i \in Ingestions :
    fate[i] = "answered" /\ source[i].kind = "stream" /\ pc[i] # "open" =>
      CASE source[i].closes -> caller[i] = "closed"
        [] ~source[i].closes /\ answer[i] \in {"read_timeout", "cancelled"} ->
             caller[i] \in {"original", "adrift"}
        [] OTHER -> caller[i] = "original"

(* An ingestion that has ended leaves neither its temporary file nor the   *)
(* caller's stream behind.                                                 *)
EndsCleanly == TemporariesRemoved /\ CallerStreamReturned

Abstract ==
  INSTANCE DocumentStore WITH
    status <- [i \in Ingestions |-> record[i].status],
    whole  <- {c \in Contents : content[c] = c /\ meta[c] = c},
    told   <- {i \in Ingestions : answer[i] = "stored"}

(* The files implement the abstract document store. *)
ImplementsDocumentStore == Abstract!Spec
=============================================================================
