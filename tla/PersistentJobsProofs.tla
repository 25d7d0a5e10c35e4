------------------------ MODULE PersistentJobsProofs ------------------------
(***************************************************************************)
(* Proofs about PersistentJobs, for every set of engines, of jobs and of   *)
(* outcomes, every page limit, and with or without failing statements.     *)
(***************************************************************************)
EXTENDS PersistentJobs, FiniteSetTheorems, TLAPS

-----------------------------------------------------------------------------
(* Type correctness                                                        *)

(* new_job_record and transition() return job records. *)
LEMMA RecordTypes ==
  /\ NoRow \in JobRecord
  /\ new_job_record \in JobRecord
  /\ \A r \in JobRecord, to \in JobStatus : transition(r, to) \in JobRecord
BY DEF NoRow, new_job_record, JobRecord, transition, JobStatus, ResultStatuses

(* The two constant continuations are typed. *)
LEMMA FrameTypes ==
  /\ Idle \in Frames
  /\ Sweeping \in Frames
  /\ Idle.at = "idle" /\ Sweeping.at = "sweep"
BY RecordTypes DEF Idle, Sweeping, Frame, Frames, Continuations

(* What Raise and Attempt may assign. *)
HandlerTypes ==
  /\ loop' \in [Engines -> Frames]
  /\ \A f \in Engines : loop'[f].at \in {"check", "write", "save"} =>
       loop'[f].job \in Jobs /\ loop'[f].to \in JobStatus
  /\ \A f \in Engines : loop'[f].at = "save" => loop'[f].to \in ResultStatuses
  /\ tasks' \in [Engines -> [Jobs -> TaskStates]]
  /\ watching' \in [Engines -> SUBSET Jobs]
  /\ page' \in [Engines -> [Jobs -> JobRecord]]

(* An exception that leaves a handler keeps the types. *)
LEMMA RaiseTypes ==
  ASSUME TypeOK, NEW e \in Engines, NEW j \in Jobs, NEW then \in Continuations,
         Raise(e, j, then)
  PROVE  HandlerTypes
<1>1. loop' = [loop EXCEPT ![e] = Idle]
  BY DEF Raise
<1>2. /\ loop' \in [Engines -> Frames]
      /\ \A f \in Engines : loop'[f].at \in {"check", "write", "save"} =>
           loop'[f].job \in Jobs /\ loop'[f].to \in JobStatus
      /\ \A f \in Engines : loop'[f].at = "save" => loop'[f].to \in ResultStatuses
  BY <1>1, FrameTypes DEF TypeOK
<1>3. tasks' \in [Engines -> [Jobs -> TaskStates]]
  BY DEF Raise, TypeOK, TaskStates, TaskResults
<1>4. watching' \in [Engines -> SUBSET Jobs]
  BY DEF Raise, TypeOK
<1>5. page' \in [Engines -> [Jobs -> JobRecord]]
  BY RecordTypes DEF Raise, TypeOK
<1>. QED
  BY <1>2, <1>3, <1>4, <1>5 DEF HandlerTypes

(* Frame builds a continuation from typed fields. *)
LEMMA FrameType ==
  ASSUME NEW at \in {"check", "write", "save"}, NEW j \in Jobs, NEW cur \in JobRecord,
         NEW to \in JobStatus, NEW then \in Continuations
  PROVE  /\ Frame(at, j, cur, to, then) \in Frames
         /\ Frame(at, j, cur, to, then).at = at
         /\ Frame(at, j, cur, to, then).job = j
         /\ Frame(at, j, cur, to, then).cur = cur
         /\ Frame(at, j, cur, to, then).to = to
         /\ Frame(at, j, cur, to, then).then = then
BY DEF Frame, Frames

(* policy.transition followed by the start of update() keeps the types. *)
LEMMA AttemptTypes ==
  ASSUME TypeOK, NEW e \in Engines, NEW j \in Jobs, NEW cur \in JobRecord,
         NEW to \in JobStatus, NEW then \in Continuations,
         Attempt(e, j, cur, to, then)
  PROVE  HandlerTypes
<1>1. CASE Raise(e, j, then)
  BY <1>1, RaiseTypes
<1>2. CASE /\ loop' = [loop EXCEPT ![e] = Frame("check", j, cur, to, then)]
           /\ UNCHANGED <<tasks, watching, page>>
  BY <1>2, FrameType DEF TypeOK, HandlerTypes
<1>. QED
  BY <1>1, <1>2 DEF Attempt

(* The first part of _store_execution_result keeps the types. *)
LEMMA StoreTypes ==
  ASSUME TypeOK, NEW e \in Engines, NEW j \in Jobs, NEW then \in Continuations,
         StoreExecutionResult(e, j, then)
  PROVE  HandlerTypes
<1>. DEFINE cur    == jobs[j]
            result == tasks[e][j]
<1>0. cur \in JobRecord
  BY DEF TypeOK
<1>1. CASE /\ watching' = IF then = "store" THEN [watching EXCEPT ![e] = @ \ {j}] ELSE watching
           /\ UNCHANGED <<loop, tasks, page>>
  BY <1>1 DEF TypeOK, HandlerTypes
<1>2. CASE /\ result \in ResultStatuses
           /\ loop' = [loop EXCEPT ![e] = Frame("save", j, cur, result, then)]
           /\ UNCHANGED <<tasks, watching, page>>
  <2>1. result \in JobStatus
    BY <1>2 DEF ResultStatuses, JobStatus
  <2>. QED
    BY <1>0, <1>2, <2>1, FrameType DEF TypeOK, HandlerTypes
<1>3. CASE IF cur.status \in {"created", "cancel_requested"}
           THEN Attempt(e, j, cur, "cancelled", then)
           ELSE Attempt(e, j, cur, "cancel_requested", "settle")
  BY <1>0, <1>3, AttemptTypes DEF JobStatus, Continuations
<1>4. CASE Attempt(e, j, cur, "failed", then)
  BY <1>0, <1>4, AttemptTypes DEF JobStatus
<1>. QED
  BY <1>1, <1>2, <1>3, <1>4 DEF StoreExecutionResult

(* The UPDATE of a handler at "write". *)
LEMMA CommitTypes ==
  ASSUME TypeOK, NEW e \in Engines, Commit(e)
  PROVE  /\ loop[e].job \in Jobs
         /\ loop[e].cur \in JobRecord
         /\ transition(loop[e].cur, loop[e].to) \in JobRecord
         /\ jobs' \in [Jobs -> JobRecord]
<1>1. loop[e].at = "write" /\ loop[e] \in Frames
  BY DEF Commit, TypeOK
<1>2. loop[e].job \in Jobs /\ loop[e].cur \in JobRecord /\ loop[e].to \in JobStatus
  BY <1>1 DEF TypeOK, Frames
<1>3. transition(loop[e].cur, loop[e].to) \in JobRecord
  BY <1>2, RecordTypes
<1>. QED
  BY <1>2, <1>3 DEF Commit, TypeOK

(* A handler that goes on keeps the types. *)
LEMMA ContinueTypes ==
  ASSUME TypeOK, NEW e \in Engines, Continue(e)
  PROVE  TypeOK'
<1>. DEFINE f == loop[e]
<1>0. /\ f \in Frames
      /\ f.cur \in JobRecord
      /\ f.then \in Continuations
      /\ f.at \in {"check", "write", "save"} => f.job \in Jobs /\ f.to \in JobStatus
      /\ f.at = "save" => f.to \in ResultStatuses
  BY DEF TypeOK, Frames
<1>1. CASE CheckVersion(e)
  <2>1. f.at = "check" /\ UNCHANGED <<tables, lifetime, revoked>>
    BY <1>1 DEF CheckVersion
  <2>2. HandlerTypes
    <3>1. CASE /\ loop' = [loop EXCEPT ![e].at = "write"]
               /\ UNCHANGED <<tasks, watching, page>>
      BY <1>0, <2>1, <3>1 DEF TypeOK, HandlerTypes, Frames
    <3>2. CASE Raise(e, f.job, f.then)
      BY <1>0, <2>1, <3>2, RaiseTypes
    <3>. QED
      BY <1>1, <3>1, <3>2 DEF CheckVersion
  <2>. QED
    BY <2>1, <2>2 DEF TypeOK, HandlerTypes, tables, lifetime
<1>2. CASE SaveResult(e)
  <2>1. /\ f.at = "save"
        /\ Attempt(e, f.job, f.cur, f.to, f.then)
        /\ results' = [results EXCEPT ![f.job] = f.to]
        /\ UNCHANGED <<jobs, created_at, clock, lifetime, revoked>>
    BY <1>2 DEF SaveResult
  <2>2. HandlerTypes
    BY <1>0, <2>1, AttemptTypes
  <2>3. results' \in [Jobs -> {"none"} \cup ResultStatuses]
    BY <1>0, <2>1 DEF TypeOK
  <2>. QED
    BY <2>1, <2>2, <2>3 DEF TypeOK, HandlerTypes, lifetime
<1>3. CASE Spawn(e)
  <2>1. /\ Commit(e)
        /\ tasks'    = [tasks EXCEPT ![e][f.job] = "pending"]
        /\ watching' = [watching EXCEPT ![e] = @ \cup {f.job}]
        /\ loop'     = [loop EXCEPT ![e] = Idle]
        /\ UNCHANGED <<page, revoked>>
    BY <1>3 DEF Spawn
  <2>2. f.job \in Jobs /\ jobs' \in [Jobs -> JobRecord]
    BY <2>1, CommitTypes
  <2>3. tasks' \in [Engines -> [Jobs -> TaskStates]]
    BY <2>1, <2>2 DEF TypeOK, TaskStates
  <2>4. watching' \in [Engines -> SUBSET Jobs]
    BY <2>1, <2>2 DEF TypeOK
  <2>. QED
    BY <2>1, <2>2, <2>3, <2>4, FrameTypes DEF Commit, TypeOK, lifetime
<1>4. CASE Process(e)
  BY <1>4, CommitTypes, FrameTypes DEF Process, Commit, TypeOK, TaskStates, lifetime
<1>5. CASE Settle(e)
  <2>. DEFINE g == Frame("check", f.job, transition(f.cur, f.to), "cancelled", "store")
  <2>0. f.job \in Jobs /\ transition(f.cur, f.to) \in JobRecord
    BY <1>5, CommitTypes DEF Settle
  <2>1. g \in Frames /\ g.at = "check" /\ g.job \in Jobs /\ g.to \in JobStatus
    <3>1. "cancelled" \in JobStatus /\ "store" \in Continuations /\ "check" \in {"check", "write", "save"}
      BY DEF JobStatus, Continuations
    <3>. QED
      BY <2>0, <3>1, FrameType
  <2>. QED
    BY <1>5, <2>1, CommitTypes DEF Settle, Commit, TypeOK, lifetime, executions
<1>6. CASE Finish(e)
  BY <1>6, CommitTypes, FrameTypes DEF Finish, Commit, TypeOK, lifetime
<1>7. CASE Revoke(e)
  <2>. DEFINE g == Frame("check", f.job, transition(f.cur, f.to), "cancelled", "end")
  <2>0. f.job \in Jobs /\ transition(f.cur, f.to) \in JobRecord
    BY <1>7, CommitTypes DEF Revoke
  <2>1. g \in Frames /\ g.at = "check" /\ g.job \in Jobs /\ g.to \in JobStatus
    <3>1. "cancelled" \in JobStatus /\ "end" \in Continuations /\ "check" \in {"check", "write", "save"}
      BY DEF JobStatus, Continuations
    <3>. QED
      BY <2>0, <3>1, FrameType
  <2>2. loop' = [loop EXCEPT ![e] = g] \/ loop' = [loop EXCEPT ![e] = Idle]
    BY <1>7 DEF Revoke
  <2>3. revoked' \in [Engines -> SUBSET Jobs]
    BY <1>7, CommitTypes DEF Revoke, TypeOK
  <2>4. UNCHANGED <<results, created_at, clock, engine, recovered, page, tasks, watching>>
    BY <1>7 DEF Revoke, Commit, lifetime
  <2>. QED
    BY <1>7, <2>1, <2>2, <2>3, <2>4, CommitTypes, FrameTypes DEF Revoke, TypeOK
<1>8. CASE RecoverRecord(e)
  <2>1. PICK j \in Remaining(e) :
          Attempt(e, j, page[e][j],
                  IF page[e][j].status = "cancel_requested" THEN "cancelled" ELSE "failed",
                  "sweep")
    BY <1>8 DEF RecoverRecord
  <2>2. j \in Jobs /\ page[e][j] \in JobRecord
    BY DEF Remaining, TypeOK
  <2>3. HandlerTypes
    BY <2>1, <2>2, AttemptTypes DEF JobStatus, Continuations
  <2>. QED
    BY <1>8, <2>3 DEF RecoverRecord, TypeOK, HandlerTypes, tables, lifetime
<1>9. CASE Recovered(e)
  BY <1>9, CommitTypes, FrameTypes, RecordTypes
  DEF Recovered, Commit, TypeOK, lifetime, executions
<1>10. CASE FinishSweep(e)
  BY <1>10, FrameTypes DEF FinishSweep, TypeOK, tables, executions
<1>. QED
  BY <1>1, <1>2, <1>3, <1>4, <1>5, <1>6, <1>7, <1>8, <1>9, <1>10 DEF Continue

(* Requests, the task's steps and the watcher's start keep the types. *)
LEMMA RequestTypes ==
  ASSUME TypeOK, NEW e \in Engines, NEW j \in Jobs,
         \/ Submit(e, j) \/ Cancel(e, j) \/ GetResult(e, j)
         \/ StartTask(e, j) \/ EndTask(e, j) \/ Watch(e, j)
  PROVE  TypeOK'
<1>0. jobs[j] \in JobRecord
  BY DEF TypeOK
<1>1. CASE Submit(e, j)
  <2>. DEFINE g == Frame("check", j, new_job_record, "queued", "spawn")
  <2>1. g \in Frames /\ g.at = "check" /\ g.job \in Jobs /\ g.to \in JobStatus
    <3>1. new_job_record \in JobRecord /\ "queued" \in JobStatus /\ "spawn" \in Continuations
      BY RecordTypes DEF JobStatus, Continuations
    <3>. HIDE DEF g
    <3>2. /\ g \in Frames /\ g.at = "check" /\ g.job = j /\ g.to = "queued"
      BY <3>1, FrameType DEF g
    <3>. QED
      BY <3>1, <3>2
  <2>. QED
    BY <1>1, <2>1, RecordTypes DEF Submit, TypeOK, lifetime, executions
<1>2. CASE Cancel(e, j)
  <2>1. HandlerTypes
    BY <1>0, <1>2, AttemptTypes DEF Cancel, JobStatus, Continuations
  <2>. QED
    BY <1>2, <2>1 DEF Cancel, TypeOK, HandlerTypes, tables, lifetime
<1>3. CASE GetResult(e, j)
  <2>1. HandlerTypes
    BY <1>3, StoreTypes DEF GetResult, Continuations
  <2>. QED
    BY <1>3, <2>1 DEF GetResult, TypeOK, HandlerTypes, tables, lifetime
<1>4. CASE StartTask(e, j)
  <2>1. HandlerTypes
    BY <1>0, <1>4, AttemptTypes DEF StartTask, JobStatus, Continuations
  <2>. QED
    BY <1>4, <2>1 DEF StartTask, TypeOK, HandlerTypes, tables, lifetime
<1>5. CASE EndTask(e, j)
  <2>1. PICK result \in Outcomes \cup {"cancelled"} :
          tasks' = [tasks EXCEPT ![e][j] = result]
    BY <1>5 DEF EndTask
  <2>2. result \in TaskStates
    BY JobsAssumption DEF TaskStates, TaskResults
  <2>. QED
    BY <1>5, <2>1, <2>2 DEF EndTask, TypeOK, tables, lifetime
<1>6. CASE Watch(e, j)
  <2>1. HandlerTypes
    BY <1>6, StoreTypes DEF Watch, Continuations
  <2>. QED
    BY <1>6, <2>1 DEF Watch, TypeOK, HandlerTypes, tables, lifetime
<1>. QED
  BY <1>1, <1>2, <1>3, <1>4, <1>5, <1>6

(* Opening, stopping and sweeping engines keep the types. *)
LEMMA ProcessTypes ==
  ASSUME TypeOK, NEW e \in Engines,
         StoreFault(e) \/ List(e) \/ Shutdown(e) \/ Stop(e) \/ Open(e)
  PROVE  TypeOK'
<1>1. CASE StoreFault(e)
  <2>1. loop[e].job \in Jobs /\ loop[e].then \in Continuations
    BY <1>1 DEF StoreFault, TypeOK, Frames
  <2>2. HandlerTypes
    BY <1>1, <2>1, RaiseTypes DEF StoreFault
  <2>. QED
    BY <1>1, <2>2 DEF StoreFault, TypeOK, HandlerTypes, tables, lifetime
<1>2. CASE List(e)
  BY <1>2, FrameTypes, RecordTypes DEF List, TypeOK, tables, lifetime, executions
<1>3. CASE Shutdown(e)
  BY <1>3 DEF Shutdown, TypeOK, tables
<1>4. CASE Stop(e)
  BY <1>4, FrameTypes, RecordTypes DEF Stop, TypeOK, tables, TaskStates
<1>5. CASE Open(e)
  BY <1>5 DEF Open, TypeOK, tables, executions
<1>. QED
  BY <1>1, <1>2, <1>3, <1>4, <1>5

(* Every variable keeps its type in every step of every instance. *)
THEOREM TypeCorrect == Spec => []TypeOK
<1>1. Init => TypeOK
  BY FrameTypes, RecordTypes DEF Init, TypeOK, TaskStates
<1>2. TypeOK /\ [Next]_vars => TypeOK'
  <2>1. CASE UNCHANGED vars
    BY <2>1 DEF TypeOK, vars
  <2>2. ASSUME TypeOK, Next PROVE TypeOK'
    BY <2>2, ContinueTypes, RequestTypes, ProcessTypes DEF Next
  <2>. QED
    BY <2>1, <2>2
<1>. QED
  BY <1>1, <1>2, PTL DEF Spec

-----------------------------------------------------------------------------
(* What a record says of its result, whatever engines do                   *)

(* transition() announces a result exactly in a result status. *)
LEMMA TransitionFlag ==
  ASSUME NEW r \in JobRecord, NEW to \in JobStatus, ~r.result_available
  PROVE  /\ transition(r, to).status = to
         /\ transition(r, to).result_available <=> to \in ResultStatuses
BY DEF transition, JobRecord

(* The fields of a continuation. *)
LEMMA FrameFields ==
  ASSUME NEW at, NEW j, NEW cur, NEW to, NEW then
  PROVE  /\ Frame(at, j, cur, to, then).at = at
         /\ Frame(at, j, cur, to, then).job = j
         /\ Frame(at, j, cur, to, then).cur = cur
         /\ Frame(at, j, cur, to, then).to = to
         /\ Frame(at, j, cur, to, then).then = then
BY DEF Frame

(* A handler of e that is left keeps the invariant if the rows do. *)
LEMMA LeaveKeeps ==
  ASSUME TypeOK, ResultInv, NEW e \in Engines,
         loop' = [loop EXCEPT ![e] = Idle] \/ loop' = [loop EXCEPT ![e] = Sweeping],
         ResultConsistent', UNCHANGED <<results, created_at, tasks>>,
         ListedUnpublished'
  PROVE  ResultInv'
<1>1. \A g \in Engines : InUpdate(g)' => g # e /\ InUpdate(g) /\ loop'[g] = loop[g]
  BY FrameTypes DEF TypeOK, InUpdate
<1>2. OneOwner'
  BY DEF ResultInv, OneOwner, Started
<1>3. SubmitAlone'
  BY <1>1 DEF ResultInv, SubmitAlone, Started
<1>4. WriteBacked'
  BY <1>1 DEF ResultInv, WriteBacked
<1>. QED
  BY <1>2, <1>3, <1>4 DEF ResultInv

(* So does one that enters an update which the tables back. *)
LEMMA EnterKeeps ==
  ASSUME TypeOK, ResultInv, NEW e \in Engines, NEW f,
         f.then # "spawn",
         loop' = [loop EXCEPT ![e] = f],
         ResultConsistent', UNCHANGED <<results, created_at, tasks, page>>,
         ~f.cur.result_available,
         f.then = "process" => tasks[e][f.job] = "pending",
         f.to \in ResultStatuses =>
           /\ f.then \in {"store", "reply"}
           /\ tasks[e][f.job] = f.to
           /\ f.at # "save" => results[f.job] = f.to
  PROVE  ResultInv'
<1>1. \A g \in Engines \ {e} : loop'[g] = loop[g]
  BY DEF TypeOK
<1>2. loop'[e] = f
  BY DEF TypeOK
<1>3. OneOwner' /\ ListedUnpublished'
  BY DEF ResultInv, OneOwner, Started, ListedUnpublished
<1>4. SubmitAlone'
  BY <1>1, <1>2 DEF ResultInv, SubmitAlone, Started, InUpdate
<1>5. WriteBacked'
  BY <1>1, <1>2 DEF ResultInv, WriteBacked, InUpdate
<1>. QED
  BY <1>3, <1>4, <1>5 DEF ResultInv

(* No result of the job is stored and no other engine has a part in it. *)
Unstored(e, j) ==
  /\ created_at[j] # 0 /\ results[j] = "none"
  /\ \A g \in Engines \ {e} :
       ~Started(g, j) /\ ~(InUpdate(g) /\ loop[g].then = "spawn" /\ loop[g].job = j)

(* A task that has stored nothing yet takes a new state. *)
LEMMA TaskKeeps ==
  ASSUME TypeOK, ResultInv, NEW e \in Engines, NEW j \in Jobs,
         NEW r \in TaskStates \ {"none"},
         tasks' = [tasks EXCEPT ![e][j] = r],
         loop'  = [loop EXCEPT ![e] = Idle],
         ResultConsistent', ListedUnpublished', UNCHANGED <<results, created_at>>,
         Unstored(e, j)
  PROVE  ResultInv'
<1>1. \A g \in Engines : InUpdate(g)' => g # e /\ InUpdate(g) /\ loop'[g] = loop[g]
  BY FrameTypes DEF TypeOK, InUpdate
<1>2. \A g \in Engines \ {e}, k \in Jobs : tasks'[g][k] = tasks[g][k]
  BY DEF TypeOK
<1>3. \A k \in Jobs \ {j} : tasks'[e][k] = tasks[e][k]
  BY DEF TypeOK
<1>4. tasks'[e][j] = r
  BY DEF TypeOK
<1>5. OneOwner'
  BY <1>2, <1>3, <1>4 DEF ResultInv, OneOwner, Started, Unstored
<1>6. \A g \in Engines : InUpdate(g)' => loop'[g].job \in Jobs
  BY <1>1 DEF TypeOK, InUpdate
<1>7. SubmitAlone'
  BY <1>1, <1>2, <1>3, <1>6 DEF ResultInv, SubmitAlone, Started, Unstored
<1>8. WriteBacked'
  BY <1>1, <1>2, <1>6 DEF ResultInv, WriteBacked
<1>. QED
  BY <1>5, <1>7, <1>8 DEF ResultInv

(* A live task has stored nothing, and no submit is inside its job. *)
LEMMA LiveFacts ==
  ASSUME TypeOK, ResultInv, NEW e \in Engines, NEW j \in Jobs, Live(e, j)
  PROVE  Unstored(e, j)
<1>1. Started(e, j) /\ tasks[e][j] \notin ResultStatuses
  BY DEF Live, Started, ResultStatuses
<1>2. results[j] \in {"none"} \cup ResultStatuses
  BY DEF TypeOK
<1>. QED
  BY <1>1, <1>2 DEF ResultInv, OneOwner, SubmitAlone, Unstored

(* An exception that leaves a handler keeps ResultInv. *)
LEMMA RaiseKeeps ==
  ASSUME TypeOK, ResultInv, NEW e \in Engines, NEW j \in Jobs, NEW then \in Continuations,
         Raise(e, j, then), UNCHANGED <<jobs, results, created_at>>,
         then = "process" => Live(e, j)
  PROVE  ResultInv'
<1>1. loop' = [loop EXCEPT ![e] = Idle] /\ ResultConsistent'
  BY DEF Raise, ResultInv, ResultConsistent
<1>2. ListedUnpublished'
  <2>1. page' \in [Engines -> [Jobs -> JobRecord]]
    BY RaiseTypes DEF HandlerTypes
  <2>2. \A g \in Engines, k \in Jobs : page'[g][k] = page[g][k] \/ page'[g][k] = NoRow
    BY DEF Raise, TypeOK
  <2>3. ~NoRow.result_available
    BY DEF NoRow
  <2>. QED
    BY <2>2, <2>3 DEF ResultInv, ListedUnpublished
<1>3. CASE then = "process"
  <2>1. tasks' = [tasks EXCEPT ![e][j] = "failed"]
    BY <1>3 DEF Raise
  <2>2. "failed" \in TaskStates \ {"none"}
    BY DEF TaskStates, TaskResults
  <2>3. Unstored(e, j)
    BY <1>3, LiveFacts
  <2>4. UNCHANGED <<results, created_at>>
    OBVIOUS
  <2>. QED
    BY <1>1, <1>2, <2>1, <2>2, <2>3, <2>4, TaskKeeps
<1>4. CASE then # "process"
  <2>1. UNCHANGED tasks
    BY <1>4 DEF Raise
  <2>. QED
    BY <1>1, <1>2, <2>1, LeaveKeeps
<1>. QED
  BY <1>3, <1>4

(* policy.transition and the start of update() keep ResultInv. *)
LEMMA AttemptKeeps ==
  ASSUME TypeOK, ResultInv, NEW e \in Engines, NEW j \in Jobs, NEW cur \in JobRecord,
         NEW to \in JobStatus, NEW then \in Continuations \ {"spawn"},
         Attempt(e, j, cur, to, then), UNCHANGED <<jobs, results, created_at>>,
         CanTransition(cur.status, to) => ~cur.result_available,
         then = "process" => tasks[e][j] = "pending",
         to \in ResultStatuses =>
           then \in {"store", "reply"} /\ tasks[e][j] = to /\ results[j] = to
  PROVE  ResultInv'
<1>1. CASE Raise(e, j, then)
  BY <1>1, RaiseKeeps DEF Live
<1>2. CASE /\ CanTransition(cur.status, to)
           /\ loop' = [loop EXCEPT ![e] = Frame("check", j, cur, to, then)]
           /\ UNCHANGED <<tasks, watching, page>>
  <2>1. ResultConsistent'
    BY DEF ResultInv, ResultConsistent
  <2>. DEFINE f == Frame("check", j, cur, to, then)
  <2>2. f.at = "check" /\ f.job = j /\ f.cur = cur /\ f.to = to /\ f.then = then
    BY FrameFields
  <2>3. UNCHANGED <<results, created_at, tasks, page>> /\ loop' = [loop EXCEPT ![e] = f]
    BY <1>2
  <2>4. ~f.cur.result_available
    BY <1>2, <2>2
  <2>. HIDE DEF f
  <2>. QED
    BY <2>1, <2>2, <2>3, <2>4, EnterKeeps
<1>. QED
  BY <1>1, <1>2 DEF Attempt

(* An UPDATE writes a row whose announced result is stored. *)
LEMMA CommitKeepsRows ==
  ASSUME TypeOK, ResultInv, NEW e \in Engines, Commit(e)
  PROVE  ResultConsistent'
<1>. DEFINE f == loop[e]
<1>1. /\ f.at = "write" /\ f.job \in Jobs /\ f.cur \in JobRecord /\ f.to \in JobStatus
      /\ jobs' = [jobs EXCEPT ![f.job] = transition(f.cur, f.to)]
      /\ UNCHANGED results
  BY DEF Commit, TypeOK, Frames
<1>2. ~f.cur.result_available /\ (f.to \in ResultStatuses => results[f.job] = f.to)
  BY <1>1 DEF ResultInv, WriteBacked, InUpdate
<1>3. /\ transition(f.cur, f.to).status = f.to
      /\ transition(f.cur, f.to).result_available <=> f.to \in ResultStatuses
  BY <1>1, <1>2, TransitionFlag
<1>4. jobs'[f.job] = transition(f.cur, f.to) /\ \A k \in Jobs \ {f.job} : jobs'[k] = jobs[k]
  BY <1>1 DEF TypeOK
<1>. HIDE DEF f
<1>. QED
  BY <1>1, <1>2, <1>3, <1>4 DEF ResultInv, ResultConsistent

(* CANCEL_REQUESTED is written and CANCELLED is next. *)
LEMMA CancelledNext ==
  ASSUME TypeOK, ResultInv, NEW e \in Engines, Commit(e),
         loop[e].then \in {"settle", "revoke"}, NEW then \in {"store", "end"},
         loop' = [loop EXCEPT ![e] =
           Frame("check", loop[e].job, transition(loop[e].cur, loop[e].to), "cancelled", then)],
         UNCHANGED <<tasks, page>>
  PROVE  ResultInv'
<1>. DEFINE f == loop[e]
            g == Frame("check", f.job, transition(f.cur, f.to), "cancelled", then)
<1>1. /\ f.at = "write" /\ f.job \in Jobs /\ f.cur \in JobRecord /\ f.to \in JobStatus
      /\ UNCHANGED <<results, created_at>>
  BY DEF Commit, TypeOK, Frames
<1>2. ~f.cur.result_available /\ f.to \notin ResultStatuses
  BY <1>1 DEF ResultInv, WriteBacked, InUpdate
<1>3. ~transition(f.cur, f.to).result_available
  BY <1>1, <1>2, TransitionFlag
<1>4. /\ g.then = then /\ g.to = "cancelled" /\ ~g.cur.result_available
      /\ g.to \notin ResultStatuses /\ g.then # "spawn" /\ g.then # "process"
  BY <1>3, FrameFields DEF ResultStatuses
<1>5. loop' = [loop EXCEPT ![e] = g] /\ ResultConsistent'
  BY CommitKeepsRows
<1>. HIDE DEF g
<1>. QED
  BY <1>1, <1>4, <1>5, EnterKeeps

(* A handler that goes on keeps ResultInv. *)
LEMMA ContinueKeeps ==
  ASSUME TypeOK, ResultInv, NEW e \in Engines, Continue(e)
  PROVE  ResultInv'
<1>. DEFINE f == loop[e]
<1>0. /\ f \in Frames
      /\ f.cur \in JobRecord
      /\ f.then \in Continuations
      /\ InUpdate(e) => f.job \in Jobs /\ f.to \in JobStatus
  BY DEF TypeOK, Frames, InUpdate
<1>f. InUpdate(e) =>
        /\ ~f.cur.result_available
        /\ f.then = "process" => tasks[e][f.job] = "pending"
        /\ f.to \in ResultStatuses =>
             /\ f.then \in {"store", "reply"}
             /\ tasks[e][f.job] = f.to
             /\ f.at # "save" => results[f.job] = f.to
  BY DEF ResultInv, WriteBacked
<1>p. ListedUnpublished
  BY DEF ResultInv
<1>1. CASE CheckVersion(e)
  <2>1. f.at = "check" /\ UNCHANGED <<jobs, results, created_at>>
    BY <1>1 DEF CheckVersion, tables
  <2>2. CASE /\ loop' = [loop EXCEPT ![e].at = "write"]
             /\ UNCHANGED <<tasks, watching, page>>
    <3>. DEFINE g == [f EXCEPT !.at = "write"]
    <3>1. loop' = [loop EXCEPT ![e] = g] /\ UNCHANGED <<results, created_at, tasks, page>>
      BY <2>1, <2>2 DEF TypeOK
    <3>2. /\ g.at = "write" /\ g.job = f.job /\ g.cur = f.cur /\ g.to = f.to /\ g.then = f.then
      BY <1>0 DEF Frames
    <3>3. ResultConsistent'
      BY <2>1 DEF ResultInv, ResultConsistent
    <3>4. \A h \in Engines \ {e} : loop'[h] = loop[h]
      BY <3>1 DEF TypeOK
    <3>5. loop'[e] = g
      BY <3>1 DEF TypeOK
    <3>. HIDE DEF g
    <3>6. OneOwner' /\ ListedUnpublished'
      BY <2>1, <2>2 DEF ResultInv, OneOwner, Started, ListedUnpublished
    <3>7. SubmitAlone'
      BY <2>1, <2>2, <3>2, <3>4, <3>5 DEF ResultInv, SubmitAlone, Started, InUpdate
    <3>8. WriteBacked'
      BY <2>1, <2>2, <3>2, <3>4, <3>5 DEF ResultInv, WriteBacked, InUpdate
    <3>. QED
      BY <3>3, <3>6, <3>7, <3>8 DEF ResultInv
  <2>3. CASE Raise(e, f.job, f.then)
    <3>1. f.then = "process" => Live(e, f.job)
      BY <1>f, <2>1 DEF InUpdate, Live
    <3>. QED
      BY <1>0, <2>1, <2>3, <3>1, RaiseKeeps DEF InUpdate
  <2>. QED
    BY <1>1, <2>2, <2>3 DEF CheckVersion
<1>2. CASE SaveResult(e)
  <2>1. /\ f.at = "save" /\ InUpdate(e)
        /\ Attempt(e, f.job, f.cur, f.to, f.then)
        /\ results' = [results EXCEPT ![f.job] = f.to]
        /\ UNCHANGED <<jobs, created_at>>
    BY <1>2 DEF SaveResult, InUpdate
  <2>2. f.to \in ResultStatuses /\ f.job \in Jobs /\ f.then \in {"store", "reply"} /\ tasks[e][f.job] = f.to
    BY <1>0, <1>f, <2>1 DEF TypeOK
  <2>3. /\ results'[f.job] = f.to /\ \A k \in Jobs \ {f.job} : results'[k] = results[k]
    BY <2>1, <2>2 DEF TypeOK
  <2>4. results[f.job] # "none" => results[f.job] = f.to
    BY <2>2 DEF ResultInv, OneOwner, Started, ResultStatuses
  <2>5. Started(e, f.job) /\ \A g \in Engines \ {e} : ~Started(g, f.job)
    BY <2>2 DEF ResultInv, OneOwner, Started, ResultStatuses
  <2>6. /\ UNCHANGED <<tasks, page>>
        /\ \/ loop' = [loop EXCEPT ![e] = Idle]
           \/ loop' = [loop EXCEPT ![e] = Frame("check", f.job, f.cur, f.to, f.then)]
    BY <2>1, <2>2 DEF Attempt, Raise
  <2>7. ResultConsistent'
    BY <2>1, <2>3, <2>4 DEF ResultInv, ResultConsistent, ResultStatuses, TypeOK
  <2>8. OneOwner'
    BY <2>1, <2>2, <2>3, <2>4, <2>5, <2>6 DEF ResultInv, OneOwner, Started
  <2>9. ListedUnpublished'
    BY <1>p, <2>6 DEF ListedUnpublished
  <2>10. /\ \A g \in Engines \ {e} : loop'[g] = loop[g]
         /\ \/ loop'[e] = Idle
            \/ loop'[e] = Frame("check", f.job, f.cur, f.to, f.then)
    BY <2>6 DEF TypeOK
  <2>11. /\ Frame("check", f.job, f.cur, f.to, f.then).at = "check"
         /\ Frame("check", f.job, f.cur, f.to, f.then).job = f.job
         /\ Frame("check", f.job, f.cur, f.to, f.then).cur = f.cur
         /\ Frame("check", f.job, f.cur, f.to, f.then).to = f.to
         /\ Frame("check", f.job, f.cur, f.to, f.then).then = f.then
    BY FrameFields
  <2>12. \A g \in Engines : InUpdate(g)' => loop'[g].job \in Jobs
    BY <2>2, <2>10, <2>11, FrameTypes DEF InUpdate, TypeOK
  <2>13. \A g \in Engines : InUpdate(g)' /\ loop'[g].then = "spawn" =>
           g # e /\ InUpdate(g) /\ loop'[g] = loop[g] /\ loop[g].job # f.job
    BY <2>2, <2>5, <2>10, <2>11, FrameTypes DEF InUpdate, ResultInv, SubmitAlone
  <2>14. SubmitAlone'
    BY <2>1, <2>3, <2>6, <2>12, <2>13 DEF ResultInv, SubmitAlone, Started
  <2>15. WriteBacked'
    <3>. SUFFICES ASSUME NEW g \in Engines, InUpdate(g)'
                  PROVE  LET h == loop'[g] IN
                         /\ ~h.cur.result_available
                         /\ h.then = "process" => tasks[g][h.job] = "pending"
                         /\ h.to \in ResultStatuses =>
                              /\ h.then \in {"store", "reply"}
                              /\ tasks[g][h.job] = h.to
                              /\ h.at # "save" => results'[h.job] = h.to
      BY <2>6 DEF WriteBacked
    <3>1. CASE g = e
      BY <1>f, <2>1, <2>2, <2>3, <2>10, <2>11, <3>1, FrameTypes DEF InUpdate
    <3>2. CASE g # e
      BY <2>3, <2>5, <2>10, <2>12, <3>2
      DEF InUpdate, ResultInv, WriteBacked, Started, ResultStatuses
    <3>. QED
      BY <3>1, <3>2
  <2>. QED
    BY <2>7, <2>8, <2>9, <2>14, <2>15 DEF ResultInv
<1>3. CASE Spawn(e)
  <2>1. /\ Commit(e) /\ f.at = "write" /\ f.then = "spawn" /\ InUpdate(e)
        /\ tasks' = [tasks EXCEPT ![e][f.job] = "pending"]
        /\ loop'  = [loop EXCEPT ![e] = Idle]
        /\ UNCHANGED page
        /\ UNCHANGED <<results, created_at>>
    BY <1>3 DEF Spawn, Commit, InUpdate
  <2>2. Unstored(e, f.job)
    BY <2>1 DEF ResultInv, SubmitAlone, Unstored
  <2>3. "pending" \in TaskStates \ {"none"}
    BY DEF TaskStates
  <2>4. ResultConsistent' /\ ListedUnpublished'
    BY <1>p, <2>1, CommitKeepsRows DEF ListedUnpublished
  <2>. QED
    BY <1>0, <2>1, <2>2, <2>3, <2>4, TaskKeeps
<1>4. CASE Process(e)
  <2>1. /\ Commit(e) /\ f.at = "write" /\ f.then = "process" /\ InUpdate(e)
        /\ tasks' = [tasks EXCEPT ![e][f.job] = "running"]
        /\ loop'  = [loop EXCEPT ![e] = Idle]
        /\ UNCHANGED page
        /\ UNCHANGED <<results, created_at>>
    BY <1>4 DEF Process, Commit, InUpdate
  <2>2. Unstored(e, f.job)
    BY <1>0, <1>f, <2>1, LiveFacts DEF Live
  <2>3. "running" \in TaskStates \ {"none"}
    BY DEF TaskStates
  <2>4. ResultConsistent' /\ ListedUnpublished'
    BY <1>p, <2>1, CommitKeepsRows DEF ListedUnpublished
  <2>. QED
    BY <1>0, <2>1, <2>2, <2>3, <2>4, TaskKeeps
<1>5. CASE Settle(e)
  BY <1>5, CancelledNext DEF Settle, executions
<1>6. CASE Finish(e)
  BY <1>6, <1>p, CommitKeepsRows, LeaveKeeps DEF Finish, Commit, ListedUnpublished
<1>7. CASE Revoke(e)
  <2>1. /\ Commit(e) /\ f.then = "revoke"
        /\ UNCHANGED <<page, tasks>>
        /\ \/ loop' = [loop EXCEPT ![e] =
                 Frame("check", f.job, transition(f.cur, f.to), "cancelled", "end")]
           \/ loop' = [loop EXCEPT ![e] = Idle]
    BY <1>7 DEF Revoke
  <2>2. CASE loop' = [loop EXCEPT ![e] = Idle]
    BY <1>p, <2>1, <2>2, CommitKeepsRows, LeaveKeeps DEF Commit, ListedUnpublished
  <2>. QED
    BY <2>1, <2>2, CancelledNext
<1>8. CASE RecoverRecord(e)
  <2>1. PICK j \in Remaining(e) :
          Attempt(e, j, page[e][j],
                  IF page[e][j].status = "cancel_requested" THEN "cancelled" ELSE "failed",
                  "sweep")
    BY <1>8 DEF RecoverRecord
  <2>. DEFINE to == IF page[e][j].status = "cancel_requested" THEN "cancelled" ELSE "failed"
  <2>2. j \in Jobs /\ page[e][j] \in JobRecord /\ ~page[e][j].result_available
    BY <1>p DEF Remaining, TypeOK, ListedUnpublished
  <2>3. /\ to \in JobStatus /\ to \notin ResultStatuses
        /\ "sweep" \in Continuations \ {"spawn"}
    BY DEF JobStatus, ResultStatuses, Continuations
  <2>4. UNCHANGED <<jobs, results, created_at>>
    BY <1>8 DEF RecoverRecord, tables
  <2>. HIDE DEF to
  <2>5. Attempt(e, j, page[e][j], to, "sweep")
    BY <2>1 DEF to
  <2>. QED
    BY <2>2, <2>3, <2>4, <2>5, AttemptKeeps
<1>9. CASE Recovered(e)
  <2>1. /\ Commit(e) /\ f.job \in Jobs
        /\ page' = [page EXCEPT ![e][f.job] = NoRow]
        /\ loop' = [loop EXCEPT ![e] = Sweeping]
        /\ UNCHANGED <<results, created_at, tasks>>
    BY <1>9, CommitTypes DEF Recovered, Commit, executions
  <2>2. ListedUnpublished'
    BY <1>p, <2>1 DEF ListedUnpublished, NoRow, TypeOK
  <2>. QED
    BY <2>1, <2>2, CommitKeepsRows, LeaveKeeps
<1>10. CASE FinishSweep(e)
  <2>1. loop' = [loop EXCEPT ![e] = Idle] /\ UNCHANGED <<jobs, results, created_at, tasks, page>>
    BY <1>10 DEF FinishSweep, tables, executions
  <2>2. ResultConsistent' /\ ListedUnpublished'
    BY <1>p, <2>1 DEF ResultInv, ResultConsistent, ListedUnpublished
  <2>. QED
    BY <2>1, <2>2, LeaveKeeps
<1>. QED
  BY <1>1, <1>2, <1>3, <1>4, <1>5, <1>6, <1>7, <1>8, <1>9, <1>10 DEF Continue

(* The first part of _store_execution_result keeps ResultInv. *)
LEMMA StoreKeeps ==
  ASSUME TypeOK, ResultInv, NEW e \in Engines, NEW j \in Jobs, NEW then \in {"store", "reply"},
         StoreExecutionResult(e, j, then), UNCHANGED <<jobs, results, created_at>>
  PROVE  ResultInv'
<1>. DEFINE cur    == jobs[j]
            result == tasks[e][j]
<1>0. /\ cur \in JobRecord
      /\ cur.status \notin TERMINAL_STATUSES => ~cur.result_available
      /\ then \in Continuations \ {"spawn"} /\ then # "process"
  BY DEF TypeOK, ResultInv, ResultConsistent, ResultStatuses, TERMINAL_STATUSES, Continuations
<1>c. ResultConsistent'
  BY DEF ResultInv, ResultConsistent
<1>1. CASE UNCHANGED <<loop, tasks, page>>
  BY <1>1 DEF ResultInv, ResultConsistent, OneOwner, SubmitAlone, WriteBacked,
              ListedUnpublished, Started, InUpdate
<1>2. CASE /\ cur.status \notin TERMINAL_STATUSES
           /\ result \in ResultStatuses
           /\ loop' = [loop EXCEPT ![e] = Frame("save", j, cur, result, then)]
           /\ UNCHANGED <<tasks, watching, page>>
  <2>. DEFINE f == Frame("save", j, cur, result, then)
  <2>1. f.at = "save" /\ f.job = j /\ f.cur = cur /\ f.to = result /\ f.then = then
    BY FrameFields
  <2>2. loop' = [loop EXCEPT ![e] = f] /\ UNCHANGED <<results, created_at, tasks, page>>
    BY <1>2
  <2>. HIDE DEF f
  <2>. QED
    BY <1>0, <1>c, <1>2, <2>1, <2>2, EnterKeeps
<1>3. CASE /\ cur.status \notin TERMINAL_STATUSES
           /\ IF cur.status \in {"created", "cancel_requested"}
              THEN Attempt(e, j, cur, "cancelled", then)
              ELSE Attempt(e, j, cur, "cancel_requested", "settle")
  <2>1. /\ "cancelled" \in JobStatus \ ResultStatuses
        /\ "cancel_requested" \in JobStatus \ ResultStatuses
        /\ "settle" \in Continuations \ {"spawn"} /\ "settle" # "process"
    BY DEF JobStatus, ResultStatuses, Continuations
  <2>2. CASE Attempt(e, j, cur, "cancelled", then)
    BY <1>0, <1>3, <2>1, <2>2, AttemptKeeps
  <2>3. CASE Attempt(e, j, cur, "cancel_requested", "settle")
    BY <1>0, <1>3, <2>1, <2>3, AttemptKeeps
  <2>. QED
    BY <1>3, <2>2, <2>3
<1>4. CASE /\ cur.status \notin TERMINAL_STATUSES
           /\ Attempt(e, j, cur, "failed", then)
  <2>1. "failed" \in JobStatus \ ResultStatuses
    BY DEF JobStatus, ResultStatuses
  <2>. QED
    BY <1>0, <1>4, <2>1, AttemptKeeps
<1>. QED
  BY <1>1, <1>2, <1>3, <1>4 DEF StoreExecutionResult

(* Requests, the task's steps and the watcher's start keep ResultInv. *)
LEMMA RequestKeeps ==
  ASSUME TypeOK, ResultInv, NEW e \in Engines, NEW j \in Jobs,
         \/ Submit(e, j) \/ Cancel(e, j) \/ GetResult(e, j)
         \/ StartTask(e, j) \/ EndTask(e, j) \/ Watch(e, j)
  PROVE  ResultInv'
<1>0. /\ jobs[j] \in JobRecord
      /\ jobs[j].result_available => jobs[j].status \in ResultStatuses
  BY DEF TypeOK, ResultInv, ResultConsistent
<1>1. CASE Submit(e, j)
  <2>. DEFINE g == Frame("check", j, new_job_record, "queued", "spawn")
  <2>1. /\ created_at[j] = 0 /\ clock \in Nat
        /\ jobs' = [jobs EXCEPT ![j] = new_job_record]
        /\ created_at' = [created_at EXCEPT ![j] = clock + 1]
        /\ loop' = [loop EXCEPT ![e] = g]
        /\ UNCHANGED <<results, tasks, page>>
    BY <1>1 DEF Submit, executions, TypeOK
  <2>2. g.at = "check" /\ g.job = j /\ g.cur = new_job_record /\ g.to = "queued" /\ g.then = "spawn"
    BY FrameFields
  <2>. HIDE DEF g
  <2>3. /\ ~new_job_record.result_available
        /\ new_job_record.status \notin ResultStatuses
        /\ "queued" \notin ResultStatuses
    BY DEF new_job_record, ResultStatuses
  <2>4. /\ created_at'[j] # 0 /\ \A k \in Jobs \ {j} : created_at'[k] = created_at[k]
    BY <2>1 DEF TypeOK
  <2>5. results[j] = "none" /\ \A h \in Engines : ~Started(h, j)
    BY <2>1 DEF ResultInv, OneOwner
  <2>6. loop'[e] = g /\ \A h \in Engines \ {e} : loop'[h] = loop[h]
    BY <2>1 DEF TypeOK
  <2>7. ResultConsistent'
    BY <2>1, <2>3 DEF ResultInv, ResultConsistent, TypeOK
  <2>8. OneOwner' /\ ListedUnpublished'
    BY <2>1, <2>4 DEF ResultInv, OneOwner, Started, ListedUnpublished
  <2>9. \A h \in Engines \ {e} : ~(InUpdate(h) /\ loop[h].then = "spawn" /\ loop[h].job = j)
    BY <2>1 DEF ResultInv, SubmitAlone
  <2>10. \A h \in Engines : InUpdate(h) => loop[h].job \in Jobs
    BY DEF TypeOK, InUpdate
  <2>11. SubmitAlone'
    BY <2>1, <2>2, <2>4, <2>5, <2>6, <2>9, <2>10 DEF ResultInv, SubmitAlone, Started, InUpdate
  <2>12. WriteBacked'
    BY <2>1, <2>2, <2>3, <2>6 DEF ResultInv, WriteBacked, InUpdate
  <2>. QED
    BY <2>7, <2>8, <2>11, <2>12 DEF ResultInv
<1>2. CASE Cancel(e, j)
  <2>1. /\ ~jobs[j].result_available
        /\ UNCHANGED <<jobs, results, created_at>>
    BY <1>0, <1>2 DEF Cancel, tables, TERMINAL_STATUSES, ResultStatuses
  <2>2. /\ "cancelled" \in JobStatus \ ResultStatuses
        /\ "cancel_requested" \in JobStatus \ ResultStatuses
        /\ "end" \in Continuations \ {"spawn"} /\ "end" # "process"
        /\ "revoke" \in Continuations \ {"spawn"} /\ "revoke" # "process"
    BY DEF JobStatus, ResultStatuses, Continuations
  <2>3. \/ Attempt(e, j, jobs[j], "cancelled", "end")
        \/ Attempt(e, j, jobs[j], "cancel_requested", "revoke")
    BY <1>2 DEF Cancel
  <2>. QED
    BY <1>0, <2>1, <2>2, <2>3, AttemptKeeps
<1>3. CASE GetResult(e, j)
  BY <1>3, StoreKeeps DEF GetResult, tables
<1>4. CASE StartTask(e, j)
  <2>1. /\ tasks[e][j] = "pending" /\ Attempt(e, j, jobs[j], "running", "process")
        /\ UNCHANGED <<jobs, results, created_at>>
    BY <1>4 DEF StartTask, tables
  <2>2. CanTransition(jobs[j].status, "running") => ~jobs[j].result_available
    BY <1>0 DEF CanTransition, allowed_transitions, ResultStatuses
  <2>3. "running" \in JobStatus \ ResultStatuses /\ "process" \in Continuations \ {"spawn"}
    BY DEF JobStatus, ResultStatuses, Continuations
  <2>. QED
    BY <1>0, <2>1, <2>2, <2>3, AttemptKeeps
<1>5. CASE EndTask(e, j)
  <2>1. PICK result \in Outcomes \cup {"cancelled"} :
          /\ Live(e, j)
          /\ tasks' = [tasks EXCEPT ![e][j] = result]
    BY <1>5 DEF EndTask, Live
  <2>2. result \in TaskStates \ {"none"}
    BY JobsAssumption DEF TaskStates, TaskResults
  <2>3. /\ loop' = [loop EXCEPT ![e] = Idle]
        /\ UNCHANGED <<jobs, results, created_at, page>>
    BY <1>5 DEF EndTask, IsIdle, tables, TypeOK
  <2>4. ResultConsistent' /\ ListedUnpublished'
    BY <2>3 DEF ResultInv, ResultConsistent, ListedUnpublished
  <2>5. Unstored(e, j) /\ UNCHANGED <<results, created_at>>
    BY <2>1, <2>3, LiveFacts
  <2>. QED
    BY <2>1, <2>2, <2>3, <2>4, <2>5, TaskKeeps
<1>6. CASE Watch(e, j)
  BY <1>6, StoreKeeps DEF Watch, tables
<1>. QED
  BY <1>1, <1>2, <1>3, <1>4, <1>5, <1>6

(* Opening, stopping and sweeping engines keep ResultInv. *)
LEMMA ProcessKeeps ==
  ASSUME TypeOK, ResultInv, NEW e \in Engines,
         StoreFault(e) \/ List(e) \/ Shutdown(e) \/ Stop(e) \/ Open(e)
  PROVE  ResultInv'
<1>1. CASE StoreFault(e)
  <2>1. /\ InUpdate(e) /\ loop[e].job \in Jobs /\ loop[e].then \in Continuations
        /\ Raise(e, loop[e].job, loop[e].then)
        /\ UNCHANGED <<jobs, results, created_at>>
    BY <1>1 DEF StoreFault, TypeOK, Frames, InUpdate, tables
  <2>2. loop[e].then = "process" => Live(e, loop[e].job)
    BY <2>1 DEF ResultInv, WriteBacked, Live
  <2>. QED
    BY <2>1, <2>2, RaiseKeeps
<1>2. CASE List(e)
  <2>1. /\ loop' = [loop EXCEPT ![e] = Sweeping]
        /\ UNCHANGED <<jobs, results, created_at, tasks>>
    BY <1>2 DEF List, tables, executions
  <2>2. \A j \in Jobs : jobs[j].status \notin TERMINAL_STATUSES => ~jobs[j].result_available
    BY DEF ResultInv, ResultConsistent, ResultStatuses, TERMINAL_STATUSES
  <2>3. ListedUnpublished'
    BY <1>2, <2>2 DEF List, ResultInv, ListedUnpublished, NoRow, TypeOK
  <2>4. ResultConsistent'
    BY <2>1 DEF ResultInv, ResultConsistent
  <2>. QED
    BY <2>1, <2>3, <2>4, LeaveKeeps
<1>3. CASE UNCHANGED <<tables, page, tasks, loop>>
  BY <1>3 DEF tables, ResultInv, ResultConsistent, OneOwner, SubmitAlone, WriteBacked,
              ListedUnpublished, Started, InUpdate
<1>4. CASE Stop(e)
  <2>1. /\ loop' = [loop EXCEPT ![e] = Idle]
        /\ page' = [page EXCEPT ![e] = [j \in Jobs |-> NoRow]]
        /\ tasks' = [tasks EXCEPT ![e] = [j \in Jobs |-> "none"]]
        /\ UNCHANGED <<jobs, results, created_at>>
    BY <1>4 DEF Stop, tables
  <2>2. \A g \in Engines : InUpdate(g)' => g # e /\ InUpdate(g) /\ loop'[g] = loop[g]
    BY <2>1, FrameTypes DEF TypeOK, InUpdate
  <2>3. /\ \A g \in Engines \ {e} : tasks'[g] = tasks[g]
        /\ \A j \in Jobs : tasks'[e][j] = "none"
    BY <2>1 DEF TypeOK
  <2>4. ResultConsistent' /\ ListedUnpublished'
    BY <2>1 DEF ResultInv, ResultConsistent, ListedUnpublished, NoRow, TypeOK
  <2>5. OneOwner'
    BY <2>1, <2>3 DEF ResultInv, OneOwner, Started
  <2>6. \A g \in Engines : InUpdate(g)' => loop'[g].job \in Jobs
    BY <2>2 DEF TypeOK, InUpdate
  <2>7. SubmitAlone'
    BY <2>1, <2>2, <2>3, <2>6 DEF ResultInv, SubmitAlone, Started
  <2>8. WriteBacked'
    BY <2>1, <2>2, <2>3 DEF ResultInv, WriteBacked
  <2>. QED
    BY <2>4, <2>5, <2>7, <2>8 DEF ResultInv
<1>. QED
  BY <1>1, <1>2, <1>3, <1>4 DEF Shutdown, Open, executions

(* The inductive invariant holds for every number of engines. *)
THEOREM ResultsOwned == Spec => []ResultInv
<1>1. Init => ResultInv
  BY FrameTypes DEF Init, ResultInv, ResultConsistent, OneOwner, SubmitAlone, WriteBacked,
                    ListedUnpublished, Started, InUpdate, NoRow, ResultStatuses
<1>2. TypeOK /\ ResultInv /\ [Next]_vars => ResultInv'
  <2>1. CASE UNCHANGED vars
    BY <2>1 DEF vars, ResultInv, ResultConsistent, OneOwner, SubmitAlone, WriteBacked,
                ListedUnpublished, Started, InUpdate
  <2>2. ASSUME TypeOK, ResultInv, Next PROVE ResultInv'
    BY <2>2, ContinueKeeps, RequestKeeps, ProcessKeeps DEF Next
  <2>. QED
    BY <2>1, <2>2
<1>. QED
  BY <1>1, <1>2, TypeCorrect, PTL DEF Spec

(* A published result is stored and of the announced kind in every         *)
(* reachable state, whatever engines, crashes and failed statements did.   *)
THEOREM ResultsConsistent == Spec => []ResultConsistent
<1>1. ResultInv => ResultConsistent
  BY DEF ResultInv
<1>. QED
  BY <1>1, ResultsOwned, PTL

-----------------------------------------------------------------------------
(* A single engine                                                         *)

SingleEngine == \A e, g \in Engines : e = g

(* One engine: an exception that leaves a handler keeps RecordInv. *)
LEMMA SoleRaise ==
  ASSUME SingleEngine, TypeOK, RecordInv, NEW e \in Engines, NEW j \in Jobs,
         NEW then \in Continuations,
         Raise(e, j, then), UNCHANGED <<jobs, created_at>>,
         then = "sweep" \/ PageEmpty(e)
  PROVE  RecordInv'
<1>1. loop'[e] = Idle /\ \A g \in Engines : g = e
  BY DEF Raise, TypeOK, SingleEngine
<1>2. ~InUpdate(e)'
  BY <1>1, FrameTypes DEF InUpdate
<1>3. PageEmpty(e)'
  BY DEF Raise, PageEmpty, TypeOK
<1>. QED
  BY <1>1, <1>2, <1>3 DEF RecordInv, PageEmpty

(* One engine: entering an update of the current row keeps RecordInv. *)
LEMMA SoleEnter ==
  ASSUME SingleEngine, TypeOK, RecordInv, NEW e \in Engines, NEW f,
         loop' = [loop EXCEPT ![e] = f], f.at \in {"check", "write", "save"},
         UNCHANGED <<jobs, created_at, page>>,
         f.cur = jobs[f.job], f.cur.status \notin TERMINAL_STATUSES,
         f.at # "save" => CanTransition(f.cur.status, f.to),
         f.then \in {"settle", "revoke"} => f.to = "cancel_requested",
         f.then = "sweep" \/ PageEmpty(e)
  PROVE  RecordInv'
<1>1. loop'[e] = f /\ \A g \in Engines : g = e
  BY DEF TypeOK, SingleEngine
<1>. QED
  BY <1>1 DEF RecordInv, PageEmpty, InUpdate

(* One engine: policy.transition on the current row keeps RecordInv. *)
LEMMA SoleAttempt ==
  ASSUME SingleEngine, TypeOK, RecordInv, NEW e \in Engines, NEW j \in Jobs,
         NEW to \in JobStatus, NEW then \in Continuations,
         Attempt(e, j, jobs[j], to, then), UNCHANGED <<jobs, created_at>>,
         CanTransition(jobs[j].status, to) => jobs[j].status \notin TERMINAL_STATUSES,
         then \in {"settle", "revoke"} => to = "cancel_requested",
         then = "sweep" \/ PageEmpty(e)
  PROVE  RecordInv'
<1>1. CASE Raise(e, j, then)
  BY <1>1, SoleRaise
<1>2. CASE /\ CanTransition(jobs[j].status, to)
           /\ loop' = [loop EXCEPT ![e] = Frame("check", j, jobs[j], to, then)]
           /\ UNCHANGED <<tasks, watching, page>>
  <2>. DEFINE f == Frame("check", j, jobs[j], to, then)
  <2>1. f.at = "check" /\ f.job = j /\ f.cur = jobs[j] /\ f.to = to /\ f.then = then
    BY FrameFields
  <2>2. loop' = [loop EXCEPT ![e] = f] /\ UNCHANGED <<jobs, created_at, page>>
    BY <1>2
  <2>. HIDE DEF f
  <2>3. f.cur = jobs[f.job] /\ f.cur.status \notin TERMINAL_STATUSES
    BY <1>2, <2>1
  <2>. QED
    BY <1>2, <2>1, <2>2, <2>3, SoleEnter
<1>. QED
  BY <1>1, <1>2 DEF Attempt

(* One engine: _store_execution_result's first part keeps RecordInv. *)
LEMMA SoleStore ==
  ASSUME SingleEngine, TypeOK, RecordInv, NEW e \in Engines, NEW j \in Jobs,
         NEW then \in {"store", "reply"},
         loop[e] = Idle,
         StoreExecutionResult(e, j, then), UNCHANGED <<jobs, created_at>>
  PROVE  RecordInv'
<1>. DEFINE cur    == jobs[j]
            result == tasks[e][j]
<1>0. PageEmpty(e) /\ then \in Continuations
  BY FrameTypes DEF RecordInv, InUpdate, Continuations
<1>1. CASE UNCHANGED <<loop, page>>
  BY <1>1 DEF RecordInv, PageEmpty, InUpdate
<1>2. CASE /\ cur.status \notin TERMINAL_STATUSES
           /\ loop' = [loop EXCEPT ![e] = Frame("save", j, cur, result, then)]
           /\ UNCHANGED <<tasks, watching, page>>
  <2>. DEFINE f == Frame("save", j, cur, result, then)
  <2>1. f.at = "save" /\ f.job = j /\ f.cur = cur /\ f.to = result /\ f.then = then
    BY FrameFields
  <2>2. loop' = [loop EXCEPT ![e] = f] /\ UNCHANGED <<jobs, created_at, page>>
    BY <1>2
  <2>. HIDE DEF f
  <2>. QED
    BY <1>0, <1>2, <2>1, <2>2, SoleEnter
<1>3. CASE /\ cur.status \notin TERMINAL_STATUSES
           /\ \/ Attempt(e, j, cur, "cancelled", then)
              \/ Attempt(e, j, cur, "cancel_requested", "settle")
              \/ Attempt(e, j, cur, "failed", then)
  <2>1. /\ "cancelled" \in JobStatus /\ "cancel_requested" \in JobStatus
        /\ "failed" \in JobStatus /\ "settle" \in Continuations
    BY DEF JobStatus, Continuations
  <2>2. CASE Attempt(e, j, cur, "cancelled", then)
    BY <1>0, <1>3, <2>1, <2>2, SoleAttempt
  <2>3. CASE Attempt(e, j, cur, "cancel_requested", "settle")
    BY <1>0, <1>3, <2>1, <2>3, SoleAttempt
  <2>4. CASE Attempt(e, j, cur, "failed", then)
    BY <1>0, <1>3, <2>1, <2>4, SoleAttempt
  <2>. QED
    BY <1>3, <2>2, <2>3, <2>4
<1>. QED
  BY <1>1, <1>2, <1>3 DEF StoreExecutionResult

(* The row an UPDATE replaces is the row its handler read. *)
LEMMA SoleCommit ==
  ASSUME SingleEngine, TypeOK, RecordInv, NEW e \in Engines, Commit(e)
  PROVE  LET f == loop[e] IN
         /\ InUpdate(e) /\ f.job \in Jobs /\ f.to \in JobStatus
         /\ jobs[f.job].status \notin TERMINAL_STATUSES
         /\ CanTransition(jobs[f.job].status, f.to)
         /\ jobs' = [jobs EXCEPT ![f.job] = transition(jobs[f.job], f.to)]
         /\ created_at[f.job] # 0
         /\ f.then \in {"settle", "revoke"} => f.to = "cancel_requested"
         /\ f.then = "sweep" \/ PageEmpty(e)
<1>. DEFINE f == loop[e]
<1>1. f.at = "write" /\ InUpdate(e) /\ f.job \in Jobs /\ f.to \in JobStatus
  BY DEF Commit, TypeOK, InUpdate
<1>2. /\ f.cur = jobs[f.job]
      /\ f.cur.status \notin TERMINAL_STATUSES
      /\ CanTransition(f.cur.status, f.to)
      /\ f.then \in {"settle", "revoke"} => f.to = "cancel_requested"
      /\ f.then = "sweep" \/ PageEmpty(e)
  BY <1>1 DEF RecordInv
<1>3. created_at[f.job] # 0
  <2>1. SUFFICES ASSUME jobs[f.job] = NoRow PROVE FALSE
    BY <1>1 DEF RecordInv
  <2>2. CanTransition("absent", f.to)
    BY <1>2, <2>1 DEF NoRow
  <2>. QED
    BY <1>1, <2>2 DEF CanTransition, allowed_transitions, JobStatus
<1>. QED
  BY <1>1, <1>2, <1>3 DEF Commit

(* An UPDATE after which e's loop is idle or goes on sweeping. *)
LEMMA SoleCommitKeeps ==
  ASSUME SingleEngine, TypeOK, RecordInv, NEW e \in Engines, Commit(e),
         \/ loop' = [loop EXCEPT ![e] = Idle] /\ loop[e].then # "sweep" /\ UNCHANGED page
         \/ /\ loop' = [loop EXCEPT ![e] = Sweeping]
            /\ page' = [page EXCEPT ![e][loop[e].job] = NoRow]
  PROVE  RecordInv'
<1>. DEFINE f == loop[e]
<1>1. /\ f.job \in Jobs /\ created_at[f.job] # 0 /\ UNCHANGED created_at
      /\ jobs' = [jobs EXCEPT ![f.job] = transition(jobs[f.job], f.to)]
      /\ f.then = "sweep" \/ PageEmpty(e)
  BY SoleCommit DEF Commit
<1>2. \A k \in Jobs \ {f.job} : jobs'[k] = jobs[k]
  BY <1>1 DEF TypeOK
<1>3. \A g \in Engines : g = e
  BY DEF SingleEngine
<1>4. (loop'[e] = Idle /\ PageEmpty(e)') \/ loop'[e] = Sweeping
  BY <1>1 DEF TypeOK, PageEmpty
<1>5. ~InUpdate(e)'
  BY <1>4, FrameTypes DEF InUpdate
<1>6. \A k \in Jobs : page'[e][k] # NoRow => k # f.job /\ page'[e][k] = page[e][k]
  BY <1>1, <1>4 DEF TypeOK, PageEmpty
<1>. QED
  BY <1>1, <1>2, <1>3, <1>4, <1>5, <1>6, FrameTypes DEF RecordInv

(* One engine: CANCEL_REQUESTED is written and CANCELLED is next. *)
LEMMA SoleCancelledNext ==
  ASSUME SingleEngine, TypeOK, RecordInv, NEW e \in Engines, Commit(e),
         loop[e].then \in {"settle", "revoke"}, NEW then \in {"store", "end"},
         loop' = [loop EXCEPT ![e] =
           Frame("check", loop[e].job, transition(loop[e].cur, loop[e].to), "cancelled", then)],
         UNCHANGED page
  PROVE  RecordInv'
<1>. DEFINE f == loop[e]
            g == Frame("check", f.job, transition(f.cur, f.to), "cancelled", then)
<1>1. /\ f.job \in Jobs /\ created_at[f.job] # 0 /\ UNCHANGED created_at
      /\ f.to = "cancel_requested" /\ PageEmpty(e)
      /\ jobs' = [jobs EXCEPT ![f.job] = transition(f.cur, f.to)]
  BY SoleCommit DEF Commit
<1>2. jobs'[f.job] = transition(f.cur, f.to) /\ \A k \in Jobs \ {f.job} : jobs'[k] = jobs[k]
  BY <1>1 DEF TypeOK
<1>3. /\ g.at = "check" /\ g.job = f.job /\ g.cur = jobs'[f.job]
      /\ g.to = "cancelled" /\ g.then = then
  BY <1>2, FrameFields
<1>4. jobs'[f.job].status = "cancel_requested"
  BY <1>1, <1>2 DEF transition
<1>5. CanTransition("cancel_requested", "cancelled") /\ "cancel_requested" \notin TERMINAL_STATUSES
  BY DEF CanTransition, allowed_transitions, TERMINAL_STATUSES
<1>6. loop'[e] = g /\ \A h \in Engines : h = e
  BY DEF TypeOK, SingleEngine
<1>. HIDE DEF g
<1>. QED
  BY <1>1, <1>2, <1>3, <1>4, <1>5, <1>6 DEF RecordInv, PageEmpty, InUpdate

(* One engine: a handler that goes on keeps RecordInv. *)
LEMMA SoleContinue ==
  ASSUME SingleEngine, TypeOK, RecordInv, NEW e \in Engines, Continue(e)
  PROVE  RecordInv'
<1>. DEFINE f == loop[e]
<1>0. /\ f \in Frames /\ f.cur \in JobRecord /\ f.then \in Continuations
      /\ InUpdate(e) => f.job \in Jobs /\ f.to \in JobStatus
  BY DEF TypeOK, Frames, InUpdate
<1>f. InUpdate(e) =>
        /\ f.cur = jobs[f.job]
        /\ f.cur.status \notin TERMINAL_STATUSES
        /\ f.at # "save" => CanTransition(f.cur.status, f.to)
        /\ f.then \in {"settle", "revoke"} => f.to = "cancel_requested"
        /\ f.then = "sweep" \/ PageEmpty(e)
  BY DEF RecordInv, InUpdate
<1>1. CASE CheckVersion(e)
  <2>1. f.at = "check" /\ InUpdate(e) /\ UNCHANGED <<jobs, created_at>>
    BY <1>1 DEF CheckVersion, InUpdate, tables
  <2>2. CASE loop' = [loop EXCEPT ![e].at = "write"] /\ UNCHANGED page
    <3>. DEFINE g == [f EXCEPT !.at = "write"]
    <3>1. loop' = [loop EXCEPT ![e] = g] /\ UNCHANGED <<jobs, created_at, page>>
      BY <2>1, <2>2 DEF TypeOK
    <3>2. /\ g.at = "write" /\ g.job = f.job /\ g.cur = f.cur /\ g.to = f.to /\ g.then = f.then
      BY <1>0 DEF Frames
    <3>. HIDE DEF g
    <3>3. g.cur = jobs[g.job] /\ g.cur.status \notin TERMINAL_STATUSES
      BY <1>f, <2>1, <3>2
    <3>4. CanTransition(g.cur.status, g.to)
      BY <1>f, <2>1, <3>2
    <3>. QED
      BY <1>f, <2>1, <3>1, <3>2, <3>3, <3>4, SoleEnter
  <2>3. CASE Raise(e, f.job, f.then)
    BY <1>0, <1>f, <2>1, <2>3, SoleRaise
  <2>. QED
    BY <1>1, <2>2, <2>3 DEF CheckVersion
<1>2. CASE SaveResult(e)
  <2>1. /\ f.at = "save" /\ InUpdate(e)
        /\ Attempt(e, f.job, f.cur, f.to, f.then)
        /\ UNCHANGED <<jobs, created_at>>
    BY <1>2 DEF SaveResult, InUpdate
  <2>2. Attempt(e, f.job, jobs[f.job], f.to, f.then)
    BY <1>f, <2>1
  <2>. QED
    BY <1>0, <1>f, <2>1, <2>2, SoleAttempt
<1>3. CASE Spawn(e) \/ Process(e) \/ Finish(e)
  BY <1>3, SoleCommitKeeps DEF Spawn, Process, Finish
<1>4. CASE Settle(e)
  BY <1>4, SoleCancelledNext DEF Settle
<1>5. CASE Revoke(e)
  <2>1. /\ Commit(e) /\ f.then = "revoke" /\ UNCHANGED page
        /\ \/ loop' = [loop EXCEPT ![e] =
                 Frame("check", f.job, transition(f.cur, f.to), "cancelled", "end")]
           \/ loop' = [loop EXCEPT ![e] = Idle]
    BY <1>5 DEF Revoke
  <2>. QED
    BY <2>1, SoleCancelledNext, SoleCommitKeeps
<1>6. CASE RecoverRecord(e)
  <2>1. PICK j \in Remaining(e) :
          Attempt(e, j, page[e][j],
                  IF page[e][j].status = "cancel_requested" THEN "cancelled" ELSE "failed",
                  "sweep")
    BY <1>6 DEF RecoverRecord
  <2>. DEFINE to == IF page[e][j].status = "cancel_requested" THEN "cancelled" ELSE "failed"
  <2>2. j \in Jobs /\ page[e][j] = jobs[j] /\ jobs[j].status \notin TERMINAL_STATUSES
    BY DEF Remaining, RecordInv
  <2>3. to \in JobStatus /\ "sweep" \in Continuations
    BY DEF JobStatus, Continuations
  <2>4. UNCHANGED <<jobs, created_at>>
    BY <1>6 DEF RecoverRecord, tables
  <2>5. Attempt(e, j, page[e][j], to, "sweep")
    BY <2>1
  <2>. HIDE DEF to
  <2>6. Attempt(e, j, jobs[j], to, "sweep")
    BY <2>2, <2>5
  <2>. QED
    BY <2>2, <2>3, <2>4, <2>6, SoleAttempt
<1>7. CASE Recovered(e)
  BY <1>7, SoleCommitKeeps DEF Recovered
<1>8. CASE FinishSweep(e)
  <2>1. /\ Remaining(e) = {} /\ loop' = [loop EXCEPT ![e] = Idle]
        /\ UNCHANGED <<jobs, created_at, page>>
    BY <1>8 DEF FinishSweep, tables
  <2>2. PageEmpty(e) /\ loop'[e] = Idle /\ \A g \in Engines : g = e
    BY <2>1 DEF Remaining, PageEmpty, TypeOK, SingleEngine
  <2>3. ~InUpdate(e)'
    BY <2>2, FrameTypes DEF InUpdate
  <2>. QED
    BY <2>1, <2>2, <2>3 DEF RecordInv, PageEmpty
<1>. QED
  BY <1>1, <1>2, <1>3, <1>4, <1>5, <1>6, <1>7, <1>8 DEF Continue

(* One engine: requests, task steps and watchers keep RecordInv. *)
LEMMA SoleRequest ==
  ASSUME SingleEngine, TypeOK, RecordInv, NEW e \in Engines, NEW j \in Jobs,
         \/ Submit(e, j) \/ Cancel(e, j) \/ GetResult(e, j)
         \/ StartTask(e, j) \/ EndTask(e, j) \/ Watch(e, j)
  PROVE  RecordInv'
<1>0. loop[e] = Idle /\ PageEmpty(e)
  BY FrameTypes DEF Submit, Cancel, GetResult, StartTask, EndTask, Watch, Serving, IsIdle,
                    RecordInv, InUpdate
<1>1. CASE Submit(e, j)
  <2>. DEFINE g == Frame("check", j, new_job_record, "queued", "spawn")
  <2>1. /\ clock \in Nat
        /\ jobs' = [jobs EXCEPT ![j] = new_job_record]
        /\ created_at' = [created_at EXCEPT ![j] = clock + 1]
        /\ loop' = [loop EXCEPT ![e] = g]
        /\ UNCHANGED page
    BY <1>1 DEF Submit, TypeOK
  <2>2. g.at = "check" /\ g.job = j /\ g.cur = new_job_record /\ g.to = "queued" /\ g.then = "spawn"
    BY FrameFields
  <2>. HIDE DEF g
  <2>3. /\ new_job_record.status \notin TERMINAL_STATUSES
        /\ CanTransition(new_job_record.status, "queued")
    BY DEF new_job_record, TERMINAL_STATUSES, CanTransition, allowed_transitions
  <2>4. loop'[e] = g /\ jobs'[j] = new_job_record /\ created_at'[j] # 0
    BY <2>1 DEF TypeOK
  <2>5. \A k \in Jobs \ {j} : jobs'[k] = jobs[k] /\ created_at'[k] = created_at[k]
    BY <2>1 DEF TypeOK
  <2>6. \A h \in Engines : h = e
    BY DEF SingleEngine
  <2>. QED
    BY <1>0, <2>1, <2>2, <2>3, <2>4, <2>5, <2>6 DEF RecordInv, PageEmpty, InUpdate
<1>2. CASE Cancel(e, j)
  <2>1. /\ jobs[j].status \notin TERMINAL_STATUSES
        /\ UNCHANGED <<jobs, created_at>>
        /\ \/ Attempt(e, j, jobs[j], "cancelled", "end")
           \/ Attempt(e, j, jobs[j], "cancel_requested", "revoke")
    BY <1>2 DEF Cancel, tables
  <2>2. /\ "cancelled" \in JobStatus /\ "cancel_requested" \in JobStatus
        /\ "end" \in Continuations /\ "revoke" \in Continuations
    BY DEF JobStatus, Continuations
  <2>. QED
    BY <1>0, <2>1, <2>2, SoleAttempt
<1>3. CASE GetResult(e, j)
  BY <1>0, <1>3, SoleStore DEF GetResult, tables
<1>4. CASE StartTask(e, j)
  <2>1. Attempt(e, j, jobs[j], "running", "process") /\ UNCHANGED <<jobs, created_at>>
    BY <1>4 DEF StartTask, tables
  <2>2. CanTransition(jobs[j].status, "running") => jobs[j].status \notin TERMINAL_STATUSES
    BY DEF CanTransition, allowed_transitions, TERMINAL_STATUSES
  <2>3. "running" \in JobStatus /\ "process" \in Continuations
    BY DEF JobStatus, Continuations
  <2>. QED
    BY <1>0, <2>1, <2>2, <2>3, SoleAttempt
<1>5. CASE EndTask(e, j)
  BY <1>5 DEF EndTask, tables, RecordInv, PageEmpty, InUpdate
<1>6. CASE Watch(e, j)
  BY <1>0, <1>6, SoleStore DEF Watch, tables
<1>. QED
  BY <1>1, <1>2, <1>3, <1>4, <1>5, <1>6

(* One engine: opening, stopping and sweeping keep RecordInv. *)
LEMMA SoleProcess ==
  ASSUME SingleEngine, TypeOK, RecordInv, NEW e \in Engines,
         StoreFault(e) \/ List(e) \/ Shutdown(e) \/ Stop(e) \/ Open(e)
  PROVE  RecordInv'
<1>0. \A g \in Engines : g = e
  BY DEF SingleEngine
<1>1. CASE StoreFault(e)
  <2>1. /\ InUpdate(e) /\ loop[e].job \in Jobs /\ loop[e].then \in Continuations
        /\ Raise(e, loop[e].job, loop[e].then)
        /\ UNCHANGED <<jobs, created_at>>
    BY <1>1 DEF StoreFault, TypeOK, Frames, InUpdate, tables
  <2>2. loop[e].then = "sweep" \/ PageEmpty(e)
    BY <2>1 DEF RecordInv, InUpdate
  <2>. QED
    BY <2>1, <2>2, SoleRaise
<1>2. CASE List(e)
  <2>1. /\ loop'[e].at = "sweep" /\ UNCHANGED <<jobs, created_at>>
    BY <1>2, FrameTypes DEF List, tables, TypeOK
  <2>2. \A j \in Jobs : page'[e][j] # NoRow =>
          page'[e][j] = jobs[j] /\ jobs[j].status \notin TERMINAL_STATUSES
    BY <1>2 DEF List, TypeOK
  <2>. QED
    BY <1>0, <2>1, <2>2 DEF RecordInv, InUpdate
<1>3. CASE UNCHANGED <<tables, page, loop>>
  BY <1>3 DEF tables, RecordInv, PageEmpty, InUpdate
<1>4. CASE Stop(e)
  <2>1. /\ loop'[e] = Idle /\ \A j \in Jobs : page'[e][j] = NoRow
        /\ UNCHANGED <<jobs, created_at>>
    BY <1>4 DEF Stop, tables, TypeOK
  <2>2. ~InUpdate(e)'
    BY <2>1, FrameTypes DEF InUpdate
  <2>. QED
    BY <1>0, <2>1, <2>2 DEF RecordInv, PageEmpty
<1>. QED
  BY <1>1, <1>2, <1>3, <1>4 DEF Shutdown, Open, executions

(* With one engine a handler's record, and every row of the recovery page, *)
(* is the row of the table at every statement: nothing runs in between.    *)
THEOREM RecordsCurrent ==
  ASSUME SingleEngine
  PROVE  Spec => []RecordInv
<1>1. Init => RecordInv
  BY FrameTypes DEF Init, RecordInv, PageEmpty, InUpdate
<1>2. TypeOK /\ RecordInv /\ [Next]_vars => RecordInv'
  <2>1. CASE UNCHANGED vars
    BY <2>1 DEF vars, RecordInv, PageEmpty, InUpdate
  <2>2. ASSUME TypeOK, RecordInv, Next PROVE RecordInv'
    BY <2>2, SoleContinue, SoleRequest, SoleProcess DEF Next
  <2>. QED
    BY <2>1, <2>2
<1>. QED
  BY <1>1, <1>2, TypeCorrect, PTL DEF Spec

(* What a step may do to the rows and the stored results. *)
LEMMA StepCases ==
  ASSUME Next
  PROVE  \/ UNCHANGED <<jobs, results>>
         \/ \E e \in Engines, j \in Jobs : Submit(e, j)
         \/ \E e \in Engines : Commit(e)
         \/ \E e \in Engines : SaveResult(e)
<1>1. PICK e \in Engines :
        \/ Continue(e) \/ StoreFault(e)
        \/ List(e) \/ Shutdown(e) \/ Stop(e) \/ Open(e)
        \/ \E j \in Jobs :
             \/ Submit(e, j) \/ Cancel(e, j) \/ GetResult(e, j)
             \/ StartTask(e, j) \/ EndTask(e, j) \/ Watch(e, j)
  BY DEF Next
<1>2. CASE Continue(e)
  BY <1>2 DEF Continue, CheckVersion, Spawn, Process, Settle, Finish, Revoke, RecoverRecord,
              Recovered, FinishSweep, tables
<1>3. CASE StoreFault(e) \/ List(e) \/ Shutdown(e) \/ Stop(e) \/ Open(e)
  BY <1>3 DEF StoreFault, List, Shutdown, Stop, Open, tables
<1>4. CASE \E j \in Jobs :
             \/ Submit(e, j) \/ Cancel(e, j) \/ GetResult(e, j)
             \/ StartTask(e, j) \/ EndTask(e, j) \/ Watch(e, j)
  BY <1>4 DEF Cancel, GetResult, StartTask, EndTask, Watch, tables
<1>. QED
  BY <1>1, <1>2, <1>3, <1>4

(* With one engine no step ever writes a row in a terminal status. *)
THEOREM TerminalRowsFinal ==
  ASSUME SingleEngine
  PROVE  Spec => TerminalFinal
<1>. DEFINE Keeps == \A j \in Jobs : jobs[j].status \in TERMINAL_STATUSES => jobs'[j] = jobs[j]
<1>1. TypeOK /\ RecordInv /\ [Next]_vars => [Keeps]_vars
  <2>1. ASSUME TypeOK, RecordInv, Next PROVE Keeps
    <3>1. CASE UNCHANGED jobs
      BY <3>1
    <3>2. ASSUME NEW e \in Engines, NEW j \in Jobs, Submit(e, j) PROVE Keeps
      <4>1. jobs[j] = NoRow /\ jobs' = [jobs EXCEPT ![j] = new_job_record]
        BY <2>1, <3>2 DEF Submit, RecordInv
      <4>. QED
        BY <2>1, <4>1 DEF TypeOK, NoRow, TERMINAL_STATUSES
    <3>3. ASSUME NEW e \in Engines, Commit(e) PROVE Keeps
      <4>1. /\ jobs[loop[e].job].status \notin TERMINAL_STATUSES
            /\ jobs' = [jobs EXCEPT ![loop[e].job] = transition(jobs[loop[e].job], loop[e].to)]
        BY <2>1, <3>3, SoleCommit
      <4>. QED
        BY <2>1, <4>1 DEF TypeOK
    <3>4. ASSUME NEW e \in Engines, SaveResult(e) PROVE Keeps
      BY <3>4 DEF SaveResult
    <3>. QED
      BY <2>1, <3>1, <3>2, <3>3, <3>4, StepCases
  <2>. QED
    BY <2>1
<1>. QED
  BY <1>1, TypeCorrect, RecordsCurrent, PTL DEF Spec, TerminalFinal

(* The abstract life cycle uses the policy of the service. *)
LEMMA SamePolicy ==
  /\ Lifecycle!allowed_transitions = allowed_transitions
  /\ Lifecycle!ResultStatuses = ResultStatuses
  /\ Lifecycle!JobStatus = JobStatus
BY DEF Lifecycle!allowed_transitions, allowed_transitions, Lifecycle!ResultStatuses,
       ResultStatuses, Lifecycle!JobStatus, JobStatus

statusOf  == [j \in Jobs |-> jobs[j].status]
outcomeOf == [j \in Jobs |-> IF jobs[j].result_available THEN results[j] ELSE "none"]

(* A write to one row changes one status of the refinement map. *)
LEMMA StatusMoves ==
  ASSUME NEW j \in Jobs, NEW to, jobs'[j].status = to,
         \A k \in Jobs \ {j} : jobs'[k] = jobs[k]
  PROVE  statusOf' = [statusOf EXCEPT ![j] = to] /\ statusOf[j] = jobs[j].status
<1>1. statusOf' = [k \in Jobs |-> jobs'[k].status]
  BY DEF statusOf
<1>2. [statusOf EXCEPT ![j] = to] = [k \in Jobs |-> IF k = j THEN to ELSE jobs[k].status]
  BY DEF statusOf
<1>3. \A k \in Jobs : jobs'[k].status = IF k = j THEN to ELSE jobs[k].status
  OBVIOUS
<1>. QED
  BY <1>1, <1>2, <1>3 DEF statusOf

(* A step of the abstract life cycle, in the terms of the refinement map. *)
LEMMA LifecycleStep ==
  ASSUME NEW j \in Jobs, NEW to \in JobStatus,
         \/ /\ statusOf[j] = "absent" /\ to = "created"
            /\ outcomeOf' = outcomeOf
         \/ /\ <<statusOf[j], to>> \in allowed_transitions /\ to \notin ResultStatuses
            /\ outcomeOf' = outcomeOf
         \/ /\ <<statusOf[j], to>> \in allowed_transitions /\ to \in ResultStatuses
            /\ outcomeOf' = [outcomeOf EXCEPT ![j] = to],
         statusOf' = [statusOf EXCEPT ![j] = to]
  PROVE  Lifecycle!Next
BY SamePolicy DEF Lifecycle!Next, Lifecycle!Create, Lifecycle!Move, Lifecycle!Publish,
                  statusOf, outcomeOf

(* With one engine the service implements the documented life cycle:       *)
(* crashes, recovery, versions and statements do not show.                 *)
THEOREM LifecycleImplemented ==
  ASSUME SingleEngine
  PROVE  Spec => ImplementsLifecycle
<1>1. Init => Lifecycle!Init
  BY DEF Init, Lifecycle!Init, NoRow
<1>2. TypeOK /\ ResultInv /\ ResultInv' /\ RecordInv /\ [Next]_vars
        => [Lifecycle!Next]_(Lifecycle!lifecycle)
  <2>1. SUFFICES ASSUME TypeOK, ResultInv, ResultInv', RecordInv, Next
                 PROVE  Lifecycle!Next \/ (statusOf' = statusOf /\ outcomeOf' = outcomeOf)
    BY DEF vars, Lifecycle!lifecycle, statusOf, outcomeOf
  <2>2. CASE UNCHANGED <<jobs, results>>
    BY <2>2 DEF statusOf, outcomeOf
  <2>3. ASSUME NEW e \in Engines, NEW j \in Jobs, Submit(e, j) PROVE Lifecycle!Next
    <3>1. /\ jobs[j] = NoRow /\ jobs' = [jobs EXCEPT ![j] = new_job_record]
          /\ UNCHANGED results
      BY <2>1, <2>3 DEF Submit, RecordInv
    <3>2. /\ jobs[j].status = "absent" /\ jobs'[j].status = "created"
          /\ ~jobs[j].result_available /\ ~jobs'[j].result_available
          /\ \A k \in Jobs \ {j} : jobs'[k] = jobs[k]
      BY <2>1, <3>1 DEF NoRow, new_job_record, TypeOK
    <3>3. statusOf[j] = "absent" /\ statusOf' = [statusOf EXCEPT ![j] = "created"]
      BY <3>2, StatusMoves
    <3>4. outcomeOf' = outcomeOf
      BY <3>1, <3>2 DEF outcomeOf
    <3>5. "created" \in JobStatus
      BY DEF JobStatus
    <3>. QED
      BY <3>3, <3>4, <3>5, LifecycleStep
  <2>4. ASSUME NEW e \in Engines, Commit(e)
        PROVE  Lifecycle!Next \/ (statusOf' = statusOf /\ outcomeOf' = outcomeOf)
    <3>. DEFINE j == loop[e].job
                to == loop[e].to
    <3>1. /\ j \in Jobs /\ to \in JobStatus
          /\ jobs[j].status \notin TERMINAL_STATUSES
          /\ CanTransition(jobs[j].status, to)
          /\ jobs' = [jobs EXCEPT ![j] = transition(jobs[j], to)]
          /\ UNCHANGED results
      BY <2>1, <2>4, SoleCommit DEF Commit
    <3>2. jobs[j] \in JobRecord /\ ~jobs[j].result_available
      BY <2>1, <3>1 DEF TypeOK, ResultInv, ResultConsistent, ResultStatuses, TERMINAL_STATUSES
    <3>3. /\ jobs'[j].status = to /\ (jobs'[j].result_available <=> to \in ResultStatuses)
          /\ \A k \in Jobs \ {j} : jobs'[k] = jobs[k]
      BY <2>1, <3>1, <3>2, TransitionFlag DEF TypeOK
    <3>4. to \in ResultStatuses => results'[j] = to
      BY <2>1, <3>1, <3>3 DEF ResultInv, ResultConsistent
    <3>. HIDE DEF j, to
    <3>5. statusOf' = [statusOf EXCEPT ![j] = to] /\ statusOf[j] = jobs[j].status
      BY <3>1, <3>3, StatusMoves
    <3>6. to \notin ResultStatuses => outcomeOf' = outcomeOf
      BY <3>1, <3>2, <3>3 DEF outcomeOf
    <3>7. to \in ResultStatuses => outcomeOf' = [outcomeOf EXCEPT ![j] = to]
      BY <3>1, <3>2, <3>3, <3>4 DEF outcomeOf
    <3>8. CASE <<jobs[j].status, to>> \in allowed_transitions
      BY <3>1, <3>5, <3>6, <3>7, <3>8, LifecycleStep
    <3>9. CASE jobs[j].status = to
      <4>1. to \notin ResultStatuses
        BY <3>1, <3>9 DEF ResultStatuses, TERMINAL_STATUSES
      <4>2. statusOf' = statusOf
        BY <3>1, <3>3, <3>9 DEF statusOf
      <4>. QED
        BY <3>6, <4>1, <4>2
    <3>. QED
      BY <3>1, <3>8, <3>9 DEF CanTransition
  <2>5. ASSUME NEW e \in Engines, SaveResult(e)
        PROVE  statusOf' = statusOf /\ outcomeOf' = outcomeOf
    <3>. DEFINE j == loop[e].job
    <3>1. /\ InUpdate(e) /\ UNCHANGED jobs
          /\ results' = [results EXCEPT ![j] = loop[e].to]
      BY <2>5 DEF SaveResult, InUpdate
    <3>2. ~jobs[j].result_available
      BY <2>1, <3>1 DEF RecordInv, ResultInv, WriteBacked
    <3>. QED
      BY <2>1, <3>1, <3>2 DEF statusOf, outcomeOf, TypeOK
  <2>. QED
    BY <2>1, <2>2, <2>3, <2>4, <2>5, StepCases
<1>. QED
  BY <1>1, <1>2, TypeCorrect, ResultsOwned, RecordsCurrent, PTL
  DEF Spec, ImplementsLifecycle, Lifecycle!Spec
-----------------------------------------------------------------------------
(* What cancel and the watchers bring about, for a single engine           *)

(* The statuses a continuation can be about to write. *)
RightTarget(to, then) ==
  /\ then = "spawn"   => to = "queued"
  /\ then = "process" => to = "running"
  /\ then = "end"     => to = "cancelled"
  /\ then \in {"store", "sweep"} => to \in TERMINAL_STATUSES

TargetInv == \A e \in Engines : InUpdate(e) => RightTarget(loop[e].to, loop[e].then)

(* The row of a job whose task runs, or has ended with a result, has left  *)
(* the statuses before.                                                    *)
StartedOf(e, j) ==
  /\ Started(e, j) => jobs[j].status \notin {"absent", "created"}
  /\ tasks[e][j] \in {"running"} \cup ResultStatuses => jobs[j].status # "queued"

StartedInv == \A e \in Engines, j \in Jobs : StartedOf(e, j)

(* A revoked job is CANCELLED, or cancel is about to write that. *)
Cancelling(e, j) == InUpdate(e) /\ loop[e].job = j /\ loop[e].then = "end"

RevokedInv ==
  \A e \in Engines :
    /\ engine[e] = "running" =>
         \A j \in revoked[e] : jobs[j].status = "cancelled" \/ Cancelling(e, j)
    /\ engine[e] = "down" => revoked[e] = {} /\ loop[e] = Idle

(* The sweep has every job that is not terminal before it. *)
InSweep(e) == loop[e].at = "sweep" \/ (InUpdate(e) /\ loop[e].then = "sweep")

SweepInv ==
  \A e \in Engines : InSweep(e) => \A j \in Jobs : Nonterminal(j) => page[e][j] # NoRow

(* After it a job has its watcher, unless submit is about to make it. *)
Submitting(e, j) == InUpdate(e) /\ loop[e].job = j /\ loop[e].then = "spawn"

AttendedOf(e) ==
  \A j \in Jobs : Nonterminal(j) => j \in watching[e] \/ StuckReview(j) \/ Submitting(e, j)

AttendInv ==
  \A e \in Engines :
    /\ engine[e] = "running" /\ recovered[e] => AttendedOf(e)
    /\ engine[e] = "down" => ~recovered[e]

(* A handler that enters an update keeps TargetInv if its target is right. *)
LEMMA TargetEnter ==
  ASSUME SingleEngine, TypeOK, NEW e \in Engines, NEW f,
         loop' = [loop EXCEPT ![e] = f],
         f.at \in {"check", "write", "save"} => RightTarget(f.to, f.then)
  PROVE  TargetInv'
<1>1. loop'[e] = f /\ \A g \in Engines : g = e
  BY DEF TypeOK, SingleEngine
<1>. QED
  BY <1>1 DEF TargetInv, InUpdate

(* The same of policy.transition, whether or not it raises. *)
LEMMA TargetAttempt ==
  ASSUME SingleEngine, TypeOK, NEW e \in Engines, NEW j, NEW cur, NEW to, NEW then,
         Attempt(e, j, cur, to, then), RightTarget(to, then)
  PROVE  TargetInv'
<1>1. CASE loop' = [loop EXCEPT ![e] = Idle]
  BY <1>1, TargetEnter, FrameTypes
<1>2. CASE loop' = [loop EXCEPT ![e] = Frame("check", j, cur, to, then)]
  <2>. DEFINE f == Frame("check", j, cur, to, then)
  <2>1. f.to = to /\ f.then = then
    BY FrameFields
  <2>. HIDE DEF f
  <2>. QED
    BY <1>2, <2>1, TargetEnter DEF f
<1>. QED
  BY <1>1, <1>2 DEF Attempt, Raise

(* The same of _store_execution_result. *)
LEMMA TargetStore ==
  ASSUME SingleEngine, TypeOK, TargetInv, NEW e \in Engines, NEW j \in Jobs,
         NEW then \in {"store", "reply"}, StoreExecutionResult(e, j, then)
  PROVE  TargetInv'
<1>. DEFINE cur    == jobs[j]
            result == tasks[e][j]
            f      == Frame("save", j, cur, result, then)
<1>1. CASE UNCHANGED loop
  BY <1>1 DEF TargetInv, InUpdate
<1>2. CASE result \in ResultStatuses /\ loop' = [loop EXCEPT ![e] = f]
  <2>1. f.to = result /\ f.then = then
    BY FrameFields
  <2>. HIDE DEF f
  <2>2. RightTarget(f.to, f.then)
    BY <1>2, <2>1 DEF RightTarget, ResultStatuses, TERMINAL_STATUSES
  <2>. QED
    BY <1>2, <2>2, TargetEnter
<1>3. /\ RightTarget("cancelled", then) /\ RightTarget("failed", then)
      /\ RightTarget("cancel_requested", "settle")
  BY DEF RightTarget, TERMINAL_STATUSES
<1>4. CASE \/ Attempt(e, j, cur, "cancelled", then)
           \/ Attempt(e, j, cur, "cancel_requested", "settle")
           \/ Attempt(e, j, cur, "failed", then)
  BY <1>3, <1>4, TargetAttempt
<1>. QED
  BY <1>1, <1>2, <1>4 DEF StoreExecutionResult

(* Every step keeps what a continuation may be about to write.             *)
LEMMA TargetStep ==
  ASSUME SingleEngine, TypeOK, TargetInv, NEW e \in Engines,
         \/ Continue(e) \/ StoreFault(e)
         \/ List(e) \/ Shutdown(e) \/ Stop(e) \/ Open(e)
         \/ \E j \in Jobs :
              \/ Submit(e, j) \/ Cancel(e, j) \/ GetResult(e, j)
              \/ StartTask(e, j) \/ EndTask(e, j) \/ Watch(e, j)
  PROVE  TargetInv'
<1>. DEFINE f == loop[e]
<1>1. CASE \/ loop' = [loop EXCEPT ![e] = Idle] \/ loop' = [loop EXCEPT ![e] = Sweeping]
           \/ UNCHANGED loop
  BY <1>1, TargetEnter, FrameTypes DEF TargetInv, InUpdate
<1>2. CASE CheckVersion(e)
  <2>1. CASE loop' = [loop EXCEPT ![e].at = "write"]
    <3>. DEFINE g == [f EXCEPT !.at = "write"]
    <3>1. InUpdate(e) /\ loop' = [loop EXCEPT ![e] = g]
      BY <1>2, <2>1 DEF CheckVersion, InUpdate, TypeOK
    <3>2. g.to = f.to /\ g.then = f.then
      BY DEF TypeOK, Frames
    <3>. HIDE DEF g
    <3>. QED
      BY <3>1, <3>2, TargetEnter DEF TargetInv
  <2>. QED
    BY <1>1, <1>2, <2>1 DEF CheckVersion, Raise
<1>3. CASE SaveResult(e)
  BY <1>3, TargetAttempt DEF SaveResult, TargetInv, InUpdate
<1>4. CASE Settle(e) \/ Revoke(e)
  <2>1. RightTarget("cancelled", "store") /\ RightTarget("cancelled", "end")
    BY DEF RightTarget, TERMINAL_STATUSES
  <2>2. ASSUME NEW then \in {"store", "end"},
               loop' = [loop EXCEPT ![e] =
                 Frame("check", f.job, transition(f.cur, f.to), "cancelled", then)]
        PROVE  TargetInv'
    <3>. DEFINE g == Frame("check", f.job, transition(f.cur, f.to), "cancelled", then)
    <3>1. g.to = "cancelled" /\ g.then = then
      BY FrameFields
    <3>. HIDE DEF g
    <3>. QED
      BY <2>1, <2>2, <3>1, TargetEnter DEF g
  <2>. QED
    BY <1>1, <1>4, <2>2 DEF Settle, Revoke
<1>5. CASE RecoverRecord(e)
  <2>1. RightTarget("cancelled", "sweep") /\ RightTarget("failed", "sweep")
    BY DEF RightTarget, TERMINAL_STATUSES
  <2>2. PICK j \in Jobs, to \in {"cancelled", "failed"} : Attempt(e, j, page[e][j], to, "sweep")
    BY <1>5 DEF RecoverRecord, Remaining
  <2>. QED
    BY <2>1, <2>2, TargetAttempt
<1>6. CASE Spawn(e) \/ Process(e) \/ Finish(e) \/ Recovered(e) \/ FinishSweep(e)
  BY <1>1, <1>6 DEF Spawn, Process, Finish, Recovered, FinishSweep
<1>7. CASE StoreFault(e) \/ List(e) \/ Shutdown(e) \/ Stop(e) \/ Open(e)
  BY <1>1, <1>7 DEF StoreFault, Raise, List, Shutdown, Stop, Open
<1>8. ASSUME NEW j \in Jobs, Submit(e, j) PROVE TargetInv'
  <2>. DEFINE g == Frame("check", j, new_job_record, "queued", "spawn")
  <2>1. g.to = "queued" /\ g.then = "spawn"
    BY FrameFields
  <2>. HIDE DEF g
  <2>2. RightTarget(g.to, g.then)
    BY <2>1 DEF RightTarget
  <2>. QED
    BY <1>8, <2>2, TargetEnter DEF Submit, g
<1>9. ASSUME NEW j \in Jobs, Cancel(e, j) PROVE TargetInv'
  <2>1. RightTarget("cancelled", "end") /\ RightTarget("cancel_requested", "revoke")
    BY DEF RightTarget, TERMINAL_STATUSES
  <2>. QED
    BY <1>9, <2>1, TargetAttempt DEF Cancel
<1>10. ASSUME NEW j \in Jobs, GetResult(e, j) \/ Watch(e, j) PROVE TargetInv'
  BY <1>10, TargetStore DEF GetResult, Watch
<1>11. ASSUME NEW j \in Jobs, StartTask(e, j) PROVE TargetInv'
  <2>1. RightTarget("running", "process")
    BY DEF RightTarget, TERMINAL_STATUSES
  <2>. QED
    BY <1>11, <2>1, TargetAttempt DEF StartTask
<1>12. ASSUME NEW j \in Jobs, EndTask(e, j) PROVE TargetInv'
  BY <1>1, <1>12 DEF EndTask
<1>. QED
  BY <1>2, <1>3, <1>4, <1>5, <1>6, <1>7, <1>8, <1>9, <1>10, <1>11, <1>12 DEF Continue

(* What the policy says of the statuses a job passes on its way. *)
LEMMA PolicyMoves ==
  ASSUME NEW from, NEW to, CanTransition(from, to), to \in JobStatus
  PROVE  /\ from # "absent"
         /\ from # "created" => to # "created"
         /\ from \notin {"created", "queued"} => to # "queued"
         /\ from = "cancel_requested" /\ to \notin TERMINAL_STATUSES => to = "cancel_requested"
BY DEF CanTransition, allowed_transitions, JobStatus, TERMINAL_STATUSES

(* With one engine the version is the one that was read. *)
LEMMA VersionMatches ==
  ASSUME TypeOK, RecordInv, NEW e \in Engines, CheckVersion(e)
  PROVE  /\ loop' = [loop EXCEPT ![e].at = "write"]
         /\ loop[e].at = "check" /\ InUpdate(e) /\ InUpdate(e)'
         /\ loop'[e].job = loop[e].job /\ loop'[e].to = loop[e].to
         /\ loop'[e].then = loop[e].then /\ loop'[e].at = "write"
         /\ UNCHANGED <<tables, lifetime, executions, page>>
<1>1. loop[e].at = "check" /\ InUpdate(e) /\ loop[e] \in Frames
  BY DEF CheckVersion, InUpdate, TypeOK
<1>2. jobs[loop[e].job].version = loop[e].cur.version
  BY <1>1 DEF RecordInv
<1>3. /\ loop' = [loop EXCEPT ![e].at = "write"]
      /\ UNCHANGED <<tasks, watching, page, tables, lifetime, revoked>>
  BY <1>2 DEF CheckVersion
<1>4. loop'[e] = [loop[e] EXCEPT !.at = "write"]
  BY <1>3 DEF TypeOK
<1>5. /\ loop'[e].job = loop[e].job /\ loop'[e].to = loop[e].to
      /\ loop'[e].then = loop[e].then /\ loop'[e].at = "write"
  BY <1>1, <1>4 DEF Frames
<1>. QED
  BY <1>1, <1>3, <1>5 DEF executions, InUpdate

(* With one engine an UPDATE moves one row along the policy. *)
LEMMA RowMoves ==
  ASSUME SingleEngine, TypeOK, RecordInv, NEW e \in Engines, Commit(e)
  PROVE  /\ InUpdate(e) /\ loop[e].job \in Jobs /\ loop[e].to \in JobStatus
         /\ Nonterminal(loop[e].job)
         /\ CanTransition(jobs[loop[e].job].status, loop[e].to)
         /\ jobs'[loop[e].job].status = loop[e].to
         /\ \A j \in Jobs \ {loop[e].job} : jobs'[j] = jobs[j]
         /\ UNCHANGED <<results, created_at, clock, lifetime>>
<1>. DEFINE k == loop[e].job
<1>1. /\ InUpdate(e) /\ k \in Jobs /\ loop[e].to \in JobStatus
      /\ jobs[k].status \notin TERMINAL_STATUSES
      /\ CanTransition(jobs[k].status, loop[e].to)
      /\ jobs' = [jobs EXCEPT ![k] = transition(jobs[k], loop[e].to)]
  BY SoleCommit
<1>2. jobs[k].status # "absent"
  BY <1>1, PolicyMoves
<1>3. jobs'[k].status = loop[e].to /\ \A j \in Jobs \ {k} : jobs'[j] = jobs[j]
  BY <1>1 DEF TypeOK, transition
<1>. QED
  BY <1>1, <1>2, <1>3 DEF Nonterminal, Commit

-----------------------------------------------------------------------------
(* A step that moves no row and starts no task keeps StartedInv. *)
LEMMA StartedKept ==
  ASSUME SingleEngine, StartedInv, NEW e \in Engines, UNCHANGED jobs,
         \A j \in Jobs :
           \/ tasks'[e][j] \in {"none", tasks[e][j]}
           \/ /\ Started(e, j)
              /\ tasks'[e][j] \in {"running"} \cup ResultStatuses => tasks[e][j] = "running"
  PROVE  StartedInv'
<1>1. \A g \in Engines : g = e
  BY DEF SingleEngine
<1>. SUFFICES ASSUME NEW j \in Jobs PROVE StartedOf(e, j)'
  BY <1>1 DEF StartedInv
<1>2. StartedOf(e, j)
  BY DEF StartedInv
<1>3. "none" \notin {"running"} \cup ResultStatuses
  BY DEF ResultStatuses
<1>. QED
  BY <1>2, <1>3 DEF StartedOf, Started

(* The same of an exception, and of policy.transition. *)
LEMMA StartedRaise ==
  ASSUME SingleEngine, TypeOK, StartedInv, NEW e \in Engines, NEW j \in Jobs, NEW then,
         Raise(e, j, then), UNCHANGED jobs, then = "process" => Started(e, j)
  PROVE  StartedInv'
<1>1. \A k \in Jobs : \/ tasks'[e][k] = tasks[e][k]
                      \/ Started(e, k) /\ tasks'[e][k] = "failed"
  BY DEF Raise, TypeOK
<1>2. "failed" \notin {"running"} \cup ResultStatuses
  BY DEF ResultStatuses
<1>. QED
  BY <1>1, <1>2, StartedKept

(* An attempt on a record leaves what is known of started jobs.            *)
LEMMA StartedAttempt ==
  ASSUME SingleEngine, TypeOK, StartedInv, NEW e \in Engines, NEW j \in Jobs, NEW cur, NEW to,
         NEW then, Attempt(e, j, cur, to, then), UNCHANGED jobs,
         then = "process" => Started(e, j)
  PROVE  StartedInv'
<1>1. CASE UNCHANGED tasks
  BY <1>1, StartedKept
<1>2. CASE Raise(e, j, then)
  BY <1>2, StartedRaise
<1>. QED
  BY <1>1, <1>2 DEF Attempt

(* So does storing a result.                                               *)
LEMMA StartedStore ==
  ASSUME SingleEngine, TypeOK, StartedInv, NEW e \in Engines, NEW j \in Jobs,
         NEW then \in {"store", "reply"}, StoreExecutionResult(e, j, then), UNCHANGED jobs
  PROVE  StartedInv'
<1>1. CASE UNCHANGED tasks
  BY <1>1, StartedKept
<1>2. ASSUME NEW to, NEW t \in {"store", "reply", "settle"}, Attempt(e, j, jobs[j], to, t)
      PROVE  StartedInv'
  BY <1>2, StartedAttempt
<1>. QED
  BY <1>1, <1>2 DEF StoreExecutionResult

(* An UPDATE keeps it, and the task it may start is of its row. *)
LEMMA StartedCommit ==
  ASSUME SingleEngine, TypeOK, RecordInv, TargetInv, StartedInv, NEW e \in Engines, Commit(e),
         \/ UNCHANGED tasks
         \/ /\ loop[e].then = "spawn"
            /\ tasks' = [tasks EXCEPT ![e][loop[e].job] = "pending"]
         \/ /\ loop[e].then = "process"
            /\ tasks' = [tasks EXCEPT ![e][loop[e].job] = "running"]
  PROVE  StartedInv'
<1>. DEFINE to == loop[e].to
<1>1. PICK k \in Jobs :
        /\ k = loop[e].job /\ to \in JobStatus /\ CanTransition(jobs[k].status, to)
        /\ jobs'[k].status = to /\ \A j \in Jobs \ {k} : jobs'[j] = jobs[j]
        /\ InUpdate(e)
  BY RowMoves
<1>2. \A g \in Engines : g = e
  BY DEF SingleEngine
<1>3. \A j \in Jobs \ {k} : tasks'[e][j] = tasks[e][j]
  BY <1>1 DEF TypeOK
<1>4. \A j \in Jobs \ {k} : StartedOf(e, j)'
  BY <1>1, <1>3 DEF StartedInv, StartedOf, Started
<1>5. StartedOf(e, k)'
  <2>1. StartedOf(e, k) /\ RightTarget(to, loop[e].then)
    BY <1>1 DEF StartedInv, TargetInv
  <2>2. to # "absent"
    BY <1>1 DEF JobStatus
  <2>3. CASE UNCHANGED tasks
    BY <1>1, <2>1, <2>2, <2>3, PolicyMoves DEF StartedOf, Started, ResultStatuses
  <2>4. CASE to = "queued" /\ tasks'[e][k] = "pending"
    BY <1>1, <2>4 DEF StartedOf, ResultStatuses
  <2>5. CASE to = "running" /\ tasks'[e][k] = "running"
    BY <1>1, <2>5 DEF StartedOf
  <2>. QED
    BY <1>1, <2>1, <2>3, <2>4, <2>5 DEF RightTarget, TypeOK
<1>. QED
  BY <1>1, <1>2, <1>4, <1>5 DEF StartedInv

(* Every step of an engine keeps what is known of started jobs.            *)
LEMMA StartedStep ==
  ASSUME SingleEngine, TypeOK, ResultInv, RecordInv, TargetInv, StartedInv, NEW e \in Engines,
         \/ Continue(e) \/ StoreFault(e)
         \/ List(e) \/ Shutdown(e) \/ Stop(e) \/ Open(e)
         \/ \E j \in Jobs :
              \/ Submit(e, j) \/ Cancel(e, j) \/ GetResult(e, j)
              \/ StartTask(e, j) \/ EndTask(e, j) \/ Watch(e, j)
  PROVE  StartedInv'
<1>. DEFINE f == loop[e]
<1>1. CASE UNCHANGED <<jobs, tasks>>
  BY <1>1, StartedKept
<1>2. CASE CheckVersion(e)
  BY <1>1, <1>2, VersionMatches DEF tables, executions
<1>3. CASE SaveResult(e)
  <2>1. f.job \in Jobs /\ f.then \in {"store", "reply"}
    BY <1>3 DEF SaveResult, TypeOK, ResultInv, WriteBacked, InUpdate
  <2>. QED
    BY <1>3, <2>1, StartedAttempt DEF SaveResult
<1>4. CASE Spawn(e) \/ Process(e) \/ Settle(e) \/ Finish(e) \/ Revoke(e) \/ Recovered(e)
  BY <1>4, StartedCommit DEF Spawn, Process, Settle, Finish, Revoke, Recovered, executions
<1>5. CASE RecoverRecord(e)
  <2>1. PICK j \in Jobs, to \in {"cancelled", "failed"} : Attempt(e, j, page[e][j], to, "sweep")
    BY <1>5 DEF RecoverRecord, Remaining
  <2>. QED
    BY <1>5, <2>1, StartedAttempt DEF RecoverRecord, tables
<1>6. CASE FinishSweep(e) \/ List(e) \/ Shutdown(e) \/ Open(e)
  BY <1>1, <1>6 DEF FinishSweep, List, Shutdown, Open, tables, executions
<1>7. CASE StoreFault(e)
  <2>1. InUpdate(e) /\ f.job \in Jobs /\ Raise(e, f.job, f.then) /\ UNCHANGED jobs
    BY <1>7 DEF StoreFault, InUpdate, TypeOK, tables
  <2>2. f.then = "process" => Started(e, f.job)
    BY <2>1 DEF ResultInv, WriteBacked, Started
  <2>. QED
    BY <2>1, <2>2, StartedRaise
<1>8. CASE Stop(e)
  <2>1. UNCHANGED jobs /\ \A j \in Jobs : tasks'[e][j] = "none"
    BY <1>8 DEF Stop, tables, TypeOK
  <2>. QED
    BY <2>1, StartedKept
<1>9. ASSUME NEW j \in Jobs, Submit(e, j) PROVE StartedInv'
  <2>1. /\ UNCHANGED tasks /\ ~Started(e, j)
        /\ \A k \in Jobs \ {j} : jobs'[k] = jobs[k]
    BY <1>9 DEF Submit, executions, ResultInv, OneOwner, TypeOK
  <2>2. \A g \in Engines : g = e
    BY DEF SingleEngine
  <2>3. StartedOf(e, j)'
    BY <2>1 DEF StartedOf, Started, ResultStatuses
  <2>4. \A k \in Jobs \ {j} : StartedOf(e, k)'
    BY <2>1 DEF StartedInv, StartedOf, Started
  <2>. QED
    BY <2>2, <2>3, <2>4 DEF StartedInv
<1>10. ASSUME NEW j \in Jobs, Cancel(e, j) PROVE StartedInv'
  BY <1>10, StartedAttempt DEF Cancel, tables
<1>11. ASSUME NEW j \in Jobs, GetResult(e, j) \/ Watch(e, j) PROVE StartedInv'
  BY <1>11, StartedStore DEF GetResult, Watch, tables
<1>12. ASSUME NEW j \in Jobs, StartTask(e, j) PROVE StartedInv'
  BY <1>12, StartedAttempt DEF StartTask, Started, tables
<1>13. ASSUME NEW j \in Jobs, EndTask(e, j) PROVE StartedInv'
  <2>1. PICK result \in Outcomes \cup {"cancelled"} :
          /\ \/ tasks[e][j] = "running"
             \/ tasks[e][j] = "pending" /\ result = "cancelled"
          /\ tasks' = [tasks EXCEPT ![e][j] = result]
    BY <1>13 DEF EndTask
  <2>2. Started(e, j) /\ "cancelled" \notin {"running"} \cup ResultStatuses
    BY <2>1 DEF Started, ResultStatuses
  <2>3. tasks'[e][j] = result /\ \A k \in Jobs \ {j} : tasks'[e][k] = tasks[e][k]
    BY <2>1 DEF TypeOK
  <2>4. UNCHANGED jobs
    BY <1>13 DEF EndTask, tables
  <2>5. \A k \in Jobs :
          \/ tasks'[e][k] \in {"none", tasks[e][k]}
          \/ /\ Started(e, k)
             /\ tasks'[e][k] \in {"running"} \cup ResultStatuses => tasks[e][k] = "running"
    BY <2>1, <2>2, <2>3
  <2>. QED
    BY <2>4, <2>5, StartedKept
<1>. QED
  BY <1>2, <1>3, <1>4, <1>5, <1>6, <1>7, <1>8, <1>9, <1>10, <1>11, <1>12, <1>13 DEF Continue
-----------------------------------------------------------------------------
(* A process that is down does nothing but open. *)
LEMMA DownIsQuiet ==
  ASSUME RevokedInv, NEW e \in Engines, engine[e] = "down",
         \/ Continue(e) \/ StoreFault(e) \/ List(e) \/ Shutdown(e) \/ Stop(e)
         \/ \E j \in Jobs :
              \/ Submit(e, j) \/ Cancel(e, j) \/ GetResult(e, j)
              \/ StartTask(e, j) \/ EndTask(e, j) \/ Watch(e, j)
  PROVE  FALSE
<1>1. loop[e].at = "idle"
  BY FrameTypes DEF RevokedInv
<1>. QED
  BY <1>1 DEF Continue, CheckVersion, SaveResult, Spawn, Process, Settle, Finish, Revoke,
              RecoverRecord, Recovered, FinishSweep, Commit, StoreFault, List, Shutdown, Stop,
              Submit, Cancel, GetResult, StartTask, EndTask, Watch, Serving, IsIdle

(* No row moves and nothing is revoked, outside the end of a cancel. *)
LEMMA RevokedKept ==
  ASSUME SingleEngine, RevokedInv, NEW e \in Engines, engine[e] # "down",
         UNCHANGED <<jobs, revoked, engine>>,
         ~InUpdate(e) \/ loop[e].then # "end"
  PROVE  RevokedInv'
BY DEF SingleEngine, RevokedInv, Cancelling

(* An UPDATE that revokes nothing. *)
LEMMA RevokedCommit ==
  ASSUME SingleEngine, TypeOK, RecordInv, TargetInv, RevokedInv, NEW e \in Engines,
         engine[e] # "down", Commit(e), UNCHANGED <<revoked, engine>>
  PROVE  RevokedInv'
<1>. DEFINE k == loop[e].job
<1>1. /\ k \in Jobs /\ Nonterminal(k) /\ InUpdate(e)
      /\ jobs'[k].status = loop[e].to
      /\ \A j \in Jobs \ {k} : jobs'[j] = jobs[j]
  BY RowMoves
<1>2. loop[e].then = "end" => loop[e].to = "cancelled"
  BY <1>1 DEF TargetInv, RightTarget
<1>3. jobs[k].status # "cancelled"
  BY <1>1 DEF Nonterminal, TERMINAL_STATUSES
<1>4. ASSUME engine[e] = "running", NEW j \in revoked[e] PROVE jobs'[j].status = "cancelled"
  <2>1. j \in Jobs /\ (jobs[j].status = "cancelled" \/ Cancelling(e, j))
    BY <1>4 DEF RevokedInv, TypeOK
  <2>2. CASE j = k
    BY <1>1, <1>2, <1>3, <2>1, <2>2 DEF Cancelling
  <2>3. CASE j # k
    BY <1>1, <2>1, <2>3 DEF Cancelling
  <2>. QED
    BY <2>2, <2>3
<1>. QED
  BY <1>4 DEF SingleEngine, RevokedInv

(* Revoke: the job it revokes is CANCEL_REQUESTED, CANCELLED is next. *)
LEMMA RevokedRevoke ==
  ASSUME SingleEngine, TypeOK, RecordInv, RevokedInv, NEW e \in Engines,
         engine[e] # "down", Revoke(e)
  PROVE  RevokedInv'
<1>. DEFINE k == loop[e].job
            f == Frame("check", k, transition(loop[e].cur, loop[e].to), "cancelled", "end")
<1>1. /\ k \in Jobs /\ Nonterminal(k) /\ InUpdate(e)
      /\ \A j \in Jobs \ {k} : jobs'[j] = jobs[j]
      /\ UNCHANGED engine /\ loop[e].then = "revoke"
  BY RowMoves DEF Revoke, lifetime
<1>2. jobs[k].status # "cancelled"
  BY <1>1 DEF Nonterminal, TERMINAL_STATUSES
<1>3. f.at = "check" /\ f.job = k /\ f.then = "end"
  BY FrameFields
<1>. HIDE DEF f
<1>4. Live(e, k) => loop'[e] = f
  BY DEF Revoke, Live, TypeOK, f
<1>5. revoked'[e] \subseteq revoked[e] \cup {k} /\ (~Live(e, k) => revoked'[e] = revoked[e])
  BY DEF Revoke, TypeOK
<1>6. ASSUME engine[e] = "running", NEW j \in revoked'[e]
      PROVE  jobs'[j].status = "cancelled" \/ Cancelling(e, j)'
  <2>1. CASE j = k /\ Live(e, k)
    BY <1>3, <1>4, <2>1 DEF Cancelling, InUpdate
  <2>2. CASE j \in revoked[e]
    <3>1. j \in Jobs /\ jobs[j].status = "cancelled"
      BY <1>1, <1>6, <2>2 DEF RevokedInv, Cancelling, TypeOK
    <3>. QED
      BY <1>1, <1>2, <3>1
  <2>. QED
    BY <1>5, <1>6, <2>1, <2>2
<1>. QED
  BY <1>1, <1>6 DEF SingleEngine, RevokedInv

(* Every step keeps a revoked job CANCELLED, or about to be.               *)
LEMMA RevokedStep ==
  ASSUME SingleEngine, ~StoreFaults, TypeOK, ResultInv, RecordInv, TargetInv, RevokedInv,
         NEW e \in Engines,
         \/ Continue(e) \/ StoreFault(e)
         \/ List(e) \/ Shutdown(e) \/ Stop(e) \/ Open(e)
         \/ \E j \in Jobs :
              \/ Submit(e, j) \/ Cancel(e, j) \/ GetResult(e, j)
              \/ StartTask(e, j) \/ EndTask(e, j) \/ Watch(e, j)
  PROVE  RevokedInv'
<1>. DEFINE f == loop[e]
<1>1. CASE Open(e)
  BY <1>1 DEF Open, executions, TypeOK, SingleEngine, RevokedInv
<1>2. CASE engine[e] # "down"
  <2>1. CASE CheckVersion(e)
    BY <1>2, <2>1, VersionMatches
    DEF tables, lifetime, executions, SingleEngine, RevokedInv, Cancelling
  <2>2. CASE SaveResult(e)
    <3>1. f.to \in ResultStatuses /\ InUpdate(e)
      BY <2>2 DEF SaveResult, TypeOK, InUpdate
    <3>2. f.then # "end"
      BY <3>1 DEF TargetInv, RightTarget, ResultStatuses
    <3>. QED
      BY <1>2, <2>2, <3>2, RevokedKept DEF SaveResult, lifetime
  <2>3. CASE Spawn(e) \/ Process(e) \/ Settle(e) \/ Finish(e) \/ Recovered(e)
    BY <1>2, <2>3, RevokedCommit
    DEF Spawn, Process, Settle, Finish, Recovered, Commit, executions, lifetime
  <2>4. CASE Revoke(e)
    BY <1>2, <2>4, RevokedRevoke
  <2>5. CASE RecoverRecord(e) \/ FinishSweep(e)
    BY <1>2, <2>5, RevokedKept
    DEF RecoverRecord, FinishSweep, InUpdate, tables, lifetime, executions
  <2>6. CASE Shutdown(e)
    BY <2>6 DEF Shutdown, TypeOK, SingleEngine, RevokedInv
  <2>7. CASE Stop(e)
    BY <2>7 DEF Stop, TypeOK, SingleEngine, RevokedInv
  <2>8. CASE \/ List(e)
             \/ \E j \in Jobs : \/ Cancel(e, j) \/ GetResult(e, j)
                                \/ StartTask(e, j) \/ EndTask(e, j) \/ Watch(e, j)
    <3>1. loop[e] = Idle /\ UNCHANGED <<jobs, revoked, engine>>
      BY <2>8 DEF List, Cancel, GetResult, StartTask, EndTask, Watch, Serving, IsIdle,
                  tables, lifetime, executions
    <3>. QED
      BY <1>2, <3>1, RevokedKept, FrameTypes DEF InUpdate
  <2>9. ASSUME NEW j \in Jobs, Submit(e, j) PROVE RevokedInv'
    <3>1. /\ jobs[j] = NoRow /\ engine[e] = "running" /\ UNCHANGED <<revoked, engine>>
          /\ \A k \in Jobs \ {j} : jobs'[k] = jobs[k]
          /\ ~InUpdate(e)
      BY <2>9, FrameTypes
      DEF Submit, Serving, RecordInv, executions, lifetime, TypeOK, InUpdate
    <3>2. \A k \in revoked[e] : k \in Jobs /\ jobs[k].status = "cancelled"
      BY <3>1 DEF RevokedInv, Cancelling, TypeOK
    <3>. QED
      BY <3>1, <3>2 DEF NoRow, SingleEngine, RevokedInv
  <2>10. ~StoreFault(e)
    BY DEF StoreFault
  <2>. QED
    BY <1>1, <2>1, <2>2, <2>3, <2>4, <2>5, <2>6, <2>7, <2>8, <2>9, <2>10 DEF Continue
<1>. QED
  BY <1>1, <1>2, DownIsQuiet

-----------------------------------------------------------------------------
(* Outside the sweep there is nothing to keep. *)
LEMMA NoSweep ==
  ASSUME SingleEngine, TypeOK, NEW e \in Engines, NEW f,
         \/ UNCHANGED loop /\ loop[e] = f
         \/ loop' = [loop EXCEPT ![e] = f],
         f.at # "sweep", f.at \in {"check", "write", "save"} => f.then # "sweep"
  PROVE  SweepInv'
<1>1. loop'[e] = f /\ \A g \in Engines : g = e
  BY DEF TypeOK, SingleEngine
<1>. QED
  BY <1>1 DEF SweepInv, InSweep, InUpdate

(* An attempt that is not part of a sweep leaves no sweep under way.       *)
LEMMA NoSweepAttempt ==
  ASSUME SingleEngine, TypeOK, NEW e \in Engines, NEW j, NEW cur, NEW to, NEW then,
         Attempt(e, j, cur, to, then), then # "sweep"
  PROVE  SweepInv'
<1>. DEFINE f == Frame("check", j, cur, to, then)
<1>1. f.at = "check" /\ f.then = then
  BY FrameFields
<1>. HIDE DEF f
<1>2. CASE loop' = [loop EXCEPT ![e] = f]
  BY <1>1, <1>2, NoSweep
<1>3. CASE loop' = [loop EXCEPT ![e] = Idle]
  BY <1>3, FrameTypes, NoSweep
<1>. QED
  BY <1>2, <1>3 DEF Attempt, Raise, f

(* Nor does storing a result.                                              *)
LEMMA NoSweepStore ==
  ASSUME SingleEngine, TypeOK, NEW e \in Engines, NEW j \in Jobs,
         NEW then \in {"store", "reply"}, loop[e] = Idle, StoreExecutionResult(e, j, then)
  PROVE  SweepInv'
<1>. DEFINE f == Frame("save", j, jobs[j], tasks[e][j], then)
<1>1. f.at = "save" /\ f.then = then
  BY FrameFields
<1>. HIDE DEF f
<1>2. CASE loop' = [loop EXCEPT ![e] = f]
  BY <1>1, <1>2, NoSweep
<1>3. CASE UNCHANGED loop
  BY <1>3, FrameTypes, NoSweep
<1>4. ASSUME NEW to, NEW t \in {"store", "reply", "settle"}, Attempt(e, j, jobs[j], to, t)
      PROVE  SweepInv'
  BY <1>4, NoSweepAttempt
<1>. QED
  BY <1>2, <1>3, <1>4 DEF StoreExecutionResult, f

(* Every row is on the page: fewer than Jobs are newer than any of them. *)
PageHoldsAll == Cardinality(Jobs) <= RecoverLimit

(* A page that holds all rows lists every job there is.                    *)
LEMMA AllListed ==
  ASSUME PageHoldsAll, TypeOK, NEW j \in Jobs, jobs[j].status # "absent"
  PROVE  Listed(j)
<1>. DEFINE newer == {k \in Jobs : created_at[k] > created_at[j]}
<1>1. created_at[j] \in Nat /\ IsFiniteSet(Jobs) /\ RecoverLimit \in Nat
  BY JobsAssumption DEF TypeOK
<1>2. newer \subseteq Jobs \ {j}
  BY <1>1
<1>. HIDE DEF newer
<1>3. IsFiniteSet(Jobs \ {j}) /\ Cardinality(Jobs \ {j}) = Cardinality(Jobs) - 1
  BY <1>1, FS_RemoveElement
<1>4. Cardinality(newer) <= Cardinality(Jobs \ {j})
  BY <1>2, <1>3, FS_Subset
<1>5. Cardinality(newer) \in Nat /\ Cardinality(Jobs) \in Nat
  BY <1>1, <1>2, <1>3, FS_Subset, FS_CardinalityType
<1>. QED
  BY <1>1, <1>3, <1>4, <1>5 DEF PageHoldsAll, Listed, newer

(* Every step keeps all that is not terminal on the sweep's page.          *)
LEMMA SweepStep ==
  ASSUME SingleEngine, PageHoldsAll, TypeOK, ResultInv, RecordInv, TargetInv, SweepInv,
         NEW e \in Engines,
         \/ Continue(e) \/ StoreFault(e)
         \/ List(e) \/ Shutdown(e) \/ Stop(e) \/ Open(e)
         \/ \E j \in Jobs :
              \/ Submit(e, j) \/ Cancel(e, j) \/ GetResult(e, j)
              \/ StartTask(e, j) \/ EndTask(e, j) \/ Watch(e, j)
  PROVE  SweepInv'
<1>. DEFINE f == loop[e]
<1>0. \A g \in Engines : g = e
  BY DEF SingleEngine
<1>1. CASE loop' = [loop EXCEPT ![e] = Idle]
  BY <1>1, FrameTypes, NoSweep
<1>2. CASE UNCHANGED <<jobs, page, loop>>
  BY <1>2 DEF SweepInv, InSweep, InUpdate, Nonterminal
<1>3. CASE CheckVersion(e)
  BY <1>0, <1>3, VersionMatches DEF SweepInv, InSweep, Nonterminal, tables
<1>4. CASE SaveResult(e)
  <2>1. f.then # "sweep"
    BY <1>4 DEF SaveResult, TypeOK, ResultInv, WriteBacked, InUpdate
  <2>. QED
    BY <1>4, <2>1, NoSweepAttempt DEF SaveResult
<1>5. CASE Spawn(e) \/ Process(e) \/ Finish(e) \/ FinishSweep(e) \/ StoreFault(e) \/ Stop(e)
  BY <1>1, <1>5 DEF Spawn, Process, Finish, FinishSweep, StoreFault, Raise, Stop
<1>6. CASE Settle(e) \/ Revoke(e)
  <2>1. ASSUME NEW then \in {"store", "end"},
               loop' = [loop EXCEPT ![e] =
                 Frame("check", f.job, transition(f.cur, f.to), "cancelled", then)]
        PROVE  SweepInv'
    <3>. DEFINE g == Frame("check", f.job, transition(f.cur, f.to), "cancelled", then)
    <3>1. g.at = "check" /\ g.then = then
      BY FrameFields
    <3>. HIDE DEF g
    <3>. QED
      BY <2>1, <3>1, NoSweep DEF g
  <2>. QED
    BY <1>1, <1>6, <2>1 DEF Settle, Revoke
<1>7. CASE RecoverRecord(e)
  <2>1. PICK j \in Jobs, to \in {"cancelled", "failed"} : Attempt(e, j, page[e][j], to, "sweep")
    BY <1>7 DEF RecoverRecord, Remaining
  <2>2. CASE UNCHANGED page
    BY <1>0, <1>7, <2>2 DEF RecoverRecord, SweepInv, InSweep, Nonterminal, tables
  <2>. QED
    BY <1>1, <2>1, <2>2 DEF Attempt, Raise
<1>8. CASE Recovered(e)
  <2>1. /\ f.job \in Jobs /\ jobs'[f.job].status = f.to /\ InUpdate(e) /\ f.then = "sweep"
        /\ \A j \in Jobs \ {f.job} : jobs'[j] = jobs[j]
    BY <1>8, RowMoves DEF Recovered
  <2>2. f.to \in TERMINAL_STATUSES
    BY <2>1 DEF TargetInv, RightTarget
  <2>3. \A j \in Jobs \ {f.job} : page'[e][j] = page[e][j]
    BY <1>8 DEF Recovered, TypeOK
  <2>. QED
    BY <1>0, <2>1, <2>2, <2>3 DEF SweepInv, InSweep, Nonterminal
<1>9. CASE List(e)
  <2>1. UNCHANGED jobs
    BY <1>9 DEF List, tables
  <2>2. ASSUME NEW j \in Jobs, Nonterminal(j) PROVE page'[e][j] # NoRow
    BY <1>9, <2>2, AllListed DEF List, TypeOK, Nonterminal, NoRow
  <2>. QED
    BY <1>0, <2>1, <2>2 DEF SweepInv, Nonterminal
<1>10. CASE Shutdown(e) \/ Open(e)
  BY <1>2, <1>10 DEF Shutdown, Open, tables
<1>11. ASSUME NEW j \in Jobs, Submit(e, j) PROVE SweepInv'
  <2>. DEFINE g == Frame("check", j, new_job_record, "queued", "spawn")
  <2>1. g.at = "check" /\ g.then = "spawn"
    BY FrameFields
  <2>. HIDE DEF g
  <2>. QED
    BY <1>11, <2>1, NoSweep DEF Submit, g
<1>12. ASSUME NEW j \in Jobs, Cancel(e, j) \/ StartTask(e, j) PROVE SweepInv'
  BY <1>12, NoSweepAttempt DEF Cancel, StartTask
<1>13. ASSUME NEW j \in Jobs, GetResult(e, j) \/ Watch(e, j) PROVE SweepInv'
  BY <1>13, NoSweepStore DEF GetResult, Watch, Serving, IsIdle
<1>14. ASSUME NEW j \in Jobs, EndTask(e, j) PROVE SweepInv'
  BY <1>2, <1>14 DEF EndTask, tables
<1>. QED
  BY <1>3, <1>4, <1>5, <1>6, <1>7, <1>8, <1>9, <1>10, <1>11, <1>12, <1>13, <1>14 DEF Continue
-----------------------------------------------------------------------------
(* A step that leaves no job behind, job by job. *)
AttendsOn(e) ==
  \A j \in Jobs : Nonterminal(j)' =>
    \/ Submitting(e, j)'
    \/ /\ Nonterminal(j)
       /\ j \in watching[e]   => j \in watching'[e] \/ StuckReview(j)'
       /\ StuckReview(j)      => StuckReview(j)'
       /\ Submitting(e, j)    => Submitting(e, j)' \/ j \in watching'[e]

(* Jobs stay attended while whoever attends them goes on.                  *)
LEMMA AttendKept ==
  ASSUME SingleEngine, AttendInv, NEW e \in Engines, UNCHANGED lifetime, AttendsOn(e)
  PROVE  AttendInv'
<1>1. AttendedOf(e) => AttendedOf(e)'
  BY DEF AttendedOf, AttendsOn
<1>. QED
  BY <1>1 DEF SingleEngine, AttendInv, lifetime

(* Outside an update, and with the rows as they are, a handler that takes  *)
(* a watcher away only of a job it leaves to StuckReview or terminal.      *)
LEMMA AttendQuiet ==
  ASSUME SingleEngine, AttendInv, NEW e \in Engines, UNCHANGED <<lifetime, jobs, results>>,
         ~InUpdate(e) \/ loop[e].then # "spawn",
         \A j \in watching[e] : j \in watching'[e] \/ ~Nonterminal(j)
  PROVE  AttendInv'
<1>1. AttendsOn(e)
  BY DEF AttendsOn, Nonterminal, StuckReview, Submitting
<1>. QED
  BY <1>1, AttendKept

(* Only the watcher's own exception takes a watcher away. *)
LEMMA AttendAttempt ==
  ASSUME SingleEngine, TypeOK, AttendInv, NEW e \in Engines, NEW j \in Jobs, NEW cur, NEW to,
         NEW then, Attempt(e, j, cur, to, then), UNCHANGED <<lifetime, jobs, results>>,
         ~InUpdate(e) \/ loop[e].then # "spawn",
         then \in {"store", "settle"} => CanTransition(cur.status, to) \/ ~Nonterminal(j)
  PROVE  AttendInv'
<1>1. \A k \in watching[e] : k \in watching'[e] \/ ~Nonterminal(k)
  BY DEF Attempt, Raise, TypeOK
<1>. QED
  BY <1>1, AttendQuiet

(* _store_execution_result: the watcher of a job that has a task moves it  *)
(* on or finds it terminal.                                                *)
LEMMA AttendStore ==
  ASSUME SingleEngine, TypeOK, StartedInv, AttendInv, NEW e \in Engines, NEW j \in Jobs,
         NEW then \in {"store", "reply"}, Started(e, j), ~InUpdate(e),
         StoreExecutionResult(e, j, then), UNCHANGED <<lifetime, jobs, results>>
  PROVE  AttendInv'
<1>. DEFINE cur == jobs[j]
<1>1. cur.status \in JobStatus \ {"absent", "created"}
  BY DEF StartedInv, StartedOf, TypeOK, JobRecord
<1>2. CASE cur.status \in TERMINAL_STATUSES
  <2>1. \A k \in watching[e] : k \in watching'[e] \/ ~Nonterminal(k)
    BY <1>2 DEF StoreExecutionResult, Nonterminal, TypeOK
  <2>. QED
    BY <2>1, AttendQuiet
<1>3. CASE cur.status \notin TERMINAL_STATUSES
  <2>1. cur.status \in {"queued", "running", "cancel_requested"}
    BY <1>1, <1>3 DEF JobStatus, TERMINAL_STATUSES
  <2>2. CASE UNCHANGED watching
    BY <2>2, AttendQuiet
  <2>3. CASE cur.status = "cancel_requested" /\ Attempt(e, j, cur, "cancelled", then)
    <3>1. CanTransition(cur.status, "cancelled")
      BY <2>3 DEF CanTransition, allowed_transitions
    <3>. QED
      BY <2>3, <3>1, AttendAttempt
  <2>4. CASE /\ cur.status \in {"queued", "running"}
             /\ Attempt(e, j, cur, "cancel_requested", "settle")
    <3>1. CanTransition(cur.status, "cancel_requested")
      BY <2>4 DEF CanTransition, allowed_transitions
    <3>. QED
      BY <2>4, <3>1, AttendAttempt
  <2>5. CASE Attempt(e, j, cur, "failed", then)
    <3>1. CanTransition(cur.status, "failed")
      BY <2>1 DEF CanTransition, allowed_transitions
    <3>. QED
      BY <2>5, <3>1, AttendAttempt
  <2>. QED
    BY <1>3, <2>1, <2>2, <2>3, <2>4, <2>5 DEF StoreExecutionResult
<1>. QED
  BY <1>2, <1>3

(* SaveResult: a result the row cannot announce is for review, and its job *)
(* stuck.                                                                  *)
LEMMA AttendSave ==
  ASSUME SingleEngine, TypeOK, ResultInv, RecordInv, StartedInv, AttendInv, NEW e \in Engines,
         SaveResult(e)
  PROVE  AttendInv'
<1>. DEFINE f == loop[e]
<1>1. PICK k \in Jobs, to \in ResultStatuses :
        /\ InUpdate(e) /\ k = f.job /\ to = f.to
        /\ f.cur = jobs[k] /\ jobs[k].status \notin TERMINAL_STATUSES
        /\ f.then \in {"store", "reply"} /\ tasks[e][k] = to
        /\ UNCHANGED <<jobs, lifetime>>
        /\ Attempt(e, k, jobs[k], to, f.then)
  BY DEF SaveResult, InUpdate, TypeOK, RecordInv, ResultInv, WriteBacked
<1>2. results'[k] = to /\ \A j \in Jobs \ {k} : results'[j] = results[j]
  BY <1>1 DEF SaveResult, TypeOK
<1>3. results[k] \in {"none", to}
  BY <1>1 DEF ResultInv, OneOwner, Started, ResultStatuses
<1>4. jobs[k].status \in {"running", "cancel_requested"}
  <2>1. jobs[k].status \in JobStatus \ {"absent", "created", "queued"}
    BY <1>1 DEF StartedInv, StartedOf, Started, ResultStatuses, TypeOK, JobRecord
  <2>. QED
    BY <1>1, <2>1 DEF JobStatus, TERMINAL_STATUSES
<1>5. CanTransition(jobs[k].status, to) \/ StuckReview(k)'
  BY <1>1, <1>2, <1>4 DEF CanTransition, allowed_transitions, ResultStatuses, StuckReview
<1>6. \A j \in watching[e] : j \in watching'[e] \/ StuckReview(j)'
  <2>1. CASE UNCHANGED watching
    BY <2>1
  <2>2. CASE ~CanTransition(jobs[k].status, to) /\ Raise(e, k, f.then)
    <3>1. StuckReview(k)'
      BY <1>5, <2>2
    <3>2. \A j \in watching[e] \ {k} : j \in watching'[e]
      BY <2>2 DEF Raise, TypeOK
    <3>. QED
      BY <3>1, <3>2
  <2>. QED
    BY <1>1, <2>1, <2>2 DEF Attempt
<1>7. \A j \in Jobs : StuckReview(j) => StuckReview(j)'
  BY <1>1, <1>2, <1>3 DEF StuckReview
<1>8. AttendsOn(e)
  BY <1>1, <1>6, <1>7 DEF AttendsOn, Nonterminal, Submitting
<1>. QED
  BY <1>1, <1>8, AttendKept

(* An UPDATE whose handler takes no watcher away, unless the row is        *)
(* terminal with it.                                                       *)
LEMMA AttendCommit ==
  ASSUME SingleEngine, TypeOK, RecordInv, TargetInv, AttendInv, NEW e \in Engines, Commit(e),
         \/ UNCHANGED watching
         \/ loop[e].then = "spawn" /\ watching' = [watching EXCEPT ![e] = @ \cup {loop[e].job}]
         \/ loop[e].then = "store" /\ watching' = [watching EXCEPT ![e] = @ \ {loop[e].job}],
         loop[e].then = "spawn" =>
           watching' = [watching EXCEPT ![e] = @ \cup {loop[e].job}]
  PROVE  AttendInv'
<1>. DEFINE f == loop[e]
<1>1. /\ f.job \in Jobs /\ InUpdate(e) /\ Nonterminal(f.job) /\ f.to \in JobStatus
      /\ CanTransition(jobs[f.job].status, f.to) /\ jobs'[f.job].status = f.to
      /\ \A j \in Jobs \ {f.job} : jobs'[j] = jobs[j]
      /\ UNCHANGED <<results, lifetime>>
  BY RowMoves DEF lifetime
<1>2. f.then = "store" => f.to \in TERMINAL_STATUSES
  BY <1>1 DEF TargetInv, RightTarget
<1>3. \A j \in watching[e] : j \in watching'[e] \/ ~Nonterminal(j)'
  BY <1>1, <1>2 DEF TypeOK, Nonterminal
<1>4. \A j \in Jobs : StuckReview(j) /\ Nonterminal(j)' => StuckReview(j)'
  BY <1>1, PolicyMoves DEF StuckReview, Nonterminal
<1>5. \A j \in Jobs : Submitting(e, j) => j \in watching'[e]
  BY <1>1 DEF Submitting, TypeOK
<1>6. \A j \in Jobs : Nonterminal(j)' => Nonterminal(j)
  BY <1>1 DEF Nonterminal
<1>7. AttendsOn(e)
  BY <1>3, <1>4, <1>5, <1>6 DEF AttendsOn
<1>. QED
  BY <1>1, <1>7, AttendKept

(* Every step of an engine leaves no job unattended.                       *)
LEMMA AttendStep ==
  ASSUME SingleEngine, ~StoreFaults, TypeOK, ResultInv, RecordInv, TargetInv, StartedInv,
         RevokedInv, SweepInv, AttendInv, NEW e \in Engines,
         \/ Continue(e) \/ StoreFault(e)
         \/ List(e) \/ Shutdown(e) \/ Stop(e) \/ Open(e)
         \/ \E j \in Jobs :
              \/ Submit(e, j) \/ Cancel(e, j) \/ GetResult(e, j)
              \/ StartTask(e, j) \/ EndTask(e, j) \/ Watch(e, j)
  PROVE  AttendInv'
<1>. DEFINE f == loop[e]
<1>0. \A g \in Engines : g = e
  BY DEF SingleEngine
<1>1. CASE CheckVersion(e)
  <2>1. AttendsOn(e) /\ UNCHANGED lifetime
    BY <1>1, VersionMatches
    DEF AttendsOn, Nonterminal, StuckReview, Submitting, tables, executions
  <2>. QED
    BY <2>1, AttendKept
<1>2. CASE SaveResult(e)
  BY <1>2, AttendSave
<1>3. CASE Spawn(e) \/ Process(e) \/ Settle(e) \/ Finish(e) \/ Revoke(e) \/ Recovered(e)
  <2>1. CASE Spawn(e)
    BY <2>1, AttendCommit DEF Spawn
  <2>2. CASE Finish(e)
    BY <2>2, AttendCommit DEF Finish
  <2>3. CASE Process(e) \/ Settle(e) \/ Revoke(e)
    BY <2>3, AttendCommit DEF Process, Settle, Revoke, executions
  <2>4. CASE Recovered(e)
    BY <2>4, AttendCommit DEF Recovered, executions
  <2>. QED
    BY <1>3, <2>1, <2>2, <2>3, <2>4
<1>4. CASE RecoverRecord(e)
  <2>1. PICK j \in Jobs, to \in {"cancelled", "failed"} : Attempt(e, j, page[e][j], to, "sweep")
    BY <1>4 DEF RecoverRecord, Remaining
  <2>2. ~InUpdate(e) /\ UNCHANGED <<lifetime, jobs, results>>
    BY <1>4 DEF RecoverRecord, InUpdate, tables
  <2>. QED
    BY <2>1, <2>2, AttendAttempt
<1>5. CASE FinishSweep(e)
  <2>1. /\ \A j \in Jobs : page[e][j] = NoRow
        /\ UNCHANGED <<jobs, results, engine>>
        /\ InSweep(e) /\ engine[e] # "down"
    BY <1>5, DownIsQuiet DEF Continue, FinishSweep, Remaining, tables, InSweep
  <2>2. \A j \in Jobs : ~Nonterminal(j)'
    BY <2>1 DEF SweepInv, Nonterminal
  <2>. QED
    BY <1>0, <2>1, <2>2 DEF AttendInv, AttendedOf
<1>6. CASE Shutdown(e) \/ Stop(e)
  BY <1>0, <1>6 DEF Shutdown, Stop, TypeOK, AttendInv
<1>7. CASE Open(e)
  <2>1. ~recovered[e] /\ UNCHANGED recovered /\ engine'[e] # "down"
    BY <1>7 DEF Open, AttendInv, TypeOK
  <2>. QED
    BY <1>0, <2>1 DEF AttendInv
<1>8. CASE List(e)
  <2>1. ~InUpdate(e) /\ UNCHANGED <<lifetime, jobs, results, watching>>
    BY <1>8, FrameTypes DEF List, InUpdate, tables, executions
  <2>. QED
    BY <2>1, AttendQuiet
<1>9. ASSUME NEW j \in Jobs, Submit(e, j) PROVE AttendInv'
  <2>. DEFINE g == Frame("check", j, new_job_record, "queued", "spawn")
  <2>1. g.at = "check" /\ g.job = j /\ g.then = "spawn"
    BY FrameFields
  <2>. HIDE DEF g
  <2>2. loop'[e] = g
    BY <1>9 DEF Submit, TypeOK, g
  <2>3. Submitting(e, j)'
    BY <2>1, <2>2 DEF Submitting, InUpdate
  <2>4. /\ UNCHANGED <<lifetime, results, watching>> /\ ~InUpdate(e)
        /\ \A k \in Jobs \ {j} : jobs'[k] = jobs[k]
    BY <1>9, FrameTypes DEF Submit, Serving, executions, InUpdate, TypeOK
  <2>5. AttendsOn(e)
    BY <2>3, <2>4 DEF AttendsOn, Nonterminal, StuckReview, Submitting
  <2>. QED
    BY <2>4, <2>5, AttendKept
<1>10. ASSUME NEW j \in Jobs, Cancel(e, j) \/ StartTask(e, j) PROVE AttendInv'
  <2>1. ~InUpdate(e) /\ UNCHANGED <<lifetime, jobs, results>>
    BY <1>10, FrameTypes DEF Cancel, StartTask, Serving, IsIdle, InUpdate, tables
  <2>. QED
    BY <1>10, <2>1, AttendAttempt DEF Cancel, StartTask
<1>11. ASSUME NEW j \in Jobs, GetResult(e, j) \/ Watch(e, j) PROVE AttendInv'
  <2>1. ~InUpdate(e) /\ UNCHANGED <<lifetime, jobs, results>> /\ Started(e, j)
    BY <1>11, FrameTypes
    DEF GetResult, Watch, Serving, IsIdle, InUpdate, tables, HandleCompleted, TaskResults, Started
  <2>. QED
    BY <1>11, <2>1, AttendStore DEF GetResult, Watch
<1>12. ASSUME NEW j \in Jobs, EndTask(e, j) PROVE AttendInv'
  <2>1. ~InUpdate(e) /\ UNCHANGED <<lifetime, jobs, results, watching>>
    BY <1>12, FrameTypes DEF EndTask, IsIdle, InUpdate, tables
  <2>. QED
    BY <2>1, AttendQuiet
<1>13. ~StoreFault(e)
  BY DEF StoreFault
<1>. QED
  BY <1>1, <1>2, <1>3, <1>4, <1>5, <1>6, <1>7, <1>8, <1>9, <1>10, <1>11, <1>12, <1>13
  DEF Continue

-----------------------------------------------------------------------------
(* What a handler is about to write, and how far a started job's row is,   *)
(* with one engine and whether or not statements fail.                     *)
LEMMA TargetsAndTasks ==
  ASSUME SingleEngine
  PROVE  Spec => [](TargetInv /\ StartedInv)
<1>1. Init => TargetInv /\ StartedInv
  BY FrameTypes DEF Init, TargetInv, InUpdate, StartedInv, StartedOf, Started, ResultStatuses
<1>2. TypeOK /\ ResultInv /\ RecordInv /\ (TargetInv /\ StartedInv) /\ [Next]_vars
        => (TargetInv /\ StartedInv)'
  <2>1. CASE UNCHANGED vars
    BY <2>1 DEF vars, TargetInv, InUpdate, StartedInv, StartedOf, Started
  <2>2. ASSUME TypeOK, ResultInv, RecordInv, TargetInv, StartedInv, Next
        PROVE  TargetInv' /\ StartedInv'
    BY <2>2, TargetStep, StartedStep DEF Next
  <2>. QED
    BY <2>1, <2>2
<1>. QED
  BY <1>1, <1>2, TypeCorrect, ResultsOwned, RecordsCurrent, PTL DEF Spec

(* With one engine whose statements do not fail, a job that cancel() found *)
(* alive is CANCELLED in every state in which the service answers.         *)
THEOREM CancelsWin ==
  ASSUME SingleEngine, ~StoreFaults
  PROVE  Spec => []CancelWins
<1>1. Init => RevokedInv
  BY DEF Init, RevokedInv
<1>2. TypeOK /\ ResultInv /\ RecordInv /\ (TargetInv /\ StartedInv) /\ RevokedInv /\ [Next]_vars
        => RevokedInv'
  <2>1. CASE UNCHANGED vars
    BY <2>1 DEF vars, RevokedInv, Cancelling, InUpdate
  <2>2. ASSUME TypeOK, ResultInv, RecordInv, TargetInv, RevokedInv, Next
        PROVE  RevokedInv'
    BY <2>2, RevokedStep DEF Next
  <2>. QED
    BY <2>1, <2>2
<1>3. RevokedInv => CancelWins
  BY FrameTypes DEF RevokedInv, CancelWins, Serving, Cancelling, InUpdate
<1>. QED
  BY <1>1, <1>2, <1>3, TypeCorrect, ResultsOwned, RecordsCurrent, TargetsAndTasks, PTL DEF Spec

(* With one engine, statements that do not fail and a page that holds all  *)
(* rows, every job that is not terminal has a watcher whenever the service *)
(* answers, except by StuckReview: recovery and handlers leave none behind. *)
THEOREM NobodyLeftWaiting ==
  ASSUME SingleEngine, ~StoreFaults, PageHoldsAll
  PROVE  Spec => []Attended
<1>. DEFINE Inv == RevokedInv /\ SweepInv /\ AttendInv
<1>1. Init => Inv
  BY FrameTypes DEF Init, RevokedInv, SweepInv, InSweep, InUpdate, AttendInv
<1>2. TypeOK /\ ResultInv /\ RecordInv /\ (TargetInv /\ StartedInv) /\ Inv /\ [Next]_vars
        => Inv'
  <2>1. CASE UNCHANGED vars
    BY <2>1 DEF vars, RevokedInv, Cancelling, SweepInv, InSweep, AttendInv, AttendedOf,
                Submitting, StuckReview, Nonterminal, InUpdate
  <2>2. ASSUME TypeOK, ResultInv, RecordInv, TargetInv, StartedInv, Inv, Next
        PROVE  Inv'
    <3>1. PICK e \in Engines :
            \/ Continue(e) \/ StoreFault(e)
            \/ List(e) \/ Shutdown(e) \/ Stop(e) \/ Open(e)
            \/ \E j \in Jobs :
                 \/ Submit(e, j) \/ Cancel(e, j) \/ GetResult(e, j)
                 \/ StartTask(e, j) \/ EndTask(e, j) \/ Watch(e, j)
      BY <2>2 DEF Next
    <3>2. RevokedInv'
      BY <2>2, <3>1, RevokedStep
    <3>3. SweepInv'
      BY <2>2, <3>1, SweepStep
    <3>4. AttendInv'
      BY <2>2, <3>1, AttendStep
    <3>. QED
      BY <3>2, <3>3, <3>4
  <2>. QED
    BY <2>1, <2>2
<1>3. Inv => Attended
  BY FrameTypes DEF AttendInv, AttendedOf, Attended, Serving, Submitting, InUpdate
<1>. QED
  BY <1>1, <1>2, <1>3, TypeCorrect, ResultsOwned, RecordsCurrent, TargetsAndTasks, PTL DEF Spec
=============================================================================
