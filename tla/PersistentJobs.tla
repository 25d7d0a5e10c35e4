--------------------------- MODULE PersistentJobs ---------------------------
(***************************************************************************)
(* PersistentJobService over SQLiteJobStore, with LocalJobRecoveryService  *)
(* and the job task of LocalRuntime (services.py, jobs.py, handle.py).     *)
(*                                                                         *)
(* An engine is one process with one asyncio event loop.  The store's      *)
(* methods are synchronous inside `async def`, so awaiting them never      *)
(* yields: a handler (submit, cancel, get_result, the sweep of recover,    *)
(* the first part of run_processing, the end of a watcher) keeps the loop  *)
(* until it returns.  loop[e] is the handler engine e is inside of and the *)
(* SQL statement it has reached.  Engines that open the same database      *)
(* interleave between statements, and a crash may come between any two.    *)
(*                                                                         *)
(* SQLiteJobStore.update is two statements: a SELECT that compares the     *)
(* version (at "check") and an UPDATE by job_id alone (at "write").        *)
(***************************************************************************)
EXTENDS JobPolicy, FiniteSets

CONSTANTS
  Engines,       (* processes that open the database                       *)
  Jobs,          (* job ids that submit may draw; bounds the number of jobs *)
  NoJob,         (* not a job                                              *)
  RecoverLimit,  (* JobQuery(limit=500) of recover(), scaled down          *)
  Outcomes,      (* how process() may end when nobody cancels the task     *)
  StoreFaults    (* whether sqlite3.Error may interrupt a statement        *)

ASSUME JobsAssumption ==
  /\ NoJob \notin Jobs
  /\ IsFiniteSet(Jobs)
  /\ RecoverLimit \in Nat
  /\ Outcomes \subseteq {"completed", "review_required", "no_value", "failed"}
  /\ StoreFaults \in BOOLEAN

VARIABLES
  jobs,        (* table jobs                                               *)
  results,     (* table job_results: kind of the stored ProcessingResult   *)
  created_at,  (* jobs.created_at, as the rank of the INSERT               *)
  clock,       (* last created_at given                                    *)
  engine,      (* DocumentEngine.state, "down" when there is no process    *)
  recovered,   (* PersistentJobService._recovered                          *)
  page,        (* the rows recover() has listed and not yet handled        *)
  tasks,       (* the job's asyncio task: absent, waiting, in process()    *)
               (* or its result                                            *)
  revoked,     (* handles whose cancel() found the task alive              *)
  watching,    (* jobs whose _watch_job has not returned                   *)
  loop         (* the handler the event loop is inside of                  *)

tables     == <<jobs, results, created_at, clock>>
lifetime   == <<engine, recovered>>
executions == <<tasks, revoked, watching>>
vars == <<jobs, results, created_at, clock, engine, recovered, page,
          tasks, revoked, watching, loop>>

-----------------------------------------------------------------------------
(* A task's results: TIMED_OUT is handled as FAILED, and "no_value" is a   *)
(* COMPLETED execution whose value is None.                                *)
TaskResults == {"completed", "review_required", "no_value", "failed", "cancelled"}
TaskStates  == {"none", "pending", "running"} \cup TaskResults

(* A handler's continuation: what it does after its update commits.        *)
Continuations ==
  {"spawn",    (* submit: hand the task to the runtime                     *)
   "process",  (* run_processing: await process()                          *)
   "revoke",   (* cancel: cancel the handle                                *)
   "settle",   (* _store_execution_result: CANCEL_REQUESTED to CANCELLED   *)
   "store",    (* _store_execution_result called by the watcher            *)
   "reply",    (* _store_execution_result called by get_result             *)
   "sweep",    (* recover: next record                                     *)
   "end"}      (* answer the client                                        *)

Frame(at, j, cur, to, then) ==
  [at |-> at, job |-> j, cur |-> cur, to |-> to, then |-> then]

Idle     == Frame("idle", NoJob, NoRow, "absent", "end")
Sweeping == Frame("sweep", NoJob, NoRow, "absent", "sweep")

IsIdle(e) == engine[e] # "down" /\ loop[e] = Idle

(* A request is served: DocumentEngine._ensure_running, then               *)
(* _ensure_recovered.                                                      *)
Serving(e) == engine[e] = "running" /\ recovered[e] /\ loop[e] = Idle

(* LocalExecutionHandle.status = CANCELLED.  cancel() sets it on a live    *)
(* task; the end of _run_task overwrites it with the result's status.      *)
HandleCancelled(e, j) ==
  \/ tasks[e][j] = "cancelled"
  \/ tasks[e][j] \in {"pending", "running"} /\ j \in revoked[e]

(* LocalExecutionHandle.status = COMPLETED. *)
HandleCompleted(e, j) == tasks[e][j] \in {"completed", "review_required", "no_value"}

Live(e, j) == tasks[e][j] \in {"pending", "running"}

Init ==
  /\ jobs       = [j \in Jobs |-> NoRow]
  /\ results    = [j \in Jobs |-> "none"]
  /\ created_at = [j \in Jobs |-> 0]
  /\ clock      = 0
  /\ engine     = [e \in Engines |-> "running"]
  /\ recovered  = [e \in Engines |-> FALSE]
  /\ page       = [e \in Engines |-> [j \in Jobs |-> NoRow]]
  /\ tasks      = [e \in Engines |-> [j \in Jobs |-> "none"]]
  /\ revoked    = [e \in Engines |-> {}]
  /\ watching   = [e \in Engines |-> {}]
  /\ loop       = [e \in Engines |-> Idle]

-----------------------------------------------------------------------------
(* Leaving a handler.                                                      *)

(* An exception leaves the handler.  run_processing's makes its task fail; *)
(* the watcher's is lost with the watcher; the sweep's leaves _recovered   *)
(* False; the others answer the client.                                    *)
Raise(e, j, then) ==
  /\ loop' = [loop EXCEPT ![e] = Idle]
  /\ tasks' = IF then = "process" THEN [tasks EXCEPT ![e][j] = "failed"] ELSE tasks
  /\ watching' = IF then \in {"store", "settle"}
                 THEN [watching EXCEPT ![e] = @ \ {j}] ELSE watching
  /\ page' = IF then = "sweep"
             THEN [page EXCEPT ![e] = [k \in Jobs |-> NoRow]] ELSE page

(* policy.transition on the record read, then store.update. *)
Attempt(e, j, cur, to, then) ==
  \/ /\ CanTransition(cur.status, to)
     /\ loop' = [loop EXCEPT ![e] = Frame("check", j, cur, to, then)]
     /\ UNCHANGED <<tasks, watching, page>>
  \/ /\ ~CanTransition(cur.status, to)
     /\ Raise(e, j, then)

-----------------------------------------------------------------------------
(* SQLiteJobStore.update *)

(* SELECT and compare: JobConcurrencyError on another version. *)
CheckVersion(e) ==
  LET f == loop[e] IN
  /\ f.at = "check"
  /\ \/ /\ jobs[f.job].version = f.cur.version
        /\ loop' = [loop EXCEPT ![e].at = "write"]
        /\ UNCHANGED <<tasks, watching, page>>
     \/ /\ jobs[f.job].version # f.cur.version
        /\ Raise(e, f.job, f.then)
  /\ UNCHANGED <<tables, lifetime, revoked>>

(* UPDATE jobs SET ... WHERE job_id = ? *)
Commit(e) ==
  LET f == loop[e] IN
  /\ f.at = "write"
  /\ jobs' = [jobs EXCEPT ![f.job] = transition(f.cur, f.to)]
  /\ UNCHANGED <<results, created_at, clock, lifetime>>

(* sqlite3.Error becomes JobPersistenceError at any statement. *)
StoreFault(e) ==
  /\ StoreFaults
  /\ loop[e].at \in {"check", "write", "save"}
  /\ Raise(e, loop[e].job, loop[e].then)
  /\ UNCHANGED <<tables, lifetime, revoked>>

-----------------------------------------------------------------------------
(* submit *)

Submit(e, j) ==
  /\ Serving(e)
  /\ created_at[j] = 0                         \* JobId.new() is fresh
  /\ jobs'       = [jobs EXCEPT ![j] = new_job_record]
  /\ created_at' = [created_at EXCEPT ![j] = clock + 1]
  /\ clock'      = clock + 1
  /\ loop' = [loop EXCEPT ![e] = Frame("check", j, new_job_record, "queued", "spawn")]
  /\ UNCHANGED <<results, lifetime, page, executions>>

(* The job is QUEUED: runtime.submit, then the watcher is created. *)
Spawn(e) ==
  LET j == loop[e].job IN
  /\ loop[e].then = "spawn"
  /\ Commit(e)
  /\ tasks'    = [tasks EXCEPT ![e][j] = "pending"]
  /\ watching' = [watching EXCEPT ![e] = @ \cup {j}]
  /\ loop'     = [loop EXCEPT ![e] = Idle]
  /\ UNCHANGED <<page, revoked>>

-----------------------------------------------------------------------------
(* The job's task: LocalRuntime._run_task around run_processing            *)

(* The task gets its slot of the semaphore and run_processing starts. *)
StartTask(e, j) ==
  /\ IsIdle(e)
  /\ tasks[e][j] = "pending" /\ j \notin revoked[e]
  /\ Attempt(e, j, jobs[j], "running", "process")
  /\ UNCHANGED <<tables, lifetime, revoked>>

(* The job is RUNNING: run_processing awaits process() and yields. *)
Process(e) ==
  /\ loop[e].then = "process"
  /\ Commit(e)
  /\ tasks' = [tasks EXCEPT ![e][loop[e].job] = "running"]
  /\ loop'  = [loop EXCEPT ![e] = Idle]
  /\ UNCHANGED <<page, revoked, watching>>

(* Regression: the runtime's TIMED_OUT is handed through unmapped. *)
EndTaskTimedOut(e, j) ==
  /\ IsIdle(e)
  /\ tasks[e][j] = "running"
  /\ tasks' = [tasks EXCEPT ![e][j] = "timed_out"]
  /\ UNCHANGED <<tables, lifetime, page, revoked, watching, loop>>

(* The task ends.  A task revoked before it had a slot is cancelled; one   *)
(* revoked inside process() may still end in any way, because the nested   *)
(* capability task absorbs the cancellation.                               *)
EndTask(e, j) ==
  /\ IsIdle(e)
  /\ \E result \in Outcomes \cup {"cancelled"} :
       /\ \/ tasks[e][j] = "running" /\ (result = "cancelled" => j \in revoked[e])
          \/ tasks[e][j] = "pending" /\ result = "cancelled" /\ j \in revoked[e]
       /\ tasks' = [tasks EXCEPT ![e][j] = result]
  /\ UNCHANGED <<tables, lifetime, page, revoked, watching, loop>>

-----------------------------------------------------------------------------
(* _store_execution_result *)

(* Regression: the early return on a terminal record is gone. *)
StoreOverTerminal(e, j, then) ==
  LET cur    == jobs[j]
      result == tasks[e][j] IN
  \/ /\ result \in ResultStatuses
     /\ loop' = [loop EXCEPT ![e] = Frame("save", j, cur, result, then)]
     /\ UNCHANGED <<tasks, watching, page>>
  \/ /\ result \notin ResultStatuses
     /\ Attempt(e, j, cur, IF result = "cancelled" THEN "cancelled" ELSE "failed", then)

(* Regression: the status is updated without save_result. *)
StoreWithoutSaving(e, j, then) ==
  LET cur == jobs[j]
      to  == IF tasks[e][j] \in ResultStatuses THEN tasks[e][j] ELSE "failed" IN
  /\ cur.status \notin TERMINAL_STATUSES
  /\ Attempt(e, j, cur, to, then)

(* save_result comes first (at "save"), the transition after it. *)
StoreExecutionResult(e, j, then) ==
  LET cur    == jobs[j]
      result == tasks[e][j] IN
  \/ /\ cur.status \in TERMINAL_STATUSES
     /\ watching' = IF then = "store" THEN [watching EXCEPT ![e] = @ \ {j}] ELSE watching
     /\ UNCHANGED <<loop, tasks, page>>
  \/ /\ cur.status \notin TERMINAL_STATUSES
     /\ \/ /\ result \in ResultStatuses
           /\ loop' = [loop EXCEPT ![e] = Frame("save", j, cur, result, then)]
           /\ UNCHANGED <<tasks, watching, page>>
        \/ /\ result = "cancelled"
           /\ IF cur.status \in {"created", "cancel_requested"}
              THEN Attempt(e, j, cur, "cancelled", then)
              ELSE Attempt(e, j, cur, "cancel_requested", "settle")
        \/ /\ result \in {"failed", "no_value"}
           /\ Attempt(e, j, cur, "failed", then)

(* The watcher wakes after the task has ended. *)
Watch(e, j) ==
  /\ IsIdle(e)
  /\ j \in watching[e] /\ tasks[e][j] \in TaskResults
  /\ StoreExecutionResult(e, j, "store")
  /\ UNCHANGED <<tables, lifetime, revoked>>

(* get_result stores the result itself when it overtakes the watcher.      *)
(* Its other paths, and get_status, change nothing.                        *)
GetResult(e, j) ==
  /\ Serving(e)
  /\ jobs[j].status \notin {"absent", "failed", "cancelled"}
  /\ ~jobs[j].result_available
  /\ HandleCompleted(e, j)
  /\ StoreExecutionResult(e, j, "reply")
  /\ UNCHANGED <<tables, lifetime, revoked>>

SaveResult(e) ==
  LET f == loop[e] IN
  /\ f.at = "save"
  /\ results' = [results EXCEPT ![f.job] = f.to]
  /\ Attempt(e, f.job, f.cur, f.to, f.then)
  /\ UNCHANGED <<jobs, created_at, clock, lifetime, revoked>>

(* CANCEL_REQUESTED is written: CANCELLED follows in the same handler. *)
Settle(e) ==
  LET f == loop[e] IN
  /\ f.then = "settle"
  /\ Commit(e)
  /\ loop' = [loop EXCEPT ![e] =
                Frame("check", f.job, transition(f.cur, f.to), "cancelled", "store")]
  /\ UNCHANGED <<page, executions>>

(* The last update of a watcher, of get_result or of cancel. *)
Finish(e) ==
  LET f == loop[e] IN
  /\ f.then \in {"store", "reply", "end"}
  /\ Commit(e)
  /\ watching' = IF f.then = "store" THEN [watching EXCEPT ![e] = @ \ {f.job}] ELSE watching
  /\ loop' = [loop EXCEPT ![e] = Idle]
  /\ UNCHANGED <<page, tasks, revoked>>

-----------------------------------------------------------------------------
(* cancel.  On a terminal job it changes nothing. *)

Cancel(e, j) ==
  LET cur == jobs[j] IN
  /\ Serving(e)
  /\ cur.status \notin TERMINAL_STATUSES \cup {"absent"}
  /\ \/ /\ cur.status = "cancel_requested"
        /\ tasks[e][j] = "none" \/ HandleCancelled(e, j)
        /\ Attempt(e, j, cur, "cancelled", "end")
     \/ /\ cur.status = "created"
        /\ Attempt(e, j, cur, "cancelled", "end")
     \/ /\ cur.status \in {"queued", "running"}
        /\ Attempt(e, j, cur, "cancel_requested", "revoke")
  /\ UNCHANGED <<tables, lifetime, revoked>>

(* Regression: cancel leaves the last update to the watcher. *)
RevokeAndReturn(e) ==
  LET f == loop[e]
      j == f.job IN
  /\ f.then = "revoke"
  /\ Commit(e)
  /\ revoked' = IF Live(e, j) THEN [revoked EXCEPT ![e] = @ \cup {j}] ELSE revoked
  /\ loop' = [loop EXCEPT ![e] = Idle]
  /\ UNCHANGED <<page, tasks, watching>>

(* CANCEL_REQUESTED is written: cancel the handle, if there is one, and    *)
(* go on to CANCELLED unless the task had already ended in another way.    *)
Revoke(e) ==
  LET f == loop[e]
      j == f.job IN
  /\ f.then = "revoke"
  /\ Commit(e)
  /\ revoked' = IF Live(e, j) THEN [revoked EXCEPT ![e] = @ \cup {j}] ELSE revoked
  /\ loop' = [loop EXCEPT ![e] =
                IF tasks[e][j] \in {"none", "pending", "running", "cancelled"}
                THEN Frame("check", j, transition(f.cur, f.to), "cancelled", "end")
                ELSE Idle]
  /\ UNCHANGED <<page, tasks, watching>>

-----------------------------------------------------------------------------
(* LocalJobRecoveryService.recover, on the first operation of an engine    *)

(* ORDER BY created_at DESC LIMIT 500, terminal jobs included. *)
Listed(j) ==
  /\ jobs[j].status # "absent"
  /\ Cardinality({k \in Jobs : created_at[k] > created_at[j]}) < RecoverLimit

(* Regression: recover() takes CANCEL_REQUESTED for a settled status. *)
ListWithoutCancelling(e) ==
  /\ engine[e] = "running" /\ ~recovered[e] /\ loop[e] = Idle
  /\ page' = [page EXCEPT ![e] =
                [j \in Jobs |-> IF Listed(j) /\ jobs[j].status \in {"created", "queued", "running"}
                                THEN jobs[j] ELSE NoRow]]
  /\ loop' = [loop EXCEPT ![e] = Sweeping]
  /\ UNCHANGED <<tables, lifetime, executions>>

List(e) ==
  /\ engine[e] = "running" /\ ~recovered[e] /\ loop[e] = Idle
  /\ page' = [page EXCEPT ![e] =
                [j \in Jobs |-> IF Listed(j) /\ jobs[j].status \notin TERMINAL_STATUSES
                                THEN jobs[j] ELSE NoRow]]
  /\ loop' = [loop EXCEPT ![e] = Sweeping]
  /\ UNCHANGED <<tables, lifetime, executions>>

Remaining(e) == {j \in Jobs : page[e][j] # NoRow}

(* _recover_record on the next row of the page, newest first. *)
RecoverRecord(e) ==
  /\ loop[e].at = "sweep"
  /\ \E j \in Remaining(e) :
       /\ \A k \in Remaining(e) : created_at[k] <= created_at[j]
       /\ Attempt(e, j, page[e][j],
                  IF page[e][j].status = "cancel_requested" THEN "cancelled" ELSE "failed",
                  "sweep")
  /\ UNCHANGED <<tables, lifetime, revoked>>

Recovered(e) ==
  /\ loop[e].then = "sweep"
  /\ Commit(e)
  /\ page' = [page EXCEPT ![e][loop[e].job] = NoRow]
  /\ loop' = [loop EXCEPT ![e] = Sweeping]
  /\ UNCHANGED executions

FinishSweep(e) ==
  /\ loop[e].at = "sweep"
  /\ Remaining(e) = {}
  /\ recovered' = [recovered EXCEPT ![e] = TRUE]
  /\ loop' = [loop EXCEPT ![e] = Idle]
  /\ UNCHANGED <<tables, engine, page, executions>>

-----------------------------------------------------------------------------
(* Processes *)

(* DocumentEngine.shutdown: no more requests; LocalRuntime.shutdown        *)
(* cancels every handle that is not done and lets the loop run on.         *)
Shutdown(e) ==
  /\ engine[e] = "running" /\ loop[e] = Idle
  /\ engine'  = [engine EXCEPT ![e] = "stopping"]
  /\ revoked' = [revoked EXCEPT ![e] = @ \cup {j \in Jobs : Live(e, j)}]
  /\ UNCHANGED <<tables, recovered, page, tasks, watching, loop>>

(* The process ends, at any statement: after shutdown, or by a crash. *)
Stop(e) ==
  /\ engine[e] # "down"
  /\ engine'    = [engine EXCEPT ![e] = "down"]
  /\ recovered' = [recovered EXCEPT ![e] = FALSE]
  /\ page'      = [page EXCEPT ![e] = [j \in Jobs |-> NoRow]]
  /\ tasks'     = [tasks EXCEPT ![e] = [j \in Jobs |-> "none"]]
  /\ revoked'   = [revoked EXCEPT ![e] = {}]
  /\ watching'  = [watching EXCEPT ![e] = {}]
  /\ loop'      = [loop EXCEPT ![e] = Idle]
  /\ UNCHANGED tables

(* A new process opens a new engine on the database. *)
Open(e) ==
  /\ engine[e] = "down"
  /\ engine' = [engine EXCEPT ![e] = "running"]
  /\ UNCHANGED <<tables, recovered, page, executions, loop>>

-----------------------------------------------------------------------------
(* The handler the loop is inside of goes on. *)
Continue(e) ==
  \/ CheckVersion(e) \/ SaveResult(e)
  \/ Spawn(e) \/ Process(e) \/ Settle(e) \/ Finish(e) \/ Revoke(e)
  \/ RecoverRecord(e) \/ Recovered(e) \/ FinishSweep(e)

Next ==
  \E e \in Engines :
    \/ Continue(e) \/ StoreFault(e)
    \/ List(e) \/ Shutdown(e) \/ Stop(e) \/ Open(e)
    \/ \E j \in Jobs :
         \/ Submit(e, j) \/ Cancel(e, j) \/ GetResult(e, j)
         \/ StartTask(e, j) \/ EndTask(e, j) \/ Watch(e, j)

(* The loop's ready queue is first-in first-out: a callback that is ready  *)
(* again and again between other handlers does run, hence strong fairness  *)
(* for what waits for an idle loop.  A task waits for a slot that other    *)
(* tasks give back because the default timeout ends them.  A client that   *)
(* opens an engine sends it an operation, which starts the sweep.  Nothing *)
(* makes a client submit, cancel or ask for a result, nor a process stop   *)
(* or start.                                                               *)
Fairness ==
  \A e \in Engines :
    /\ WF_vars(Continue(e))
    /\ WF_vars(List(e))
    /\ \A j \in Jobs :
         /\ SF_vars(StartTask(e, j))
         /\ SF_vars(EndTask(e, j))
         /\ SF_vars(Watch(e, j))

Spec     == Init /\ [][Next]_vars
FairSpec == Spec /\ Fairness

-----------------------------------------------------------------------------
(* Properties *)

Frames ==
  [at   : {"idle", "check", "write", "save", "sweep"},
   job  : Jobs \cup {NoJob},
   cur  : JobRecord,
   to   : JobStatus \cup {"absent"},
   then : Continuations]

(* Every variable keeps its type; a handler between statements names a job *)
(* and a real target status.                                               *)
TypeOK ==
  /\ jobs       \in [Jobs -> JobRecord]
  /\ results    \in [Jobs -> {"none"} \cup ResultStatuses]
  /\ created_at \in [Jobs -> Nat]
  /\ clock      \in Nat
  /\ engine     \in [Engines -> {"down", "running", "stopping"}]
  /\ recovered  \in [Engines -> BOOLEAN]
  /\ page       \in [Engines -> [Jobs -> JobRecord]]
  /\ tasks      \in [Engines -> [Jobs -> TaskStates]]
  /\ revoked    \in [Engines -> SUBSET Jobs]
  /\ watching   \in [Engines -> SUBSET Jobs]
  /\ loop       \in [Engines -> Frames]
  /\ \A e \in Engines : loop[e].at \in {"check", "write", "save"} =>
       loop[e].job \in Jobs /\ loop[e].to \in JobStatus
  /\ \A e \in Engines : loop[e].at = "save" => loop[e].to \in ResultStatuses

Nonterminal(j) == jobs[j].status \notin TERMINAL_STATUSES \cup {"absent"}

(* result_available is set exactly in the two statuses that announce a     *)
(* result, and then the stored row exists and is of the announced kind,    *)
(* whatever engines, crashes and failed statements came between            *)
(* save_result and the update.                                             *)
ResultConsistent ==
  \A j \in Jobs :
    /\ jobs[j].result_available <=> jobs[j].status \in ResultStatuses
    /\ jobs[j].result_available => results[j] = jobs[j].status

(* A row in a terminal status is never written again, not even with the    *)
(* same status: "Jobs terminais nao sao reiniciados arbitrariamente".      *)
(* Watcher, get_result, cancel and the sweep may each come second.         *)
TerminalFinal ==
  [][\A j \in Jobs : jobs[j].status \in TERMINAL_STATUSES => jobs'[j] = jobs[j]]_vars

(* Once cancel() has found a job's task alive and has answered, the job is *)
(* CANCELLED and stays so however late and however well the task ends.     *)
CancelWins ==
  \A e \in Engines, j \in Jobs :
    Serving(e) /\ j \in revoked[e] => jobs[j].status = "cancelled"

(* A cancel that came after the task had ended with a result for review:   *)
(* CANCEL_REQUESTED has no transition to REVIEW_REQUIRED, the watcher dies *)
(* on InvalidJobTransitionError and the job is stuck.                      *)
StuckReview(j) == jobs[j].status = "cancel_requested" /\ results[j] = "review_required"

(* While the engine serves requests, every job that is not terminal has a  *)
(* watcher that will settle it: the sweep and the handlers leave none      *)
(* behind, except by StuckReview.                                          *)
Attended ==
  \A e \in Engines : Serving(e) =>
    \A j \in Jobs : Nonterminal(j) => j \in watching[e] \/ StuckReview(j)

(* A submitted job reaches a terminal status unless its process ends first *)
(* or it falls into StuckReview.                                           *)
JobSettles ==
  \A e \in Engines, j \in Jobs :
    tasks[e][j] # "none" ~>
      \/ jobs[j].status \in TERMINAL_STATUSES
      \/ engine[e] = "down"
      \/ StuckReview(j)

(* An open engine completes its recovery, provided that no submit died     *)
(* between its INSERT and its first UPDATE.                                *)
RecoveryEnds ==
  \A e \in Engines :
    engine[e] = "running" ~>
      \/ recovered[e]
      \/ engine[e] # "running"
      \/ \E j \in Jobs : jobs[j].status = "created"

(* A single engine implements the documented life cycle. *)
Lifecycle ==
  INSTANCE JobLifecycle WITH
    status  <- [j \in Jobs |-> jobs[j].status],
    outcome <- [j \in Jobs |-> IF jobs[j].result_available THEN results[j] ELSE "none"]

ImplementsLifecycle == Lifecycle!Spec

-----------------------------------------------------------------------------
(* Inductive strengthenings of ResultConsistent and of TerminalFinal       *)

InUpdate(e) == loop[e].at \in {"check", "write", "save"}
Started(e, j) == tasks[e][j] # "none"

(* A job is started by the one engine that submitted it, and nothing but   *)
(* its task's result is ever stored for it.                                *)
OneOwner ==
  /\ \A e, g \in Engines, j \in Jobs : Started(e, j) /\ Started(g, j) => e = g
  /\ \A e \in Engines, j \in Jobs :
       Started(e, j) /\ results[j] # "none" => results[j] = tasks[e][j]
  /\ \A e \in Engines, j \in Jobs :
       Started(e, j) \/ results[j] # "none" => created_at[j] # 0

(* A submit between its statements is alone with its job. *)
SubmitAlone ==
  \A e \in Engines : InUpdate(e) /\ loop[e].then = "spawn" =>
    LET j == loop[e].job IN
    /\ created_at[j] # 0
    /\ results[j] = "none"
    /\ \A g \in Engines : ~Started(g, j)
    /\ \A g \in Engines :
         InUpdate(g) /\ loop[g].then = "spawn" /\ loop[g].job = j => g = e

(* What an update in progress is about to write is backed by the tables. *)
WriteBacked ==
  \A e \in Engines : InUpdate(e) =>
    LET f == loop[e] IN
    /\ ~f.cur.result_available
    /\ f.then = "process" => tasks[e][f.job] = "pending"
    /\ f.to \in ResultStatuses =>
         /\ f.then \in {"store", "reply"}
         /\ tasks[e][f.job] = f.to
         /\ f.at # "save" => results[f.job] = f.to

ListedUnpublished == \A e \in Engines, j \in Jobs : ~page[e][j].result_available

(* Any number of engines, crashes and failed statements. *)
ResultInv ==
  ResultConsistent /\ OneOwner /\ SubmitAlone /\ WriteBacked /\ ListedUnpublished

PageEmpty(e) == \A j \in Jobs : page[e][j] = NoRow

(* With a single engine a handler's record is the row itself from its read *)
(* to its write: no handler runs between the two.                          *)
RecordInv ==
  /\ \A e \in Engines : InUpdate(e) =>
       LET f == loop[e] IN
       /\ f.cur = jobs[f.job]
       /\ f.cur.status \notin TERMINAL_STATUSES
       /\ f.at # "save" => CanTransition(f.cur.status, f.to)
       /\ f.then \in {"settle", "revoke"} => f.to = "cancel_requested"
  /\ \A e \in Engines :
       \/ loop[e].at = "sweep"
       \/ InUpdate(e) /\ loop[e].then = "sweep"
       \/ PageEmpty(e)
  /\ \A e \in Engines, j \in Jobs : page[e][j] # NoRow =>
       page[e][j] = jobs[j] /\ jobs[j].status \notin TERMINAL_STATUSES
  /\ \A j \in Jobs : created_at[j] = 0 => jobs[j] = NoRow

-----------------------------------------------------------------------------
(* Statements of the documentation that the code does not keep *)

(* persistent-local-jobs.md: interrupted `created` jobs become `failed`    *)
(* when the local engine opens; hence an opened engine ends its recovery   *)
(* without a proviso.  CREATED has no transition to FAILED, so one submit  *)
(* cut between its INSERT and its first UPDATE makes every later recovery, *)
(* and with it every operation on jobs, raise JobRecoveryError.            *)
RecoveryAlwaysEnds ==
  \A e \in Engines : engine[e] = "running" ~> recovered[e] \/ engine[e] # "running"

(* persistent-local-jobs.md: results already persisted remain available    *)
(* after a new instance opens.  A stored result whose job was cut before   *)
(* the status update is given up by the sweep.                             *)
PersistedResultAvailable ==
  \A e \in Engines : Serving(e) =>
    \A j \in Jobs : results[j] # "none" /\ j \notin watching[e] => jobs[j].result_available

(* The same sentence for a result that was published: opening a second     *)
(* engine withdraws it when its sweep compared the version before the      *)
(* first engine's update and writes after it.                              *)
PublishedResultKept ==
  [][\A j \in Jobs : jobs[j].result_available => jobs'[j].result_available]_vars
=============================================================================
