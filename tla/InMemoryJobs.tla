---------------------------- MODULE InMemoryJobs ----------------------------
(***************************************************************************)
(* InMemoryJobService (services.py): the job service without a store, over *)
(* the tasks the runtime promises (JobTasks).  Its lock is never held      *)
(* across an await and handle.cancel() does not suspend, so that each      *)
(* handler is one step; only the watcher comes after the task it awaits.   *)
(***************************************************************************)
EXTENDS JobTasks

VARIABLES
  jobs,      (* _jobs: status of each record, "absent" before submit        *)
  results,   (* _results: jobs whose result is stored                       *)
  watching   (* jobs whose _watch_job has not run to its end                *)

service == <<jobs, results, watching>>

Alive(j) == tasks[j] \in {"pending", "running"}
Ended(j) == tasks[j] # "none" /\ ~Alive(j)

ServiceInit ==
  /\ Init
  /\ jobs = [j \in JobIds |-> "absent"]
  /\ results = {} /\ watching = {}

Record(j, status) == jobs' = [jobs EXCEPT ![j] = status]

Submit(j) ==
  /\ jobs[j] = "absent"
  /\ Spawn(j)
  /\ Record(j, "queued")
  /\ watching' = watching \cup {j}
  /\ UNCHANGED results

(* The runtime is shut down: submit() raises, and the record it has just   *)
(* written stays QUEUED without a task.                                    *)
SubmitRefused(j) ==
  /\ jobs[j] = "absent"
  /\ Record(j, "queued")
  /\ UNCHANGED <<execution, results, watching>>

(* run_processing writes RUNNING whatever the record says. *)
RunProcessing(j) ==
  /\ Start(j)
  /\ Record(j, "running")
  /\ UNCHANGED <<results, watching>>

(* process() ends or is cancelled; the runtime revokes at its shutdown.    *)
TaskStep ==
  /\ Revoke \/ \E j \in JobIds : End(j)
  /\ UNCHANGED service

(* cancel() refuses COMPLETED only.  A record that says FAILED becomes     *)
(* CANCELLED, and so does one whose task has completed unwatched.          *)
Cancel(j) ==
  /\ jobs[j] \notin {"absent", "cancelled", "completed"}
  /\ Record(j, "cancelled")
  /\ revoked' = IF Alive(j) THEN revoked \cup {j} ELSE revoked
  /\ UNCHANGED <<tasks, results, watching>>

(* get_result takes the result from the handle if the watcher has not:     *)
(* what the record says does not matter.                                   *)
GetResult(j) ==
  /\ tasks[j] = "completed"
  /\ results' = results \cup {j}
  /\ UNCHANGED <<execution, jobs, watching>>

Watch(j) ==
  /\ j \in watching /\ Ended(j)
  /\ watching' = watching \ {j}
  /\ \/ tasks[j] = "cancelled" /\ Record(j, "cancelled") /\ UNCHANGED results
     \/ /\ tasks[j] # "cancelled" /\ jobs[j] = "cancelled"
        /\ UNCHANGED <<jobs, results>>
     \/ /\ tasks[j] = "completed" /\ jobs[j] # "cancelled"
        /\ results' = results \cup {j}
        /\ Record(j, "completed")
     \/ /\ tasks[j] \notin {"completed", "cancelled"} /\ jobs[j] # "cancelled"
        /\ Record(j, "failed")
        /\ UNCHANGED results
  /\ UNCHANGED execution

(* What get_status shows: a task that waits or runs is told by its handle, *)
(* which says CANCELLED from cancel() on; the record tells the rest.       *)
Shown(j) ==
  IF Alive(j) /\ j \notin revoked
  THEN IF tasks[j] = "pending" THEN "queued" ELSE "running"
  ELSE jobs[j]

ServiceNext ==
  \/ TaskStep
  \/ \E j \in JobIds :
       Submit(j) \/ SubmitRefused(j) \/ RunProcessing(j) \/ Cancel(j) \/ GetResult(j) \/ Watch(j)

ServiceSpec == ServiceInit /\ [][ServiceNext]_<<execution, service>>

-----------------------------------------------------------------------------
(* A task that has ended has ended. *)
OutcomesAreEnds == Outcomes \cap {"none", "pending", "running"} = {}

(* COMPLETED is told only of a task that completed, with its result; a     *)
(* result is only ever one of a completed task; a CANCELLED job's task has *)
(* been revoked or has ended; and get_status, which asks the handle first, *)
(* shows a settled record as it is.                                        *)
RecordsTruthful ==
  /\ jobs \in [JobIds -> {"absent", "queued", "running", "completed", "failed", "cancelled"}]
  /\ tasks \in [JobIds -> {"none", "pending", "running", "cancelled"} \cup Outcomes]
  /\ results \subseteq JobIds /\ watching \subseteq JobIds
  /\ \A j \in JobIds :
       /\ jobs[j] = "absent" => tasks[j] = "none"
       /\ j \in watching => tasks[j] # "none"
       /\ jobs[j] = "completed" => j \in results /\ j \notin watching
       /\ j \in results => tasks[j] = "completed"
       /\ jobs[j] \in {"cancelled", "failed"} => j \in revoked \/ ~Alive(j)
       /\ jobs[j] \in {"completed", "failed", "cancelled"} => Shown(j) = jobs[j]

(* Once COMPLETED or CANCELLED, a record never changes again, however      *)
(* cancel(), the watcher and the task's own RUNNING come in each other's   *)
(* way.  (FAILED may still become CANCELLED.)                              *)
SettledFinal ==
  [][\A j \in JobIds : jobs[j] \in {"completed", "cancelled"} => jobs'[j] = jobs[j]]_<<execution, service>>
=============================================================================
