---------------------------- MODULE LocalRuntime ----------------------------
(***************************************************************************)
(* LocalRuntime and LocalExecutionHandle (packages/runtime-local), with    *)
(* the two kinds of task the engine gives them: a job's task, which runs a *)
(* capability on the same runtime and awaits it, and the capability's task *)
(* itself, for a job or for a client's request.                            *)
(*                                                                         *)
(* Every task takes a slot of one semaphore before its handler runs, and   *)
(* asyncio.timeout is armed inside the slot.  Cancellation is asyncio's:   *)
(* task.cancel() makes CancelledError come out of what the task awaits, or *)
(* cancels the task it awaits.  Handlers are taken to let CancelledError   *)
(* pass; blocking work in a thread or process pool is not modelled.        *)
(***************************************************************************)
EXTENDS Naturals, FiniteSets, SequencesExt

CONSTANTS
  JobTasks,         (* tasks named task_<job id>                           *)
  CapabilityTasks,  (* tasks that are all named task_<capability id>       *)
  Nested,           (* the capability task of each job task                *)
  CapabilityId,     (* key of the capability tasks in _handles             *)
  NoTask,           (* not a task                                          *)
  Slots,            (* max_concurrent_tasks                                *)
  Timeouts          (* whether default_timeout is not None                 *)

Tasks == JobTasks \cup CapabilityTasks

ASSUME RuntimeAssumption ==
  /\ JobTasks \cap CapabilityTasks = {}
  /\ Nested \in [JobTasks -> CapabilityTasks]
  /\ \A a, b \in JobTasks : Nested[a] = Nested[b] => a = b
  /\ CapabilityId \notin Tasks /\ NoTask \notin Tasks
  /\ IsFiniteSet(Tasks)
  /\ Slots \in Nat \ {0}
  /\ Timeouts \in BOOLEAN

(* The capability tasks that a client's request awaits. *)
Requests == CapabilityTasks \ {Nested[j] : j \in JobTasks}

VARIABLES
  runtime,   (* "new"; "started"; "stopping" inside shutdown(); "stopped"  *)
  handles,   (* _handles: the last task submitted under each task id       *)
  phase,     (* where each asyncio task is                                 *)
  value,     (* Semaphore._value                                           *)
  waiters,   (* tasks waiting for a slot, in order                         *)
  updates,   (* the handle a _run_task looked up and updates               *)
  status,    (* LocalExecutionHandle._status                               *)
  revoked,   (* handles whose cancel() found the task alive                *)
  expired,   (* tasks whose asyncio.timeout has fired                      *)
  cancelled, (* tasks whose task.cancel() was called by another            *)
  throw,     (* tasks that get CancelledError at their next step           *)
  result     (* status of each task's ExecutionResult                      *)

semaphore == <<value, waiters>>
signals   == <<revoked, expired, cancelled, throw>>
vars == <<runtime, handles, phase, value, waiters, updates, status,
          revoked, expired, cancelled, throw, result>>

-----------------------------------------------------------------------------
(* "created": not yet stepped; "waiting" and "woken": inside               *)
(* Semaphore.acquire; "body": the handler runs; "nested": the job's        *)
(* handler awaits its capability task.                                     *)
Phases == {"absent", "created", "waiting", "woken", "body", "nested", "done"}
Live(t)  == phase[t] \notin {"absent", "done"}
Holds(t) == phase[t] \in {"woken", "body", "nested"}

Results == {"completed", "failed", "cancelled", "timed_out"}

TaskId(t) == IF t \in JobTasks THEN t ELSE CapabilityId

Init ==
  /\ runtime   = "new"
  /\ handles   = [i \in JobTasks \cup {CapabilityId} |-> NoTask]
  /\ phase     = [t \in Tasks |-> "absent"]
  /\ value     = Slots
  /\ waiters   = <<>>
  /\ updates   = [t \in Tasks |-> NoTask]
  /\ status    = [t \in Tasks |-> "queued"]
  /\ revoked   = {}
  /\ expired   = {}
  /\ cancelled = {}
  /\ throw     = {}
  /\ result    = [t \in Tasks |-> "none"]

-----------------------------------------------------------------------------
(* asyncio.Semaphore *)

(* Cancelled waiters stay in the queue until they run; the wake-up skips   *)
(* them.                                                                   *)
Awaited == \E i \in DOMAIN waiters : waiters[i] \notin throw
FirstAwaited(i) ==
  /\ i \in DOMAIN waiters /\ waiters[i] \notin throw
  /\ \A k \in 1 .. i - 1 : waiters[k] \in throw

(* t goes to phase p, and the first waiter is woken.                       *)
WakeNext(t, p) ==
  \E i \in DOMAIN waiters :
    /\ FirstAwaited(i)
    /\ waiters' = RemoveAt(waiters, i)
    /\ phase' = [phase EXCEPT ![t] = p, ![waiters[i]] = "woken"]

(* t gives its slot back and goes to phase p: the first waiter, if there   *)
(* is one, is woken with the slot.                                         *)
GiveBack(t, p) ==
  \/ /\ ~Awaited
     /\ value' = value + 1
     /\ phase' = [phase EXCEPT ![t] = p]
     /\ UNCHANGED waiters
  \/ WakeNext(t, p) /\ UNCHANGED value

-----------------------------------------------------------------------------
(* start and submit *)

StartRuntime ==
  /\ runtime \in {"new", "started"}
  /\ runtime' = "started"
  /\ UNCHANGED <<handles, phase, semaphore, updates, status, signals, result>>

(* By the job service or by a client's request; it starts the runtime if   *)
(* nobody has.                                                             *)
Submit(t) ==
  /\ t \notin {Nested[j] : j \in JobTasks}
  /\ runtime \in {"new", "started"}
  /\ phase[t] = "absent"
  /\ runtime' = "started"
  /\ phase'   = [phase EXCEPT ![t] = "created"]
  /\ handles' = [handles EXCEPT ![TaskId(t)] = t]
  /\ UNCHANGED <<semaphore, updates, status, signals, result>>

-----------------------------------------------------------------------------
(* _run_task *)

(* Somebody has not left Semaphore.acquire: waits, or is woken and has not *)
(* run yet.                                                                *)
Queued == Awaited \/ \E t \in Tasks : phase[t] = "woken"

(* Regression: a task that finds nobody in the queue takes a slot. *)
AcquireUnbounded(t) ==
  /\ phase[t] = "created" /\ t \notin throw /\ ~Queued
  /\ updates' = [updates EXCEPT ![t] = handles[TaskId(t)]]
  /\ value'  = value - 1
  /\ phase'  = [phase EXCEPT ![t] = "body"]
  /\ UNCHANGED <<runtime, handles, waiters, status, signals, result>>

(* The lookup of the handle and the call of Semaphore.acquire, which does  *)
(* not overtake anybody.                                                   *)
Acquire(t) ==
  /\ phase[t] = "created" /\ t \notin throw
  /\ LET seen == handles[TaskId(t)] IN
     /\ updates' = [updates EXCEPT ![t] = seen]
     /\ \/ /\ value > 0 /\ ~Queued
           /\ value'  = value - 1
           /\ phase'  = [phase EXCEPT ![t] = "body"]
           /\ status' = [status EXCEPT ![seen] = "running"]
           /\ UNCHANGED waiters
        \/ /\ value = 0 \/ Queued
           /\ waiters' = Append(waiters, t)
           /\ phase'   = [phase EXCEPT ![t] = "waiting"]
           /\ UNCHANGED <<value, status>>
  /\ UNCHANGED <<runtime, handles, signals, result>>

(* Regression: a cancellation that comes after the wake-up is overlooked. *)
EnterSlotAnyway(t) ==
  /\ phase[t] = "woken"
  /\ status' = [status EXCEPT ![updates[t]] = "running"]
  /\ phase' = [phase EXCEPT ![t] = "body"]
  /\ UNCHANGED <<runtime, handles, semaphore, updates, signals, result>>

(* A woken task enters its slot; a slot left over goes to the next waiter. *)
EnterSlot(t) ==
  /\ phase[t] = "woken" /\ t \notin throw
  /\ status' = [status EXCEPT ![updates[t]] = "running"]
  /\ \/ /\ value > 0
        /\ value' = value - 1
        /\ WakeNext(t, "body")
     \/ /\ value = 0 \/ ~Awaited
        /\ phase' = [phase EXCEPT ![t] = "body"]
        /\ UNCHANGED semaphore
  /\ UNCHANGED <<runtime, handles, updates, signals, result>>

(* CancelledError before the slot: the asyncio task itself is cancelled.   *)
(* A woken waiter passes its slot on.                                      *)
CancelledBeforeSlot(t) ==
  /\ t \in throw
  /\ \/ /\ phase[t] = "created"
        /\ phase' = [phase EXCEPT ![t] = "done"]
        /\ UNCHANGED semaphore
     \/ /\ phase[t] = "waiting"
        /\ \E i \in DOMAIN waiters : waiters[i] = t /\ waiters' = RemoveAt(waiters, i)
        /\ phase' = [phase EXCEPT ![t] = "done"]
        /\ UNCHANGED value
     \/ /\ phase[t] = "woken"
        /\ GiveBack(t, "done")
  /\ result' = [result EXCEPT ![t] = "cancelled"]
  /\ UNCHANGED <<runtime, handles, updates, status, signals>>

(* Regressions: the slot is only given back after a completed handler; the *)
(* handle is not told of a failure.                                        *)
EndKeepingSlot(t, r) ==
  /\ IF r = "completed" THEN GiveBack(t, "done")
     ELSE phase' = [phase EXCEPT ![t] = "done"] /\ UNCHANGED semaphore
  /\ result' = [result EXCEPT ![t] = r]
  /\ status' = [status EXCEPT ![updates[t]] = r]
  /\ UNCHANGED <<runtime, handles, updates, signals>>

EndUntold(t, r) ==
  /\ GiveBack(t, "done")
  /\ result' = [result EXCEPT ![t] = r]
  /\ status' = IF r = "failed" THEN status ELSE [status EXCEPT ![updates[t]] = r]
  /\ UNCHANGED <<runtime, handles, updates, signals>>

(* _run_task returns a result and leaves the slot. *)
EndTask(t, r) ==
  /\ GiveBack(t, "done")
  /\ result' = [result EXCEPT ![t] = r]
  /\ status' = [status EXCEPT ![updates[t]] = r]
  /\ UNCHANGED <<runtime, handles, updates, signals>>

(* The handler returns or raises.  A job's handler that does not reach its *)
(* capability has failed.                                                  *)
HandlerEnds(t) ==
  /\ phase[t] = "body" /\ t \notin throw
  /\ \E r \in IF t \in JobTasks THEN {"failed"} ELSE {"completed", "failed"} :
       EndTask(t, r)

(* CancelledError comes out of the handler.  asyncio.timeout turns it into *)
(* TimeoutError if nobody but its own timer has cancelled the task.        *)
HandlerInterrupted(t) ==
  /\ phase[t] = "body" /\ t \in throw
  /\ EndTask(t, IF t \in expired /\ t \notin cancelled THEN "timed_out" ELSE "cancelled")

-----------------------------------------------------------------------------
(* execute_capability inside a job's handler *)

Delegate(j) ==
  /\ phase[j] = "body" /\ j \notin throw
  /\ runtime = "started"
  /\ phase'   = [phase EXCEPT ![j] = "nested", ![Nested[j]] = "created"]
  /\ handles' = [handles EXCEPT ![CapabilityId] = Nested[j]]
  /\ UNCHANGED <<runtime, semaphore, updates, status, signals, result>>

(* Regression: the job's own cancellation is not noticed any more. *)
ResumeWithResult(j) ==
  LET n == Nested[j] IN
  /\ phase[j] = "nested" /\ phase[n] = "done"
  /\ EndTask(j, IF result[n] = "completed" THEN "completed" ELSE "failed")

(* handle.wait() of the capability's task returns.  It turns a             *)
(* CancelledError, the capability's or the job's own, into a CANCELLED     *)
(* result, and _execute raises whatever is not COMPLETED as an EixoError.  *)
Resume(j) ==
  LET n == Nested[j] IN
  /\ phase[j] = "nested" /\ phase[n] = "done"
  /\ EndTask(j, IF j \notin throw /\ result[n] = "completed" THEN "completed" ELSE "failed")

-----------------------------------------------------------------------------
(* Cancellation *)

(* task.cancel() of a job that awaits its capability cancels that task. *)
Target(t) ==
  IF t \in JobTasks /\ phase[t] = "nested" /\ phase[Nested[t]] # "done"
  THEN Nested[t] ELSE t

Interrupt(S) == throw' = throw \cup {Target(t) : t \in S}

(* handle.cancel() by the job service. *)
Revoke(j) ==
  /\ runtime = "started"
  /\ Live(j) /\ j \notin revoked        \* the job is CANCEL_REQUESTED after it
  /\ revoked'   = revoked \cup {j}
  /\ status'    = [status EXCEPT ![j] = "cancelled"]
  /\ cancelled' = cancelled \cup {j, Target(j)}
  /\ Interrupt({j})
  /\ UNCHANGED <<runtime, handles, phase, semaphore, updates, expired, result>>

(* A client's coroutine is cancelled while it awaits its request's task. *)
Abandon(t) ==
  /\ t \in Requests /\ Live(t) /\ t \notin cancelled
  /\ cancelled' = cancelled \cup {t}
  /\ Interrupt({t})
  /\ UNCHANGED <<runtime, handles, phase, semaphore, updates, status, revoked, expired, result>>

(* Regression: the timer is armed around capability tasks only. *)
ExpireCapability(t) ==
  /\ Timeouts
  /\ t \in Requests
  /\ phase[t] = "body" /\ t \notin expired
  /\ expired' = expired \cup {t}
  /\ Interrupt({t})
  /\ UNCHANGED <<runtime, handles, phase, semaphore, updates, status, revoked, cancelled, result>>

(* asyncio.timeout fires and cancels its task.  All timers have the same   *)
(* delay: a job's, armed first, fires before its capability's.             *)
Expire(t) ==
  /\ Timeouts
  /\ phase[t] \in {"body", "nested"} /\ t \notin expired
  /\ \A j \in JobTasks : t = Nested[j] => j \in expired
  /\ expired'   = expired \cup {t}
  /\ cancelled' = cancelled \cup ({Target(t)} \ {t})
  /\ Interrupt({t})
  /\ UNCHANGED <<runtime, handles, phase, semaphore, updates, status, revoked, result>>

-----------------------------------------------------------------------------
(* shutdown *)

(* Regression: shutdown takes only the tasks that have a slot. *)
RunningOnly == {t \in Tasks : Holds(t) /\ handles[TaskId(t)] = t}

(* The handles that are in _handles and not done. *)
Pending == {t \in Tasks : Live(t) /\ handles[TaskId(t)] = t}

Shutdown ==
  /\ runtime \in {"new", "started"}
  /\ runtime'   = "stopping"
  /\ revoked'   = revoked \cup Pending
  /\ status'    = [t \in Tasks |-> IF t \in Pending THEN "cancelled" ELSE status[t]]
  /\ cancelled' = cancelled \cup Pending \cup {Target(t) : t \in Pending}
  /\ Interrupt(Pending)
  /\ UNCHANGED <<handles, phase, semaphore, updates, expired, result>>

(* asyncio.wait returns before shutdown_timeout: what was pending is done. *)
Stopped ==
  /\ runtime = "stopping"
  /\ \A t \in revoked : ~Live(t)
  /\ runtime' = "stopped"
  /\ UNCHANGED <<handles, phase, semaphore, updates, status, signals, result>>

-----------------------------------------------------------------------------
Steps(t) ==
  \/ Acquire(t) \/ EnterSlot(t) \/ CancelledBeforeSlot(t) \/ HandlerInterrupted(t)
  \/ t \in JobTasks /\ Resume(t)

Next ==
  \/ \E t \in Tasks :
       Submit(t) \/ Steps(t) \/ HandlerEnds(t) \/ Expire(t) \/ Abandon(t)
  \/ \E j \in JobTasks : Delegate(j) \/ Revoke(j)
  \/ StartRuntime \/ Shutdown \/ Stopped

(* The loop runs ready callbacks and fires timers.  Nothing makes a        *)
(* handler return, nor a client submit, cancel or shut down.               *)
Fairness ==
  /\ \A t \in Tasks : WF_vars(Steps(t)) /\ WF_vars(Expire(t))
  /\ WF_vars(Stopped)

Spec     == Init /\ [][Next]_vars
FairSpec == Spec /\ Fairness

-----------------------------------------------------------------------------
(* Properties *)

(* Every variable keeps its type. *)
TypeOK ==
  /\ runtime   \in {"new", "started", "stopping", "stopped"}
  /\ handles   \in [JobTasks \cup {CapabilityId} -> Tasks \cup {NoTask}]
  /\ phase     \in [Tasks -> Phases]
  /\ value     \in Nat
  /\ waiters   \in Seq(Tasks)
  /\ updates   \in [Tasks -> Tasks \cup {NoTask}]
  /\ status    \in [Tasks -> {"queued", "running"} \cup Results]
  /\ revoked   \subseteq Tasks
  /\ expired   \subseteq Tasks
  /\ cancelled \subseteq Tasks
  /\ throw     \subseteq Tasks
  /\ result    \in [Tasks -> Results \cup {"none"}]

Holders == {t \in Tasks : Holds(t)}

(* However tasks end, time out or are cancelled, before or inside their    *)
(* slot, no slot is lost or given twice, the queue holds exactly the tasks *)
(* that wait, each once, and a slot is free beside a task that waits only  *)
(* while a woken task is about to pass it on.                              *)
SlotsConserved ==
  /\ value + Cardinality(Holders) = Slots
  /\ {waiters[i] : i \in DOMAIN waiters} = {t \in Tasks : phase[t] = "waiting"}
  /\ \A i, k \in DOMAIN waiters : waiters[i] = waiters[k] => i = k
  /\ value > 0 /\ Awaited => \E t \in Tasks : phase[t] = "woken"

HandleStatus(t) ==
  IF phase[t] = "done" /\ status[t] \in {"queued", "running"} THEN result[t] ELSE status[t]

(* The handle of a job whose task has ended shows the status of its        *)
(* result, also when the handle said CANCELLED before: get_result and      *)
(* cancel decide by it.  (Capability tasks share one id, and with it a     *)
(* handle; nobody reads theirs.)                                           *)
JobHandleTruthful == \A j \in JobTasks : phase[j] = "done" => HandleStatus(j) = result[j]

(* A job's task that was cancelled while it was alive, in whatever phase   *)
(* and whether or not its capability had already succeeded, never ends     *)
(* COMPLETED.                                                              *)
CancelledNotCompleted ==
  \A j \in JobTasks : j \in revoked /\ phase[j] = "done" => result[j] # "completed"

(* Every task ends, although jobs hold slots while their capabilities wait *)
(* for one and handlers may hang: the timeouts resolve it.                 *)
TasksEnd == \A t \in Tasks : Live(t) ~> ~Live(t)

(* The job service's view of its tasks. *)
JobTask(j) ==
  CASE phase[j] = "absent" -> "none"
    [] phase[j] \in {"created", "waiting", "woken"} -> "pending"
    [] phase[j] \in {"body", "nested"} -> "running"
    [] phase[j] = "done" -> IF result[j] = "timed_out" THEN "failed" ELSE result[j]

JobView ==
  INSTANCE JobTasks WITH
    JobIds   <- JobTasks,
    Outcomes <- {"completed", "failed"},
    revoked  <- revoked \cap JobTasks,
    tasks    <- [j \in JobTasks |-> JobTask(j)]

ImplementsJobTasks == JobView!Spec

-----------------------------------------------------------------------------
(* A statement of the documentation that the code does not keep *)

(* docs/specifications/execution-runtime.md: a timeout produces the status *)
(* timed_out.  The timer of a job cancels the capability it awaits, wait() *)
(* absorbs the cancellation, and the job ends FAILED.                      *)
TimeoutIsTimedOut ==
  \A t \in Tasks \ cancelled : t \in expired /\ phase[t] = "done" => result[t] = "timed_out"
=============================================================================
