------------------------------ MODULE JobTasks ------------------------------
(***************************************************************************)
(* What the job service relies on from the runtime: a task is pending,     *)
(* runs and ends once.  One that is revoked while pending never runs; one  *)
(* that nobody revoked never ends cancelled; one revoked while it runs may *)
(* end in any way.  Slots, capability tasks and timers do not show.        *)
(* PersistentJobs has the same states and steps in its tasks and revoked.  *)
(***************************************************************************)
CONSTANTS JobIds, Outcomes

VARIABLES tasks, revoked

execution == <<tasks, revoked>>

Init ==
  /\ tasks   = [j \in JobIds |-> "none"]
  /\ revoked = {}

Spawn(j) ==
  /\ tasks[j] = "none"
  /\ tasks' = [tasks EXCEPT ![j] = "pending"]
  /\ UNCHANGED revoked

Start(j) ==
  /\ tasks[j] = "pending" /\ j \notin revoked
  /\ tasks' = [tasks EXCEPT ![j] = "running"]
  /\ UNCHANGED revoked

End(j) ==
  /\ \/ /\ tasks[j] = "running"
        /\ \E result \in Outcomes : tasks' = [tasks EXCEPT ![j] = result]
     \/ /\ tasks[j] \in {"pending", "running"} /\ j \in revoked
        /\ tasks' = [tasks EXCEPT ![j] = "cancelled"]
  /\ UNCHANGED revoked

(* cancel() of one handle, or shutdown() of all that are alive. *)
Revoke ==
  /\ \E S \in SUBSET {j \in JobIds : tasks[j] \in {"pending", "running"}} :
       revoked' = revoked \cup S
  /\ UNCHANGED tasks

Next == Revoke \/ \E j \in JobIds : Spawn(j) \/ Start(j) \/ End(j)

Spec == Init /\ [][Next]_execution
=============================================================================
