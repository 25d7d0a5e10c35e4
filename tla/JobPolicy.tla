------------------------------ MODULE JobPolicy ------------------------------
(***************************************************************************)
(* The persisted job record and JobTransitionPolicy of                     *)
(* packages/document-application/.../jobs.py, without state.               *)
(*                                                                         *)
(* A row keeps the fields the program's decisions depend on: status,       *)
(* version and result_available.  stage, progress, error, warnings and the *)
(* time stamps ride along unread and are left out; created_at orders the   *)
(* recovery page and is a variable of PersistentJobs.                      *)
(***************************************************************************)
EXTENDS Naturals

JobStatus ==
  {"created", "queued", "running", "completed", "review_required",
   "failed", "cancel_requested", "cancelled"}

TERMINAL_STATUSES == {"completed", "review_required", "failed", "cancelled"}

(* The statuses a job takes when its result is stored. *)
ResultStatuses == {"completed", "review_required"}

JobRecord ==
  [status : JobStatus \cup {"absent"}, version : Nat, result_available : BOOLEAN]

(* No row in the table for this job. *)
NoRow == [status |-> "absent", version |-> 0, result_available |-> FALSE]

new_job_record ==
  [status |-> "created", version |-> 1, result_available |-> FALSE]

(* Regressions: a row of the table is forgotten. *)
TableWithoutQueuedFailed ==
  {<<"created", "queued">>, <<"created", "cancelled">>, <<"queued", "running">>,
   <<"queued", "cancel_requested">>, <<"running", "completed">>,
   <<"running", "review_required">>, <<"running", "failed">>,
   <<"running", "cancel_requested">>, <<"running", "cancelled">>,
   <<"cancel_requested", "cancelled">>, <<"cancel_requested", "completed">>,
   <<"cancel_requested", "failed">>}

TableWithoutCancellingFailed ==
  {<<"created", "queued">>, <<"created", "cancelled">>, <<"queued", "running">>,
   <<"queued", "cancel_requested">>, <<"queued", "failed">>,
   <<"running", "completed">>, <<"running", "review_required">>,
   <<"running", "failed">>, <<"running", "cancel_requested">>,
   <<"running", "cancelled">>, <<"cancel_requested", "cancelled">>,
   <<"cancel_requested", "completed">>}

(* JobTransitionPolicy.default, as a set of (origin, target) pairs. *)
allowed_transitions ==
  {<<"created", "queued">>,          <<"created", "cancelled">>,
   <<"queued", "running">>,          <<"queued", "cancel_requested">>,
   <<"queued", "failed">>,
   <<"running", "completed">>,       <<"running", "review_required">>,
   <<"running", "failed">>,          <<"running", "cancel_requested">>,
   <<"running", "cancelled">>,
   <<"cancel_requested", "cancelled">>,
   <<"cancel_requested", "completed">>,
   <<"cancel_requested", "failed">>}

(* Regression: the policy checks only that the record is not terminal. *)
CanLeave(from, to) == from \notin TERMINAL_STATUSES \/ from = to

(* transition() raises InvalidJobTransitionError unless this holds. *)
CanTransition(from, to) == <<from, to>> \in allowed_transitions \/ from = to

(* The record transition() returns.  Every caller that moves a job to a    *)
(* result status passes result_available=True; no other caller passes it.  *)
transition(record, to) ==
  [status           |-> to,
   version          |-> record.version + 1,
   result_available |-> (to \in ResultStatuses \/ record.result_available)]
=============================================================================
