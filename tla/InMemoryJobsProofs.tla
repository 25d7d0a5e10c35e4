------------------------- MODULE InMemoryJobsProofs -------------------------
(***************************************************************************)
(* The in-memory job service keeps its records truthful, for any number of *)
(* jobs and whatever outcomes tasks have.                                  *)
(***************************************************************************)
EXTENDS InMemoryJobs, TLAPS

(* Every step keeps the records truthful.                                  *)
LEMMA RecordsStep ==
  ASSUME OutcomesAreEnds
  PROVE  RecordsTruthful /\ [ServiceNext]_<<execution, service>> => RecordsTruthful'
<1> SUFFICES ASSUME RecordsTruthful, [ServiceNext]_<<execution, service>> PROVE RecordsTruthful'
  OBVIOUS
<1> USE DEF RecordsTruthful, Alive, Ended, Shown, Record, service, execution
<1>1. ASSUME NEW j \in JobIds, Submit(j) \/ SubmitRefused(j) PROVE RecordsTruthful'
  BY <1>1 DEF Submit, SubmitRefused, Spawn
<1>2. ASSUME NEW j \in JobIds, RunProcessing(j) PROVE RecordsTruthful'
  BY <1>2 DEF RunProcessing, Start
<1>3. CASE TaskStep
  <2>1. CASE Revoke
    BY <1>3, <2>1 DEF TaskStep, Revoke
  <2>2. ASSUME NEW j \in JobIds, End(j) PROVE RecordsTruthful'
    BY <1>3, <2>2 DEF TaskStep, End, OutcomesAreEnds
  <2> QED
    BY <1>3, <2>1, <2>2 DEF TaskStep
<1>4. ASSUME NEW j \in JobIds, Cancel(j) PROVE RecordsTruthful'
  BY <1>4 DEF Cancel
<1>5. ASSUME NEW j \in JobIds, GetResult(j) PROVE RecordsTruthful'
  BY <1>5 DEF GetResult
<1>6. ASSUME NEW j \in JobIds, Watch(j) PROVE RecordsTruthful'
  BY <1>6 DEF Watch
<1>7. CASE UNCHANGED <<execution, service>>
  BY <1>7
<1> QED
  BY <1>1, <1>2, <1>3, <1>4, <1>5, <1>6, <1>7 DEF ServiceNext

(* COMPLETED is only told with a result of a task that completed, whatever *)
(* the order in which cancel(), get_result(), the task and its watcher     *)
(* come.                                                                   *)
THEOREM InMemoryTruthful ==
  ASSUME OutcomesAreEnds
  PROVE  ServiceSpec => []RecordsTruthful
<1>1. ServiceInit => RecordsTruthful
  BY DEF ServiceInit, Init, RecordsTruthful, Alive, Shown
<1> QED
  BY <1>1, RecordsStep, PTL DEF ServiceSpec

(* COMPLETED and CANCELLED are final.                                      *)
THEOREM InMemorySettled ==
  ASSUME OutcomesAreEnds
  PROVE  ServiceSpec => SettledFinal
<1> DEFINE Final == \A j \in JobIds : jobs[j] \in {"completed", "cancelled"} => jobs'[j] = jobs[j]
<1>1. RecordsTruthful /\ [ServiceNext]_<<execution, service>> => [Final]_<<execution, service>>
  <2> SUFFICES ASSUME RecordsTruthful, ServiceNext PROVE Final
    OBVIOUS
  <2> USE DEF RecordsTruthful, Alive, Ended, Record, service, execution
  <2>1. ASSUME NEW j \in JobIds,
               Submit(j) \/ SubmitRefused(j) \/ RunProcessing(j) \/ Cancel(j) \/ GetResult(j)
        PROVE  Final
    BY <2>1 DEF Submit, SubmitRefused, RunProcessing, Start, Cancel, GetResult
  <2>2. ASSUME NEW j \in JobIds, Watch(j) PROVE Final
    BY <2>2 DEF Watch
  <2>3. CASE TaskStep
    BY <2>3 DEF TaskStep
  <2> QED
    BY <2>1, <2>2, <2>3 DEF ServiceNext
<1> QED
  BY <1>1, InMemoryTruthful, PTL DEF ServiceSpec, SettledFinal
=============================================================================
