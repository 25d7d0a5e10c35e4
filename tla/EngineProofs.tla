---------------------------- MODULE EngineProofs ----------------------------
(***************************************************************************)
(* The engines, their runtime and their registries agree, for any number   *)
(* of engines that share them and any tasks.                               *)
(***************************************************************************)
EXTENDS Engine, LocalRuntimeProofs, TLAPS

(* Tasks leave alone whether the runtime is started or stopped. *)
LEMMA TasksKeepRuntime ==
  ASSUME NEW t \in Tasks, Steps(t) \/ Expire(t) \/ HandlerEnds(t) \/ Abandon(t)
  PROVE  runtime' = runtime
BY DEF Steps, Acquire, EnterSlot, CancelledBeforeSlot, HandlerInterrupted, Resume, EndTask,
       Expire, HandlerEnds, Abandon

(* What a job's own task does leaves the runtime object as it is.          *)
LEMMA JobsKeepRuntime ==
  ASSUME NEW j \in JobTasks, Delegate(j) \/ Revoke(j)
  PROVE  runtime' = runtime
BY DEF Delegate, Revoke

(* The steps that neither start nor stop an engine leave its state and the *)
(* runtime as they are, except that a submit may start the runtime.        *)
Quiet ==
  /\ UNCHANGED <<state, closing>>
  /\ \/ runtime' = runtime
     \/ runtime \in {"new", "started"} /\ runtime' = "started"

(* Steps that do not concern an engine's own state. *)
Registering(e) ==
  \/ \E c \in CapabilityDescriptors : RegisterCapability(e, c)
  \/ \E p \in PdfProviders : RegisterPdfProvider(e, p)
Serve ==
  \/ \E r \in Requests : Begin(r) \/ Request(r) \/ RequestEnds(r)
  \/ \E d \in DirectCalls : Begin(d) \/ DirectEnds(d)
  \/ \E t \in Tasks : Running(t) \/ TimeOut(t) \/ Ends(t)
  \/ \E j \in JobTasks : SubmitJob(j) \/ CancelJob(j) \/ Call(j)

(* Work on the runtime touches neither an engine's life cycle nor its      *)
(* catalogue.                                                              *)
LEMMA ServeIsQuiet == Serve => Quiet /\ UNCHANGED <<catalogue, pdf>>
<1> SUFFICES ASSUME Serve PROVE Quiet /\ UNCHANGED <<catalogue, pdf>>
  OBVIOUS
<1>1. ASSUME NEW r \in Requests, Begin(r) \/ Request(r) \/ RequestEnds(r)
      PROVE  Quiet /\ UNCHANGED <<catalogue, pdf>>
  BY <1>1 DEF Begin, Request, Submit, RequestEnds, Quiet, vars
<1>2. ASSUME NEW d \in DirectCalls, Begin(d) \/ DirectEnds(d)
      PROVE  Quiet /\ UNCHANGED <<catalogue, pdf>>
  BY <1>2 DEF Begin, DirectEnds, Quiet, vars
<1>3. ASSUME NEW t \in Tasks, Running(t) \/ TimeOut(t) \/ Ends(t)
      PROVE  Quiet /\ UNCHANGED <<catalogue, pdf>>
  BY <1>3, TasksKeepRuntime DEF Running, TimeOut, Ends, Quiet, engine
<1>4. ASSUME NEW j \in JobTasks, SubmitJob(j) \/ CancelJob(j) \/ Call(j)
      PROVE  Quiet /\ UNCHANGED <<catalogue, pdf>>
  <2>1. CASE SubmitJob(j)
    BY <2>1 DEF SubmitJob, Submit, Quiet, engine
  <2>2. CASE CancelJob(j) \/ Call(j)
    BY <2>2, JobsKeepRuntime DEF CancelJob, Call, Quiet, engine
  <2> QED
    BY <1>4, <2>1, <2>2
<1> QED
  BY <1>1, <1>2, <1>3, <1>4 DEF Serve

(* A step is one of an engine's own, or serves, or changes nothing. *)
LEMMA StepCases ==
  ASSUME [EngineNext]_allVars
  PROVE  \/ \E e \in Engines : \/ Compose(e) \/ Start(e) \/ Stop(e) \/ StopEnds(e)
                               \/ StopCut(e) \/ Registering(e)
         \/ Serve
         \/ UNCHANGED allVars
BY DEF EngineNext, Registering, Serve

-----------------------------------------------------------------------------
(* Life cycle *)

(* A step that leaves the life cycle alone keeps what is known of it.      *)
LEMMA QuietKeepsLifecycle == LifecycleInv /\ Quiet => LifecycleInv'
BY DEF LifecycleInv, Quiet, Past

(* Every step of the engine keeps the life cycle consistent.               *)
LEMMA LifecycleStep == LifecycleInv /\ [EngineNext]_allVars => LifecycleInv'
<1> SUFFICES ASSUME LifecycleInv, [EngineNext]_allVars PROVE LifecycleInv'
  OBVIOUS
<1>1. ASSUME NEW e \in Engines, Compose(e) PROVE LifecycleInv'
  <2>1. /\ runtime' = runtime /\ closing' = closing
        /\ state[e] = "absent"
        /\ state' = [state EXCEPT ![e] = "created"] \/ state' = [state EXCEPT ![e] = "refused"]
    BY <1>1 DEF Compose, ComposeAll, ComposeRefused, vars
  <2> QED
    BY <2>1 DEF LifecycleInv, States, Past
<1>2. ASSUME NEW e \in Engines, Start(e) PROVE LifecycleInv'
  <2>1. CASE StartRuntime /\ state' = [state EXCEPT ![e] = "running"]
    BY <1>2, <2>1 DEF Start, StartRuntime, LifecycleInv, States, Past
  <2>2. CASE ~(StartRuntime /\ state' = [state EXCEPT ![e] = "running"])
    BY <1>2, <2>2 DEF Start, LifecycleInv, States, Past, vars
  <2> QED
    BY <2>1, <2>2
<1>3. ASSUME NEW e \in Engines, Stop(e) PROVE LifecycleInv'
  <2>1. CASE Shutdown /\ state' = [state EXCEPT ![e] = "stopping"] /\ closing' = closing \cup {e}
    BY <1>3, <2>1 DEF Stop, Shutdown, LifecycleInv, States, Past
  <2>2. CASE /\ runtime \in {"stopping", "stopped"} /\ runtime' = runtime
             /\ state' = [state EXCEPT ![e] = "stopped"] /\ closing' = closing
    BY <1>3, <2>2 DEF Stop, LifecycleInv, States, Past
  <2> QED
    BY <1>3, <2>1, <2>2 DEF Stop, vars
<1>4. ASSUME NEW e \in Engines, StopEnds(e) PROVE LifecycleInv'
  BY <1>4 DEF StopEnds, Stopped, LifecycleInv, States, Past
<1>5. ASSUME NEW e \in Engines, StopCut(e) PROVE LifecycleInv'
  BY <1>5 DEF StopCut, LifecycleInv, vars
<1>6. ASSUME NEW e \in Engines, Registering(e) PROVE LifecycleInv'
  BY <1>6, QuietKeepsLifecycle DEF Registering, RegisterCapability, RegisterPdfProvider, Quiet, vars
<1>7. CASE UNCHANGED allVars
  BY <1>7, QuietKeepsLifecycle DEF allVars, engine, vars, Quiet
<1> QED
  BY <1>1, <1>2, <1>3, <1>4, <1>5, <1>6, <1>7, StepCases, ServeIsQuiet, QuietKeepsLifecycle

-----------------------------------------------------------------------------
(* Composition *)

(* What local() adds to the registry before it ends or raises. *)
LEMMA GivenConsistent ==
  ASSUME Catalogue!Consistent, NEW e \in Engines
  PROVE  /\ NewProviders(e) \subseteq ProviderDescriptors
         /\ NewCapabilities(e) \subseteq CapabilityDescriptors
         /\ \A p, q \in providers \cup NewProviders(e) : p.id = q.id => p = q
         /\ \A c, d \in capabilities \cup NewCapabilities(e) : c.id = d.id => c = d
         /\ \A c \in capabilities \cup NewCapabilities(e) :
              c.status = "active" /\ c.provider \in Owners(e)
<1> DEFINE P == GivenProviders[e]
           C == GivenCapabilities[e]
<1>0. /\ P \in Seq(ProviderDescriptors) /\ C \in Seq(CapabilityDescriptors)
      /\ \A i \in DOMAIN P : i \in Nat /\ i >= 1
      /\ \A i \in DOMAIN C : i \in Nat /\ i >= 1
  BY EngineAssumption
<1>1. \A p \in NewProviders(e) : \E i \in DOMAIN P : p = P[i] /\ \A h \in 1 .. i : ~ProviderRefused(e, h)
  BY DEF NewProviders
<1>2. \A c \in NewCapabilities(e) : \E i \in DOMAIN C : c = C[i] /\ \A h \in 1 .. i : ~CapabilityRefused(e, h)
  BY DEF NewCapabilities
<1>3. NewProviders(e) \subseteq ProviderDescriptors /\ NewCapabilities(e) \subseteq CapabilityDescriptors
  BY <1>0, <1>1, <1>2
<1>4. \A p \in NewProviders(e) : p.id \notin Catalogue!ProviderIds
  <2> SUFFICES ASSUME NEW p \in NewProviders(e) PROVE p.id \notin Catalogue!ProviderIds
    OBVIOUS
  <2>1. PICK i \in DOMAIN P : p = P[i] /\ \A h \in 1 .. i : ~ProviderRefused(e, h)
    BY <1>1
  <2>2. ~ProviderRefused(e, i)
    BY <1>0, <2>1
  <2> QED
    BY <2>1, <2>2 DEF ProviderRefused
<1>5. \A p, q \in NewProviders(e) : p.id = q.id => p = q
  <2> SUFFICES ASSUME NEW p \in NewProviders(e), NEW q \in NewProviders(e), p.id = q.id PROVE p = q
    OBVIOUS
  <2>1. PICK i \in DOMAIN P : p = P[i] /\ \A h \in 1 .. i : ~ProviderRefused(e, h)
    BY <1>1
  <2>2. PICK k \in DOMAIN P : q = P[k] /\ \A h \in 1 .. k : ~ProviderRefused(e, h)
    BY <1>1
  <2>3. ~ProviderRefused(e, i) /\ ~ProviderRefused(e, k)
    BY <1>0, <2>1, <2>2
  <2>4. ~(i < k) /\ ~(k < i)
    BY <1>0, <2>1, <2>2, <2>3 DEF ProviderRefused
  <2> QED
    BY <1>0, <2>1, <2>2, <2>4
<1>6. \A p, q \in providers \cup NewProviders(e) : p.id = q.id => p = q
  BY <1>4, <1>5 DEF Catalogue!Consistent, Catalogue!ProviderIds
<1>7. \A c \in NewCapabilities(e) :
        c.id \notin Catalogue!CapabilityIds /\ c.status = "active" /\ c.provider \in Owners(e)
  <2> SUFFICES ASSUME NEW c \in NewCapabilities(e)
               PROVE  c.id \notin Catalogue!CapabilityIds /\ c.status = "active" /\ c.provider \in Owners(e)
    OBVIOUS
  <2>1. PICK i \in DOMAIN C : c = C[i] /\ \A h \in 1 .. i : ~CapabilityRefused(e, h)
    BY <1>2
  <2>2. ~CapabilityRefused(e, i)
    BY <1>0, <2>1
  <2> QED
    BY <2>1, <2>2 DEF CapabilityRefused, Catalogue!Registrable
<1>8. \A c, d \in NewCapabilities(e) : c.id = d.id => c = d
  <2> SUFFICES ASSUME NEW c \in NewCapabilities(e), NEW d \in NewCapabilities(e), c.id = d.id PROVE c = d
    OBVIOUS
  <2>1. PICK i \in DOMAIN C : c = C[i] /\ \A h \in 1 .. i : ~CapabilityRefused(e, h)
    BY <1>2
  <2>2. PICK k \in DOMAIN C : d = C[k] /\ \A h \in 1 .. k : ~CapabilityRefused(e, h)
    BY <1>2
  <2>3. ~CapabilityRefused(e, i) /\ ~CapabilityRefused(e, k)
    BY <1>0, <2>1, <2>2
  <2>4. ~(i < k) /\ ~(k < i)
    BY <1>0, <2>1, <2>2, <2>3 DEF CapabilityRefused, Catalogue!Registrable
  <2> QED
    BY <1>0, <2>1, <2>2, <2>4
<1>9. \A c, d \in capabilities \cup NewCapabilities(e) : c.id = d.id => c = d
  BY <1>7, <1>8 DEF Catalogue!Consistent, Catalogue!CapabilityIds
<1>10. \A c \in capabilities : c.status = "active" /\ c.provider \in Owners(e)
  BY DEF Catalogue!Consistent, Catalogue!ProviderIds, Owners
<1> QED
  BY <1>3, <1>6, <1>7, <1>9, <1>10

(* What local() was given is registered when nothing of it is refused.     *)
LEMMA AllRegistered ==
  ASSUME NEW e \in Engines, AllProviders(e), AllCapabilities(e)
  PROVE  /\ ToSet(GivenProviders[e]) \subseteq NewProviders(e)
         /\ ToSet(GivenCapabilities[e]) \subseteq NewCapabilities(e)
<1>1. /\ GivenProviders[e] \in Seq(ProviderDescriptors)
      /\ GivenCapabilities[e] \in Seq(CapabilityDescriptors)
  BY EngineAssumption
<1>2. ASSUME NEW S, NEW q \in Seq(S), NEW k \in DOMAIN q, NEW h \in 1 .. k
      PROVE  h \in DOMAIN q
  BY <1>2
<1>3. ToSet(GivenProviders[e]) \subseteq NewProviders(e)
  BY <1>1, <1>2 DEF ToSet, NewProviders, AllProviders
<1>4. ToSet(GivenCapabilities[e]) \subseteq NewCapabilities(e)
  BY <1>1, <1>2 DEF ToSet, NewCapabilities, AllCapabilities
<1> QED
  BY <1>3, <1>4

(* Composition brings the catalogue to what a composed engine has.         *)
LEMMA ComposeKeepsComposed ==
  ASSUME ComposedInv, LifecycleInv, NEW e \in Engines, Compose(e)
  PROVE  ComposedInv'
<1> USE DEF ComposedInv
<1>0. /\ providers \subseteq ProviderDescriptors /\ capabilities \subseteq CapabilityDescriptors
      /\ pdf \subseteq PdfProviders
      /\ GivenPdf[e] \subseteq PdfProviders /\ PyMuPdf \in PdfProviders
  BY EngineAssumption DEF Catalogue!Consistent
<1>1. CASE ComposeAll(e)
  <2> DEFINE known == capabilities \cup NewCapabilities(e)
             more == {c \in PublicCapabilities : \A k \in known : k.id # c.id}
  <2>1. /\ providers' = providers \cup NewProviders(e)
             \cup (IF PublicProvider.id \in Owners(e) THEN {} ELSE {PublicProvider})
        /\ capabilities' = known \cup more
        /\ pdf \subseteq pdf' /\ GivenPdf[e] \subseteq pdf' /\ pdf' \subseteq PdfProviders
        /\ state' = [state EXCEPT ![e] = "created"]
    BY <1>0, <1>1 DEF ComposeAll
  <2>2. \A p, q \in providers' : p.id = q.id => p = q
    BY <2>1, GivenConsistent DEF Owners
  <2>3. \A c, d \in capabilities' : c.id = d.id => c = d
    BY <2>1, GivenConsistent, EngineAssumption
  <2>4. Owners(e) \subseteq Catalogue!ProviderIds' /\ PublicProvider.id \in Catalogue!ProviderIds'
    BY <2>1 DEF Owners, Catalogue!ProviderIds
  <2>5. \A c \in capabilities' : c.status = "active" /\ c.provider \in Catalogue!ProviderIds'
    BY <2>1, <2>4, GivenConsistent, EngineAssumption
  <2>6. Catalogue!Consistent'
    BY <1>0, <2>1, <2>2, <2>3, <2>5, GivenConsistent, EngineAssumption DEF Catalogue!Consistent
  <2>7. \A c \in PublicCapabilities : c.id \in Catalogue!CapabilityIds'
    BY <2>1 DEF Catalogue!CapabilityIds
  <2>8. /\ providers \subseteq providers' /\ capabilities \subseteq capabilities'
        /\ ToSet(GivenProviders[e]) \subseteq providers'
        /\ ToSet(GivenCapabilities[e]) \subseteq capabilities'
    BY <1>1, <2>1, AllRegistered DEF ComposeAll
  <2> HIDE DEF known, more
  <2>9. \A f \in Engines \ {e} : state'[f] = state[f]
    BY <2>1 DEF LifecycleInv
  <2> QED
    BY <2>1, <2>6, <2>7, <2>8, <2>9
<1>2. CASE ComposeRefused(e)
  <2>1. /\ providers' = providers \cup NewProviders(e)
        /\ capabilities' = capabilities \cup NewCapabilities(e)
        /\ pdf \subseteq pdf' /\ pdf' \subseteq PdfProviders
        /\ state' = [state EXCEPT ![e] = "refused"]
    BY <1>0, <1>2 DEF ComposeRefused
  <2>2. Owners(e) = Catalogue!ProviderIds'
    BY <2>1 DEF Owners, Catalogue!ProviderIds
  <2>3. Catalogue!Consistent'
    BY <1>0, <2>1, <2>2, GivenConsistent DEF Catalogue!Consistent
  <2>4. Catalogue!CapabilityIds \subseteq Catalogue!CapabilityIds'
    BY <2>1 DEF Catalogue!CapabilityIds
  <2>5. \A f \in Engines : state'[f] \notin {"absent", "refused"} => state[f] \notin {"absent", "refused"}
    BY <2>1 DEF LifecycleInv
  <2>6. providers \subseteq providers' /\ capabilities \subseteq capabilities'
    BY <2>1
  <2> QED
    BY <2>1, <2>3, <2>4, <2>5, <2>6
<1> QED
  BY <1>1, <1>2 DEF Compose

(* Later registrations only add to what composition registered.            *)
LEMMA RegisteringKeepsComposed ==
  ASSUME ComposedInv, NEW e \in Engines, Registering(e)
  PROVE  ComposedInv'
<1>1. ASSUME NEW c \in CapabilityDescriptors, RegisterCapability(e, c) PROVE ComposedInv'
  <2>1. /\ Catalogue!Register(c) /\ UNCHANGED <<state, pdf, providers>>
        /\ capabilities' = capabilities \cup {c}
    BY <1>1 DEF RegisterCapability, Catalogue!Register
  <2>2. Catalogue!Consistent'
    BY <2>1 DEF ComposedInv, Catalogue!Consistent, Catalogue!Register, Catalogue!Registrable,
                Catalogue!ProviderIds, Catalogue!CapabilityIds
  <2>3. Catalogue!CapabilityIds \subseteq Catalogue!CapabilityIds'
    BY <2>1 DEF Catalogue!CapabilityIds
  <2> QED
    BY <2>1, <2>2, <2>3 DEF ComposedInv
<1>2. ASSUME NEW p \in PdfProviders, RegisterPdfProvider(e, p) PROVE ComposedInv'
  BY <1>2 DEF RegisterPdfProvider, catalogue, ComposedInv, Catalogue!Consistent,
              Catalogue!ProviderIds, Catalogue!CapabilityIds
<1> QED
  BY <1>1, <1>2 DEF Registering

(* The registries stay as they are, and no engine comes to be composed. *)
LEMMA SameRegistries ==
  ASSUME ComposedInv, UNCHANGED <<catalogue, pdf>>,
         \A e \in Engines : state'[e] \notin {"absent", "refused"} => state[e] \notin {"absent", "refused"}
  PROVE  ComposedInv'
BY DEF catalogue, ComposedInv, Catalogue!Consistent, Catalogue!ProviderIds, Catalogue!CapabilityIds

(* Every step of the engine keeps a composed engine composed.              *)
LEMMA ComposedStep == ComposedInv /\ LifecycleInv /\ [EngineNext]_allVars => ComposedInv'
<1> SUFFICES ASSUME ComposedInv, LifecycleInv, [EngineNext]_allVars PROVE ComposedInv'
  OBVIOUS
<1>1. ASSUME NEW e \in Engines, Start(e) \/ Stop(e) \/ StopEnds(e) \/ StopCut(e) PROVE ComposedInv'
  <2>1. /\ UNCHANGED <<catalogue, pdf>>
        /\ state[e] \notin {"absent", "refused"}
        /\ \A f \in Engines \ {e} : state'[f] = state[f]
    BY <1>1 DEF Start, Stop, StopEnds, StopCut, LifecycleInv
  <2> QED
    BY <2>1, SameRegistries
<1>2. CASE Serve
  BY <1>2, ServeIsQuiet, SameRegistries DEF Quiet
<1>3. CASE UNCHANGED allVars
  BY <1>3, SameRegistries DEF allVars, engine
<1> QED
  BY <1>1, <1>2, <1>3, StepCases, ComposeKeepsComposed, RegisteringKeepsComposed

-----------------------------------------------------------------------------
(* Whatever engines share a runtime and registries, in whatever order they *)
(* are composed, refused, started, stopped or cancelled while they stop:   *)
(* the runtime is shut down exactly from the first shutdown() on, a single *)
(* engine awaits it, and what a composed engine was given, or has to have, *)
(* stays in consistent registries.  It may have no PDF provider, when it   *)
(* was given none.                                                         *)
THEOREM EnginesConsistent == EngineSpec => []EngineInv
<1>1. EngineInit => EngineInv
  BY DEF EngineInit, Init, EngineInv, LifecycleInv, ComposedInv, States, Past, Catalogue!Init,
         Catalogue!Consistent
<1>2. EngineInv /\ [EngineNext]_allVars => EngineInv'
  BY LifecycleStep, ComposedStep DEF EngineInv
<1> QED
  BY <1>1, <1>2, PTL DEF EngineSpec

(* An engine that was told to stop never works again, not even when its    *)
(* shutdown() was cancelled or another engine of its runtime starts.       *)
THEOREM StoppedForGood == EngineSpec => StopIsFinal
<1> DEFINE Final == \A e \in Engines : state[e] \in Past =>
                      state'[e] \in Past /\ (state[e] = "stopped" => state'[e] = "stopped")
<1>1. LifecycleInv /\ [EngineNext]_allVars => [Final]_allVars
  <2> SUFFICES ASSUME LifecycleInv, [EngineNext]_allVars PROVE Final \/ UNCHANGED allVars
    OBVIOUS
  <2>1. ASSUME NEW e \in Engines,
               Compose(e) \/ Start(e) \/ Stop(e) \/ StopEnds(e) \/ StopCut(e) \/ Registering(e)
        PROVE  Final
    BY <2>1 DEF Compose, ComposeAll, ComposeRefused, Start, Stop, StopEnds, StopCut, Registering,
                RegisterCapability, RegisterPdfProvider, LifecycleInv, Past
  <2>2. CASE Serve
    BY <2>2, ServeIsQuiet DEF Quiet
  <2> QED
    BY <2>1, <2>2, StepCases
<1>2. EngineSpec => []EngineInv
  BY EnginesConsistent
<1>3. EngineInv => LifecycleInv
  BY DEF EngineInv
<1> QED
  BY <1>1, <1>2, <1>3, PTL DEF EngineSpec, StopIsFinal
-----------------------------------------------------------------------------
(* The runtime under the engines *)

(* A step of the engine is a step of its runtime, or leaves it alone.      *)
LEMMA RuntimeStepInEngine == [EngineNext]_allVars => [Next]_vars
<1> SUFFICES ASSUME [EngineNext]_allVars PROVE [Next]_vars
  OBVIOUS
<1>0. Requests \subseteq Tasks /\ JobTasks \subseteq Tasks
  BY DEF Requests, Tasks
<1>1. ASSUME NEW e \in Engines,
             \/ Compose(e) \/ Start(e) \/ Stop(e) \/ StopEnds(e) \/ StopCut(e) \/ Registering(e)
      PROVE  [Next]_vars
  BY <1>1 DEF Compose, Start, Stop, StopEnds, StopCut, Registering, RegisterCapability,
              RegisterPdfProvider, Next
<1>2. CASE Serve
  <2>1. ASSUME NEW r \in Requests, Begin(r) \/ Request(r) \/ RequestEnds(r) PROVE [Next]_vars
    BY <1>0, <2>1 DEF Begin, Request, RequestEnds, Next
  <2>2. ASSUME NEW d \in DirectCalls, Begin(d) \/ DirectEnds(d) PROVE [Next]_vars
    BY <2>2 DEF Begin, DirectEnds
  <2>3. ASSUME NEW t \in Tasks, Running(t) \/ TimeOut(t) \/ Ends(t) PROVE [Next]_vars
    BY <2>3 DEF Running, TimeOut, Ends, Next
  <2>4. ASSUME NEW j \in JobTasks, SubmitJob(j) \/ CancelJob(j) \/ Call(j) PROVE [Next]_vars
    BY <1>0, <2>4 DEF SubmitJob, CancelJob, Call, Next
  <2> QED
    BY <1>2, <2>1, <2>2, <2>3, <2>4 DEF Serve
<1>3. CASE UNCHANGED allVars
  BY <1>3 DEF allVars
<1> QED
  BY <1>1, <1>2, <1>3, StepCases

(* Whatever the engines that share a runtime do, the runtime behaves as    *)
(* LocalRuntime says: what is proved of it holds under them.               *)
THEOREM EngineRunsRuntime == EngineSpec => Spec
<1>1. EngineInit => Init
  BY DEF EngineInit
<1> QED
  BY <1>1, RuntimeStepInEngine, PTL DEF EngineSpec, Spec

(* Once an engine is STOPPED and no engine of its runtime is STOPPING, no  *)
(* job and no capability of a job is alive, for any engines and tasks.     *)
THEOREM StoppedEnginesIdle == EngineSpec => []StoppedIsIdle
<1>1. EngineInv /\ RuntimeInv => StoppedIsIdle
  <2> SUFFICES ASSUME EngineInv, RuntimeInv, NEW e \in Engines, state[e] = "stopped",
                      \A f \in Engines : state[f] # "stopping", NEW j \in JobTasks
               PROVE  ~Live(j) /\ ~Live(Nested[j])
    BY DEF StoppedIsIdle
  <2>1. runtime = "stopped"
    BY DEF EngineInv, LifecycleInv, Past
  <2>2. ~Live(j)
    BY <2>1 DEF RuntimeInv, StopInv
  <2>3. phase[Nested[j]] \in {"absent", "done"}
    BY <2>2 DEF RuntimeInv, NestingInv, Live
  <2> QED
    BY <2>2, <2>3 DEF Live
<1> QED
  BY <1>1, EngineRunsRuntime, RuntimeInvariant, EnginesConsistent, PTL
=============================================================================
