------------------------------- MODULE Engine -------------------------------
(***************************************************************************)
(* DocumentEngine (packages/document-engine) over its runtime and its      *)
(* registries: how engines are composed, started and stopped, which calls  *)
(* they let in, and which of them end with the runtime.  The engines of    *)
(* one instance were given the same runtime and registries, as local()     *)
(* allows.                                                                 *)
(***************************************************************************)
EXTENDS LocalRuntime

CONSTANTS
  Engines,
  DirectCalls,           (* inspect_pdf, extract_pdf_...: in the caller's task *)
  EngineOf,              (* the engine of each job, request and direct call *)
  ProviderDescriptors, CapabilityDescriptors, None,
  GivenProviders,        (* providers and capabilities each engine is       *)
  GivenCapabilities,     (*  given, in order, as sequences                  *)
  PublicProvider,        (* public_pdf_provider_descriptor()                *)
  PublicCapabilities,    (* the three public PDF capabilities               *)
  PdfProviders,          (* identifiers of PDF providers                    *)
  GivenPdf,              (* the PDF providers each engine is given          *)
  PyMuPdf,               (* the one registered when there is none           *)
  Wanted                 (* what a request asks the registry for            *)

ASSUME EngineAssumption ==
  /\ EngineOf \in [JobTasks \cup Requests \cup DirectCalls -> Engines]
  /\ \A e \in Engines : /\ GivenProviders[e] \in Seq(ProviderDescriptors)
                        /\ GivenCapabilities[e] \in Seq(CapabilityDescriptors)
                        /\ GivenPdf[e] \subseteq PdfProviders
  /\ PublicProvider \in ProviderDescriptors
  /\ PublicCapabilities \subseteq CapabilityDescriptors
  /\ \A c, d \in PublicCapabilities : c.id = d.id => c = d
  /\ \A c \in PublicCapabilities :
       c.provider = PublicProvider.id /\ c.provider # None /\ c.status = "active"
  /\ PyMuPdf \in PdfProviders
  /\ DirectCalls \cap Tasks = {}

VARIABLES
  state,                     (* EngineState; "absent" before local(),       *)
                             (* "refused" if it raised                      *)
  closing,                   (* engines whose shutdown() awaits the runtime *)
  calls,                     (* requests and direct calls under way         *)
  providers, capabilities,   (* CapabilityRegistry                          *)
  pdf                        (* PDFProviderRegistry                         *)

Catalogue == INSTANCE Registry

catalogue == <<providers, capabilities>>
engine    == <<state, closing, calls, catalogue, pdf>>
allVars   == <<vars, engine>>

EngineInit ==
  /\ Init
  /\ state   = [e \in Engines |-> "absent"]
  /\ closing = {}
  /\ calls   = [c \in Requests \cup DirectCalls |-> "none"]
  /\ Catalogue!Init
  /\ pdf = {}

-----------------------------------------------------------------------------
(* local() *)

(* local() registers one after the other what it was given, up to the first *)
(* that is refused; the capabilities come after all providers.              *)
ProviderRefused(e, i) ==
  LET s == GivenProviders[e] IN
  s[i].id \in Catalogue!ProviderIds \/ \E h \in 1 .. i - 1 : s[h].id = s[i].id
NewProviders(e) ==
  {GivenProviders[e][i] :
     i \in {k \in DOMAIN GivenProviders[e] : \A h \in 1 .. k : ~ProviderRefused(e, h)}}
AllProviders(e) == \A i \in DOMAIN GivenProviders[e] : ~ProviderRefused(e, i)
Owners(e) == {p.id : p \in providers \cup NewProviders(e)}

(* Regression: nobody asks for the provider of a capability. *)
CapabilityRefusedById(e, i) ==
  LET s == GivenCapabilities[e] IN
  s[i].id \in Catalogue!CapabilityIds \/ \E h \in 1 .. i - 1 : s[h].id = s[i].id
CapabilityRefused(e, i) ==
  LET s == GivenCapabilities[e] IN
  ~Catalogue!Registrable(s[i], Owners(e),
     Catalogue!CapabilityIds \cup {s[h].id : h \in 1 .. i - 1})
NewCapabilities(e) ==
  {GivenCapabilities[e][i] :
     i \in {k \in DOMAIN GivenCapabilities[e] :
              AllProviders(e) /\ \A h \in 1 .. k : ~CapabilityRefused(e, h)}}
AllCapabilities(e) == \A i \in DOMAIN GivenCapabilities[e] : ~CapabilityRefused(e, i)

(* Everything was accepted: missing public parts are added, unless their   *)
(* identifiers are taken, and PyMuPDF when there is no PDF provider.  A    *)
(* failure to import, create or register that one is only logged.          *)
ComposeAll(e) ==
  LET known == capabilities \cup NewCapabilities(e) IN
  /\ AllProviders(e) /\ AllCapabilities(e) /\ GivenPdf[e] \cap pdf = {}
  /\ providers' = providers \cup NewProviders(e)
                    \cup (IF PublicProvider.id \in Owners(e) THEN {} ELSE {PublicProvider})
  /\ capabilities' = known \cup {c \in PublicCapabilities : \A k \in known : k.id # c.id}
  /\ IF pdf \cup GivenPdf[e] = {} THEN pdf' \in {{}, {PyMuPdf}} ELSE pdf' = pdf \cup GivenPdf[e]
  /\ state' = [state EXCEPT ![e] = "created"]

(* local() raises; what it has registered stays in the registries.         *)
ComposeRefused(e) ==
  /\ providers' = providers \cup NewProviders(e)
  /\ capabilities' = capabilities \cup NewCapabilities(e)
  /\ \/ /\ ~(AllProviders(e) /\ AllCapabilities(e))
        /\ UNCHANGED pdf
     \/ /\ AllProviders(e) /\ AllCapabilities(e) /\ GivenPdf[e] \cap pdf # {}
        /\ \E S \in SUBSET (GivenPdf[e] \ pdf) : pdf' = pdf \cup S
  /\ state' = [state EXCEPT ![e] = "refused"]

(* The data directory and the job database are taken to open.              *)
Compose(e) ==
  /\ state[e] = "absent"
  /\ ComposeAll(e) \/ ComposeRefused(e)
  /\ UNCHANGED <<vars, closing, calls>>

-----------------------------------------------------------------------------
(* register_capability, register_pdf_provider: _ensure_mutable *)

RegisterCapability(e, c) ==
  /\ state[e] = "created"
  /\ Catalogue!Register(c)
  /\ UNCHANGED <<vars, state, closing, calls, pdf>>

RegisterPdfProvider(e, p) ==
  /\ state[e] = "created"
  /\ p \notin pdf
  /\ pdf' = pdf \cup {p}
  /\ UNCHANGED <<vars, state, closing, calls, catalogue>>

-----------------------------------------------------------------------------
(* start and shutdown *)

(* By the caller or by the first operation (auto_start).  Nothing in it    *)
(* suspends: STARTING is never seen.  The runtime refuses once it was shut *)
(* down, by whichever engine; a FAILED engine may try again.               *)
Start(e) ==
  /\ state[e] \in {"created", "failed"}
  /\ \/ StartRuntime /\ state' = [state EXCEPT ![e] = "running"]
     \/ /\ runtime \in {"stopping", "stopped"}
        /\ state' = [state EXCEPT ![e] = "failed"]
        /\ UNCHANGED vars
  /\ UNCHANGED <<closing, calls, catalogue, pdf>>

(* The engine whose shutdown() is the first one of its runtime awaits it;  *)
(* for the others runtime.shutdown() returns at once.                      *)
Stop(e) ==
  /\ state[e] \in {"created", "running", "failed"}
  /\ \/ /\ Shutdown
        /\ state' = [state EXCEPT ![e] = "stopping"]
        /\ closing' = closing \cup {e}
     \/ /\ runtime \in {"stopping", "stopped"}
        /\ state' = [state EXCEPT ![e] = "stopped"]
        /\ UNCHANGED <<vars, closing>>
  /\ UNCHANGED <<calls, catalogue, pdf>>

StopEnds(e) ==
  /\ e \in closing
  /\ Stopped
  /\ state' = [state EXCEPT ![e] = "stopped"]
  /\ closing' = closing \ {e}
  /\ UNCHANGED <<calls, catalogue, pdf>>

(* shutdown() is cancelled while it waits.  The engine stays STOPPING: a   *)
(* second shutdown() returns at once.                                      *)
StopCut(e) ==
  /\ e \in closing
  /\ closing' = closing \ {e}
  /\ UNCHANGED <<vars, state, calls, catalogue, pdf>>

-----------------------------------------------------------------------------
(* Operations: _ensure_running *)

Serving(c) == state[EngineOf[c]] = "running"

(* inspect, parse and process ingest the source before anything else; the  *)
(* direct PDF operations open it themselves.                               *)
Begin(c) ==
  /\ Serving(c) /\ calls[c] = "none"
  /\ calls' = [calls EXCEPT ![c] = "under_way"]
  /\ UNCHANGED <<vars, state, closing, catalogue, pdf>>

Found == \E c \in capabilities : Catalogue!Resolves(Wanted, c)

(* The request goes on to the runtime after ingestion, whatever became of  *)
(* the engine meanwhile.                                                   *)
Request(r) ==
  /\ calls[r] = "under_way" /\ Found
  /\ Submit(r)
  /\ calls' = [calls EXCEPT ![r] = "submitted"]
  /\ UNCHANGED <<state, closing, catalogue, pdf>>

(* It ends with its task; or earlier: the source is refused, the registry  *)
(* has no capability or two alike, the runtime is shut down.               *)
RequestEnds(r) ==
  /\ \/ calls[r] = "under_way"
     \/ calls[r] = "submitted" /\ phase[r] = "done"
  /\ calls' = [calls EXCEPT ![r] = "ended"]
  /\ UNCHANGED <<vars, state, closing, catalogue, pdf>>

(* A direct call works in its caller's task and does not end with the      *)
(* runtime.                                                                *)
DirectEnds(d) ==
  /\ calls[d] = "under_way"
  /\ calls' = [calls EXCEPT ![d] = "ended"]
  /\ UNCHANGED <<vars, state, closing, catalogue, pdf>>

SubmitJob(j) == Serving(j) /\ Submit(j) /\ UNCHANGED engine
CancelJob(j) == Serving(j) /\ Revoke(j) /\ UNCHANGED engine

-----------------------------------------------------------------------------
(* The runtime's own steps; a job's handler asks the registry before it    *)
(* delegates, and fails if there is no answer.                             *)
Running(t) == Steps(t) /\ UNCHANGED engine
TimeOut(t) == Expire(t) /\ UNCHANGED engine
Ends(t)    == (HandlerEnds(t) \/ Abandon(t)) /\ UNCHANGED engine
Call(j)    == Found /\ Delegate(j) /\ UNCHANGED engine

EngineNext ==
  \/ \E e \in Engines :
       \/ Compose(e) \/ Start(e) \/ Stop(e) \/ StopEnds(e) \/ StopCut(e)
       \/ \E c \in CapabilityDescriptors : RegisterCapability(e, c)
       \/ \E p \in PdfProviders : RegisterPdfProvider(e, p)
  \/ \E r \in Requests : Begin(r) \/ Request(r) \/ RequestEnds(r)
  \/ \E d \in DirectCalls : Begin(d) \/ DirectEnds(d)
  \/ \E t \in Tasks : Running(t) \/ TimeOut(t) \/ Ends(t)
  \/ \E j \in JobTasks : SubmitJob(j) \/ CancelJob(j) \/ Call(j)

EngineSpec == EngineInit /\ [][EngineNext]_allVars
FairEngine ==
  /\ EngineSpec
  /\ \A t \in Tasks : WF_allVars(Running(t)) /\ WF_allVars(TimeOut(t))
  /\ \A e \in Engines : WF_allVars(StopEnds(e))

-----------------------------------------------------------------------------
(* Properties *)

(* Once an engine is STOPPED and no other one of its runtime is STOPPING,  *)
(* no job runs and no capability of a job, whichever engine submitted it,  *)
(* whichever engine stopped first and whatever had expired or was being    *)
(* cancelled meanwhile.                                                    *)
StoppedIsIdle ==
  (\E e \in Engines : state[e] = "stopped") /\ (\A e \in Engines : state[e] # "stopping")
    => \A j \in JobTasks : ~Live(j) /\ ~Live(Nested[j])

States == {"absent", "refused", "created", "running", "stopping", "stopped", "failed"}
Past   == {"stopping", "stopped"}

(* The engines and their runtime agree: one that runs has a runtime that   *)
(* was started; the runtime is shut down once an engine has been told to   *)
(* stop and never before; one engine at most awaits that, and none is      *)
(* STOPPING any more when it is done.                                      *)
LifecycleInv ==
  /\ state \in [Engines -> States]
  /\ runtime \in {"new", "started", "stopping", "stopped"}
  /\ \A e \in Engines : state[e] = "running" => runtime # "new"
  /\ (\E e \in Engines : state[e] \in Past) <=> runtime \in Past
  /\ \A e \in closing : e \in Engines /\ state[e] = "stopping"
  /\ \A e, f \in Engines : state[e] = "stopping" /\ state[f] = "stopping" => e = f
  /\ (\E e \in Engines : state[e] = "stopping") <=> runtime = "stopping"

(* The registries are consistent, and those of an engine that was composed *)
(* hold the public capabilities, or others under their names, and all that *)
(* it was given, whatever shared registries held before and whatever other *)
(* engines failed to add to them.  An engine that was given no PDF         *)
(* provider may have none: then its PDF operations are refused.            *)
ComposedInv ==
  /\ Catalogue!Consistent
  /\ pdf \subseteq PdfProviders
  /\ \A e \in Engines : state[e] \notin {"absent", "refused"} =>
       /\ \A c \in PublicCapabilities : c.id \in Catalogue!CapabilityIds
       /\ ToSet(GivenProviders[e]) \subseteq providers
       /\ ToSet(GivenCapabilities[e]) \subseteq capabilities
       /\ GivenPdf[e] \subseteq pdf

EngineInv == LifecycleInv /\ ComposedInv

(* An engine that was told to stop never works again. *)
StopIsFinal ==
  [][\A e \in Engines : state[e] \in Past =>
       state'[e] \in Past /\ (state[e] = "stopped" => state'[e] = "stopped")]_allVars

(* Every task of the runtime ends, and every shutdown() returns, although  *)
(* jobs hold slots while their capabilities wait for one and handlers may  *)
(* hang: the timeouts resolve it.                                          *)
WorkEnds == TasksEnd /\ \A e \in Engines : e \in closing ~> e \notin closing
=============================================================================
