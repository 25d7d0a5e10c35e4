# Verification of the Distributed Document Intelligence Engine (Eixo)

TLA+ models of the parts of Eixo that keep state, TLC configurations that check
them on small instances, and TLAPS proofs of what matters most for every
instance. Paths below are relative to the repository.

## 1. The system

A `DocumentEngine` is one Python process with one asyncio event loop. It composes

    API / CLI / SDK
          |  submit, get_job_status, get_job_result, cancel_job, parse, inspect, process
    DocumentEngine (state: CREATED .. STOPPED)
          |
    PersistentJobService ---- SQLiteJobStore (tables jobs, job_results on disk)
          |    \---------- LocalJobRecoveryService (first job operation of a process)
          |  one task per job
    LocalRuntime (semaphore, timeouts, handles)
          |  run_processing -> process()
    CapabilityBackedDocumentService -- IngestDocument -- LocalDocumentRepository, LocalArtifactStore (files)
          |  a second task on the same runtime
    capability (PDF inspection, parsing, processing; chosen by CapabilityRegistry)
          |
    pdf_public -- inspector, scene builders -- PyMuPDFPDFDocumentHandle (one lock, calls in threads)
          \---------- LocalArtifactStore (inspection, structure, text, ..., result)

    API /lab routes -- TemporaryDiagnosticStore (sessions, directories) -- an engine per document

### Components, their state and their operations

| component | state | operations | what is hard |
|---|---|---|---|
| `PersistentJobService` (`application/services.py:366`) | `_handles`, `_recovered`, one watcher task per job | submit, get_status, get_result, cancel, `_watch_job`, `_store_execution_result` | four actors (client, job task, watcher, recovery) update one row; the result and the status are two writes; the watcher is fire-and-forget |
| `JobTransitionPolicy`, `SQLiteJobStore`, `LocalJobRecoveryService` (`application/jobs.py`) | tables `jobs`, `job_results` | create, get, update with an expected version, list, save_result, recover | update is a check in one statement and a write in another; crash between statements; a second process on the same file; page limit of the recovery |
| `LocalRuntime`, `LocalExecutionHandle` (`runtime-local`) | semaphore, `_handles`, status of each handle | submit, execute, execute_capability, shutdown, cancel, wait | a task that holds a slot awaits a task that needs one; timeouts and cancellations that a nested wait absorbs; shared task ids |
| `CapabilityBackedDocumentService` (`services.py:81`) | none | inspect, parse, process | turns execution results back into exceptions |
| `InMemoryJobService` (`services.py:202`) | `_jobs`, `_results`, `_handles` | as the persistent service | cancel against task end, without versions |
| `IngestDocument`, `DocumentLifecycle`, `LocalDocumentRepository` | `document.json`, `transitions.jsonl` | create, update, append_transition | three writes per status; crash between them; check-then-act |
| `LocalArtifactStore` (`artifacts/store.py`) | `content` and `metadata.json` per hash | put, open, delete, verify | two files per artifact, shared by content |
| `DocumentEngine` (`engine/engine.py`) | `state` | local, register, start, shutdown, operations | auto start, shutdown during operations or cancelled, engines on one runtime, a composition that fails half way |
| `CapabilityRegistry`, plugin registry, PDF provider registry | tables | register, resolve | collision policies, partial initialisation |
| `TemporaryDiagnosticStore` (`diagnostics/temporary_lab.py`) | sessions, directories | create, upload, process, remove, close, clean up | sessions that close or expire during an await |
| Public PDF pipeline (`engine/pdf_public.py`) | none beyond one request | inspect, parse, process | one request makes up to ten artifacts, each from the ones before it, and may be cancelled or fail at any await |
| PyMuPDF provider (`pdf-provider-pymupdf`) | document, source, lock and closed flag of a handle | probe, open, getters, close | blocking calls in threads that a cancellation does not stop |
| API, CLI, SDK | upload spools, limits | routes and commands | thin adapters; each CLI command opens an engine of its own |
| PDF inspection, scene builders, geometry, data models | none | pure functions of a document and options | identifiers and orders that several collections share; limits; models that refuse what another part computed |

Correctness, per component: a job walks the documented table once, its result is
stored when it is announced, a terminal row is final, nobody is left waiting, and
recovery takes over what a dead process left (jobs); slots are conserved, tasks
end, handles tell the truth (runtime); a stopped engine runs no job and stays
stopped, a composed one finds what it was given (engine); record, log and artifact
agree after any crash, and only what the policy accepts is recorded (storage); a
session lives while its page does and no file outlives it (lab); nothing on a page
is lost without a warning, the order of a page is kept, the inspection does not
contradict the extraction, an answer refers to what was stored (PDF).

`PROJECT.json` lists every component with its status, and the hazards at their
lines.

## 2. Modules

| module | models | used by |
|---|---|---|
| `JobPolicy` | job record, `TERMINAL_STATUSES`, transition table, `transition()` | the next two |
| `JobLifecycle` | abstract: what a client of one engine is promised | refined by `PersistentJobs` |
| `PersistentJobs` | the job service, its store, recovery, job tasks, crashes, several engines | |
| `MCPersistentJobs` | instances for TLC | `jobs_*.cfg` |
| `PersistentJobsProofs` | theorems about `PersistentJobs` | |
| `JobTasks` | abstract: what a job service relies on from the runtime | refined by `LocalRuntime`, extended by `InMemoryJobs` |
| `LocalRuntime` | runtime, handles, semaphore, timeouts, nested capability tasks, shutdown | extended by `Engine` |
| `LocalRuntimeProofs` | theorems about `LocalRuntime` | extended by `EngineProofs` |
| `MCLocalRuntime` | instance for TLC | `runtime_*.cfg` |
| `InMemoryJobs`, `InMemoryJobsProofs` | the job service without a store, and theorems about it | |
| `Registry`, `RegistryProofs` | `CapabilityRegistry`, and theorems about it | instantiated by `Engine` |
| `Engine` | `DocumentEngine`: composition, life cycle, the operations it lets in; composes `LocalRuntime` and `Registry` | |
| `MCEngine`, `EngineProofs` | instance for TLC, theorems | `engine.cfg` |
| `DocumentStore` | abstract: what an ingestion promises | refined by `Storage` |
| `Intake` | format detection and every check of the ingestion, as operators | extended by `Storage` |
| `Storage` | ingestion over the document repository and the artifact store | |
| `MCStorage`, `StorageProofs` | instance for TLC, theorems | `storage.cfg` |
| `TemporaryLab`, `TemporaryLabProofs` | the diagnostic lab's sessions, routes, page and process, and theorems about them | `lab.cfg` |
| `Geometry` | boxes, matrices, page geometry | the PDF modules |
| `PdfModels` | what the PDF data classes refuse | the PDF modules |
| `PdfExtract` | structure, typography, text and images of a document | `PdfScene`, `PdfNative` |
| `PdfGraphics` | vectors, clips, graphics states | the same |
| `PdfInteractive` | limitations of every artifact, the interactive artifact | the same |
| `PdfScene` | `PDFPageSceneBuilder` | `PdfNative` |
| `PdfNative` | `NativePDFSceneArtifactBuilder` | `PdfPublic` |
| `PdfInspection` | `DefaultPDFTechnicalInspector` | `PdfPublic` |
| `PdfPublic` | one request to the PDF pipeline and the handle it works through | |
| `MCPdf`, `PdfProofs` | documents and requests for TLC; theorems about `Geometry`, `PdfGraphics`, `PdfScene` and `PdfPublic` | `pdf.cfg` |

### PersistentJobs

*Atomicity.* The store's methods are synchronous inside `async def`: awaiting
them never yields. A handler therefore runs to its end without another handler of
the same process in between, while a crash, or a statement of another process, may
come between any two of its SQL statements. `loop[e]` is the handler engine `e` is
inside of: the statement it has reached (`check`, `write`, `save`, `sweep`), the
record it read, the status it is about to write and what it does afterwards.
A read at the beginning of a handler is part of its first action. Awaits that
do yield are the wait for a slot, `process()` and `handle.wait()`; they are the
states of `tasks` and `watching`.

| code | actions |
|---|---|
| `submit` | `Submit` (INSERT CREATED), `CheckVersion`, `Spawn` (UPDATE QUEUED, runtime.submit, watcher) |
| `run_processing` | `StartTask`, `CheckVersion`, `Process` (UPDATE RUNNING, await) , `EndTask` |
| `_watch_job`, `_store_execution_result` | `Watch`, `SaveResult`, `CheckVersion`, `Settle`, `Finish` |
| `get_result` | `GetResult`, then as the watcher (`"reply"`) |
| `cancel` | `Cancel`, `CheckVersion`, `Revoke` (UPDATE CANCEL_REQUESTED, handle.cancel), `Finish` |
| `recover` | `List` (the page), `RecoverRecord`, `CheckVersion`, `Recovered`, `FinishSweep` |
| `SQLiteJobStore.update` | `CheckVersion` is its SELECT and comparison, `Commit` its UPDATE, by job id alone |
| exceptions | `Raise`: the job task fails, the watcher is lost, the sweep ends unrecovered, a client gets the error; `StoreFault` raises at any statement |
| engine and process | `Shutdown`, `Stop` (end or crash), `Open` |

`get_status` changes nothing: its progress branch needs a report that
`run_processing` never makes. A record keeps status, version and
result_available. A task's outcome is "no_value" for a COMPLETED execution without
a value. `"completed"` and `"review_required"` in `results` and in `tasks` are the
kinds of the ProcessingResult.

### InMemoryJobs

Its lock is never held across an await and `handle.cancel()` does not suspend, so
each handler is one action: `Submit`, `SubmitRefused` (the runtime is shut down),
`RunProcessing`, `Cancel`, `GetResult`, `Watch`. The tasks are those of `JobTasks`,
extended. No run checks the module: its two properties are proved.

### LocalRuntime

One action per step of an asyncio task: `Acquire` (handle lookup and
`Semaphore.acquire`), `EnterSlot`, `HandlerEnds` / `HandlerInterrupted` /
`CancelledBeforeSlot` (the exits of `_run_task`), `Delegate` and `Resume` (a job's
handler around `execute_capability`). `Revoke` is `handle.cancel()`, `Abandon` a
client coroutine cancelled while it awaits its request, `Expire` the timer of
`asyncio.timeout`, `Shutdown` and `Stopped` the two halves of `shutdown()`.
The semaphore and `task.cancel()` are asyncio's and marked external: a cancelled
waiter stays in the queue until it runs, where a wake-up skips it, a woken one that
is cancelled passes its slot on, and cancelling a task that awaits another cancels
the other. Handlers are taken to let
CancelledError pass. All timers have the runtime's default delay (no caller in the
repository sets another), so a job's timer fires before its capability's.

`PersistentJobs` keeps only `tasks` and `revoked` of all this. `JobTasks` states
those steps alone, and `runtime_tasks` checks that `LocalRuntime` implements it, so
the abstraction in `PersistentJobs` is not a guess: a revoked pending task never
runs, an unrevoked one never ends cancelled.

### Engine and Registry

The engines of an instance were given one runtime and one pair of registries, as
`DocumentEngine.local()` allows; a single engine is the case `Engines = {e}`.
`Compose` is `local()`: it registers providers, then capabilities, in the order
given, and what it registered before it raised stays (`ComposeRefused`).
`RegisterCapability` and `RegisterPdfProvider` are the methods that
`_ensure_mutable` guards. `Start` is the caller's or the automatic start; nothing
in it suspends, so STARTING is never seen. `Stop`, `StopEnds` and `StopCut` are
`shutdown()` up to its await, after it, and cancelled in it. `Begin`, `Request`
and `RequestEnds` are `inspect`/`parse`/`process`: the check of the state, the
submission after the ingestion (by when the engine may have stopped), and the
end; `Begin` and `DirectEnds` the direct PDF operations, which run in the caller's
task. `SubmitJob`, `CancelJob` and `Call` bind the runtime's steps to the engine's
state and to what the registry resolves. Opening the data directory and the job
database is taken to succeed, and `shutdown_timeout` not to expire.

An engine that was given no PDF provider, over a registry without one, registers
PyMuPDF; whatever fails there is only logged, so `ComposeAll` may leave the registry
as it is. Such an engine has the public PDF capabilities and no provider behind them:
its PDF operations are refused with PDFProviderUnavailableError until a provider is
registered (docs/guides/using-document-engine.md:72). No property says otherwise.

`Registry` has one action per method, since each holds the lock throughout.
Descriptors are records of what `resolve` compares.

### Intake and Storage

`Intake` holds the decisions: `Detect`, `OpenError`, `DeclaredError`,
`StructureError` in the order of the code, and `Acceptable`, the policy as a
conjunction without an order. `Storage` is `IngestDocument.execute` as one step per
read and per write: `Open`, `DetectFormat`, `ValidateDeclared`,
`ValidateStructure`, `Identify`, then `CreateRecord` / `MarkValidated` /
`MarkStored` with `AppendTransition` after each, and `put` as `PutLookup`,
`PutReuse`, `PutSpool`, `PutMove`, `PutDescribe`. `Change` is the caller rewriting a
path or a stream between two reads, `Interrupt` and `LateRead` a read that takes too
long and the thread that outlives it, `DeleteContent` and `DeleteMetadata` the two
unlinks of `delete`, `Fault` an OSError of any write, `Crash` the process dying.
Ingestions are processes of their own on one data directory, which allows more than
one event loop would. A content is its own hash.

### TemporaryLab

Handlers are atomic except the upload, which awaits an engine for each document:
`SaveUploads`, `StartDocument`, `WriteReport`, `ApplyResult`, `AnswerUpload`. Every
handler that looks a session up (`GetSession`) sweeps first if a sweep is due. The
page is part of the model, because it decides what the store sees: `SendBeat`,
`ReceiveBeat`, `Leave`, `ReceiveClose`, `Navigate`, `ClearSession`. `CleanupExpired`
is the route somebody may call; nobody is taken to. An upload is one request for a
batch: its files are saved first, in order, and the documents processed after that,
so what raises in either half ends the whole request. `Tick` advances
every clock; an age stops at the limit it is compared with, so no clock needs a bound.

### The PDF modules

Everything the pipeline computes is a function of the document and the request, so
the extraction, inspection and scene modules hold operators, not actions. The input
is what PyMuPDF reports of each page (lines of spans, image placements, drawings,
boxes, failing calls). `PdfPublic` is the coroutine: `Plan` lists the steps a
request makes between opening and closing, in the order of the code; `Launch` and
`Deliver` are a getter with its lock and its thread, `Build` what the coroutine
computes itself, `Put` an artifact stored. `made` and `stored` say which artifacts
exist; what they contain is the operator of that name (`Text`, `Scenes`, `Native`, ...).
`Cancel` may come once, at any await: the thread goes on and ends by `ThreadEnds`.

Abstracted: identifiers are numbers and pairs (kind, page, number); a tie in the
scene order is broken by number where the code compares the text of the
identifiers; a text element carries no fraction of its line; coordinates are integers without
tolerance and a page's rectangle starts at the origin; `close()` does not fail;
`probe()` is one step; the interactive artifact is always empty, because this
provider extracts no links, forms, annotations or layers.

## 3. Runs

| run | instance | shows |
|---|---|---|
| `jobs_one` | 1 engine, 2 jobs, page of 2, all outcomes, FairSpec | types; announced results are stored (`ResultConsistent`); a cancelled job stays cancelled (`CancelWins`); no job is left without a watcher (`Attended`); records are current (`RecordInv`); terminal rows are final; the documented life cycle is implemented; jobs settle; recovery ends |
| `jobs_two` | 2 engines, 1 job, all outcomes, failing statements, symmetry | `ResultInv`, the inductive strengthening of `ResultConsistent` |
| `runtime_tasks` | 2 jobs with capabilities, 1 request, 2 slots | types, slots, handles, cancellation, `ImplementsJobTasks` |
| `engine` | 2 engines on 1 runtime with 1 slot, 1 job with its capability, 1 request, 1 direct call | `StoppedIsIdle`: no job runs once an engine is STOPPED and none is STOPPING; `EngineInv`: the engines agree with their runtime, and the registries hold what composed engines were given; `WorkEnds`: every task ends and every `shutdown()` returns |
| `storage` | 2 ingestions of equal bytes, or 1 of each of 15 sources and 18 contents under 2 policies | content matches its hash, a stored document has its artifact, the log follows the record, recorded is accepted and accepted is not refused, incomplete artifacts are explained, ingestions end cleanly, `ImplementsDocumentStore` |
| `lab` | 1 session, 2 documents, 1 upload, 2 starts of the process | sessions are kept alive (`KeptAlive`), uploads attended, reports match documents, closed sessions leave nothing, every directory is removed in the end while heartbeats arrive (`RemovedWhileServed`) |
| `pdf` | 15 documents of 0 to 4 pages, 62 requests | `TypeOK`, `OneCallAtATime` on the handle, `NothingLostSilently`, `OrderFollowsDrawing`, `InspectionAgrees`, `AnswerIsStored`, `RequestEnds` |
| `jobs_created`, `jobs_result`, `jobs_withdrawn`, `jobs_limit`, `runtime_timeout` | | statements of the documentation the code does not keep, section 5 |

*Bounds.* Two jobs let one job's handlers, page row and watcher interleave with
another's; jobs interact only through the page limit and the idle loop, so a third
adds no new kind of interleaving. Two engines are needed for check-then-act and
enough for a lost update. `RecoverLimit` stands for the 500 of `recover()`; 2 holds
every row of `jobs_one`, 1 in `jobs_limit` makes the page too small. Two slots and
two jobs are the smallest instance in which all slots are held by jobs whose
capabilities wait, and the request competes with both; in `engine` one slot and one
job do the same. `Jobs` bounds `clock` and the versions: a row has at most five
updates. `jobs_two` uses symmetry for invariants only.

`storage`: two ingestions of one content are what the artifact store shares; the
contents lie at and one beyond each limit of the policies, and each source differs
from a plain one in one declaration. `lab`: one session, since sessions share only
the sweep, which treats one that was abandoned as one that is too old, and does not
look at whose request it runs in; two documents, since an upload that stops at one leaves the other; `Grace`
exceeds `Beat + Delay` by one tick (the defaults are 90 and 25 seconds);
`MaxStarts` bounds how often the process is started, and the last one goes on.
`pdf`: the documents hold something of everything the provider distinguishes, a
page past each limit, and what each data class refuses; the requests reach every
profile, selection and option. The limits (`MaxFonts` .. `MaxElements`) stand for the
thousands of the code's defaults.

`CHECK_DEADLOCK FALSE` is used where the system really stops: after `shutdown()` of
the runtime or of all engines, when all ingestions have ended, and when a request
to the PDF pipeline has been answered.

*Fairness.* `PersistentJobs`: weak fairness for the handler the loop is inside of
and for the first operation of a client that opened an engine; strong fairness for
what waits for an idle loop (`StartTask`, `EndTask`, `Watch`), because the loop's
ready queue is first-in first-out and the default timeout ends every task
(`WorkEnds`). `LocalRuntime` and `Engine`: weak fairness for the steps of tasks, for
timers and for the end of a `shutdown()` somebody awaits. `TemporaryLab`: time
passes, a request under way goes on, a stopped process is started again, the timer
of an open page fires and its requests arrive or are lost. Nobody is taken to open a
page or to ask for a cleanup, and nothing in the process asks for one: so the
directories of sessions are removed only while requests keep coming in, and
`RemovedWhileServed` has that as its premise (heartbeats that arrive for ever, of
any page). Without it they stay. `PdfPublic`: the loop runs what is ready and every call into
the backend comes to an end. `Storage` has none: its properties are safety. Nothing
makes clients act, processes crash or handlers return.

`Attended` and `JobSettles` exclude `StuckReview`, the one way in which a job of a
healthy engine gets stuck: a cancel that arrives after the task ended with
REVIEW_REQUIRED and before its watcher ran. CANCEL_REQUESTED has no transition to
REVIEW_REQUIRED, the watcher dies on InvalidJobTransitionError after it saved the
result, and the job waits for the next process's recovery.

Other properties name what the code does not promise, too: `CallerStreamReturned`
leaves out a source that `open()` itself refuses and a read that was abandoned;
`UploadsAttended` leaves out the documents of an upload that stopped short of them,
at a refused file or at a document removed before its turn, and says that nothing
else keeps a document waiting;
`IncompleteExplained` says when content without metadata remains, after which every
put of that content fails; `NothingLeftBehind` allows the directory an upload makes
again after its session was closed; `OneCallAtATime` allows `close()` to meet the one
thread a cancelled getter has left. The end of section 5 says which of these the
documentation denies.

## 4. Proofs

Eight modules hold theorems, each for every value of the constants that meets the
assumptions the modules state. TLC evaluates those assumptions in every run.

`PersistentJobsProofs`, for every set of engines and jobs, every page limit and
every set of outcomes; the only assumption on the constants is `JobsAssumption`.

* `TypeCorrect`: `Spec => []TypeOK`.
* `ResultsConsistent`: `Spec => []ResultConsistent`, for any number of engines,
  with crashes and failing statements. `ResultConsistent` is not inductive: a
  handler about to write COMPLETED must be known to have its result stored, and no
  other engine may store another kind for the same job in between. `ResultInv`
  adds that a job is started by one engine and that only its task's result is
  stored (`OneOwner`), that a submit between its statements is alone with its job
  (`SubmitAlone`), that an update in progress is backed by the tables
  (`WriteBacked`), and that a listed row announces nothing (`ListedUnpublished`).
  `ResultsOwned` proves it inductive, one lemma per group of actions.
* Under `SingleEngine` (any two engines are equal): `RecordsCurrent`, the record a
  handler read is the row until its write, so no version conflict and no invalid
  write occurs; from it `TerminalRowsFinal`, no step writes a terminal row, and
  `LifecycleImplemented`, the refinement of `JobLifecycle`. Without the assumption
  the last two are false (`jobs_withdrawn`).
* `CancelsWin`: `Spec => []CancelWins`, for a single engine whose statements do not
  fail (`~StoreFaults`: a statement that fails after the task was revoked leaves
  CANCEL_REQUESTED). `RevokedInv` strengthens it: a revoked job is CANCELLED, or
  `cancel` is about to write that. It rests on `TargetInv` (which statuses each
  continuation can be about to write).
* `NobodyLeftWaiting`: `Spec => []Attended`, under the same assumptions and
  `PageHoldsAll` (recovery's page holds every row; `jobs_limit` shows that it is
  needed). `AttendInv` says who attends a job while the service does not answer:
  a submit before its watcher, or a sweep with the job still on its page
  (`SweepInv`). `StartedInv` excludes that a task runs before its row is QUEUED.

`LocalRuntimeProofs`, from `RuntimeAssumption`, for any number of tasks and slots:
`RuntimeInvariant` proves `RuntimeInv`, which has one part per concern. `SlotsInv`
is `SlotsConserved` with the types it needs, and nearly inductive by itself: a slot
is free or held, each waiting task is in the queue once, and nobody waits beside a
free slot unless a task was woken for it. `NestingInv` relates a job to the
capability task it awaits; `NamesInv` says that a job looks its own handle up,
although capability tasks share an id; `CancelInv` follows a cancellation from the
request to the end of the task, through the capability it is handed on to and the
timer it may meet; `TruthInv` and `StopInv` are about handles and shutdown. From it
follow `RuntimeTypes`, `SlotsAreConserved`, `HandlesTruthful`,
`CancelledNeverCompletes` and `RuntimeImplementsJobTasks`, the refinement of what
`PersistentJobs` and `InMemoryJobs` rely on.

`EngineProofs`, from `EngineAssumption` and `RuntimeAssumption`: `EnginesConsistent`
proves `EngineInv`, which is inductive as it stands: its first half (`LifecycleInv`)
ties the states of the engines to the one runtime, its second (`ComposedInv`) says
that the registries it shares hold the public capabilities and whatever it was
given, through the compositions of others that were refused half way; a PDF
provider is among that only for an engine that was given one. `ServeIsQuiet` reduces all
steps of requests, jobs and tasks to one case. `StoppedForGood` is the action
property that a stopped engine never works again. `EngineRunsRuntime`
(`EngineSpec => Spec`) says that the engines only use the runtime through its own
steps, so what is proved of it holds under them; with `StopInv` this gives
`StoppedEnginesIdle`.

`StorageProofs`, from `StorageAssumption`, for any number of ingestions, contents,
sources and policies, with faults, crashes, deletes and sources that change. Its
first part reads the lists of checks of `Intake`: `FirstFailure` answers "ok" exactly
when no check fails (by `LeastNatural`, the one induction here, which the library's
theorem on minimal elements allows), and each list means a condition of
`Acceptable`. `StorageInvariant` proves `StorageInv`: `WalkInv` says what is in
record and log where an ingestion stands; `ReadingInv` what it has read, and
`SteadyInv` what that means of a source that cannot change; `ShelvedInv` what of its
artifact is on the shelf; `TemporariesInv` where temporary files may be; `FateInv`
when it has answered. The seven invariants of the run follow, and
`StorageImplementsDocumentStore` maps every step to one of `DocumentStore`.

`TemporaryLabProofs`, from `LabAssumption`, for any number of sessions, documents
and uploads and any times: `LabInvariant` proves `LabInv`, of six parts. `KnownInv`:
nothing refers to a session before it is made, which is what lets a new one be
empty. `KeptInv` bounds the idle time of the page's session by what the page's timer
and the heartbeat under way have counted; with `Beat + Delay < Grace` it follows that
a sweep never finds that session stale. `TodoInv`: a saved document waits in one
upload, once. `TidyInv` ties the documents of each open session to the uploads that
process them (`DocsOf`), to their end (`AttendedOf`: each document that waits has
an upload that works, or one that stopped at a refused file or a removed document) and to the session's files
(`ReportsOf`); the last is inductive only with what an upload between writing its
report and applying its result will say. `LeftInv` is `NothingLeftBehind`. The five
invariants of the run follow (`LabTypes`, `HeartbeatsKeepAlive`,
`WaitingIsExplained`, `ReportsFollowDocuments`, `ClosedLeaveNothing`).

`RegistryProofs`: `RegistryConsistent` (identifiers unique, no capability without
its provider), `ResolvedIsFirst` (what `resolve` returns comes strictly before every
other candidate) and `OthersDoNotInterfere` (a capability that does not support a
request does not change its answer). `InMemoryJobsProofs`: `InMemoryTruthful`, by an
invariant that is inductive, and `InMemorySettled`.

`PdfProofs`, about the geometry: intersection, union and containment of boxes
mean what they say of points; `VisibleIsContained` and `NormalizedIsAccepted` relate
the provider's visibility and normalization to what the models accept;
`ComposeApplies` and `AdjugateInverts` about matrices; `CanonicalIsUpright` about the
four rotations of a page; `ClampedIsAccepted` about boxes cut off at its edges. They
hold for all integers; the code computes with floats, so its tolerances remain
outside.

`PdfProofs` about the handle, for all documents, requests and limits:
`CallsAreSerialised` is `OneCallAtATime`, by `HandleInv`: until it is cancelled the
coroutine waits for every thread there is, and holds the lock exactly while one
works on the document; afterwards there is the one thread it waited for, and
`close()`. `EndsClosed` is the safety half of `RequestEnds`: however a request ends,
document and source are closed then, unless it was cancelled while it opened or
closed them.

`PdfProofs` about a whole request, again for all documents, requests and limits.
The inductive invariant is `RequestInv`, of five parts: `PlaceInv` (the phase fits
the step of `Plan`, what is pending and what came out), `HandleInv`, `MadeInv` (made
is exactly what the steps before `pc` took and built), `StoredInv` (stored is as much
of what is promised as there are puts before `pc`; one whose put was cancelled may be
in the store besides) and `ThreadsInv` (threads run calls of this plan only). None of
the properties is inductive without it: that an answer comes with everything stored
follows only from where the puts stand in the plan of each profile, which the lemmas
from `StepsFull` to `StepsAreKept` spell out.

* `TypeCorrect` is `TypeOK`; in particular a request has an outcome exactly when it
  has ended, and that outcome is one the code can end with.
* `AnswersAreStored` is `AnswerIsStored`.
* `OrderIsKept` is `OrderFollowsDrawing`. It needs one more invariant, `AskedInv`: who
  got past the first step, or made anything, had options that were accepted, so the
  pages selected are pages of the document. What follows is about values. A fold is
  unfolded into a trace (`FoldTraces`), once for the six folds the extraction is made
  of; along the trace, by induction over the natural numbers from a least element
  (`LeastNatural`, `Induct`), repeated identifiers are left out (`FirstsAre`),
  characters are counted, and a page goes on to know the clips its drawings refer to
  (`DrawNextIs`, and `ClipsAreKnown` for a document). `PageIsCollectable`: the
  elements collected for a page are told apart by the keys of `_order_key`, which
  are a strict total order (`PrecedesIsOrder`), so the numbers of what comes before
  are 0, 1, ... once each (`RanksAreAll`). `SceneIsOrdered` puts this together for any
  elements collected, with duplicates left out and the rest cut at `MaxElements`.

`DocumentsAssumption` and `RequestsAssumption` say what these proofs need of the
inputs, and TLC evaluates them in `pdf`: blocks, lines, spans, characters, shown
images and drawings come in lists (`_raw_blocks` and its like take nothing else), a
drawing's `seqno` is an integer or absent (`_int_or_first`), and pages are asked for by
integers (`_page_selection_from`). Nothing is assumed of identifiers, resources,
boxes or of what the pages hold.

Only model-checked:

* `NothingLostSilently` and `InspectionAgrees`. The first counts, through every
  extraction, what a page holds and what a scene shows. The second compares what the
  backend reports about a page with what it later extracts: that the two agree is a
  property of the documents, and assuming it for all of them would assume the result.
* Liveness (`JobSettles`, `RecoveryEnds`, `WorkEnds`, `RemovedWhileServed`,
  `RequestEnds`), which is beyond the prover.

`StorageAssumption` takes the sizes of archives (sums, computed by a fold) to be
natural numbers; TLC evaluates it for the contents of `storage`. The float
`max_compression_ratio` is an integer in `Intake`.

Two remarks for whoever changes the modules. The induction theorems of the library
cannot be instantiated, so a new fold goes into `StepTaken`, where `FoldTraces`
covers it. And TLAPS reads `UNION A \cup B` as the union of both, other than TLC: in
these modules `UNION` stands last or in parentheses.

## 5. Where documentation and code differ

Each is a run that TLC ends with a counterexample; `PROJECT.json` quotes the lines.

* `jobs_created`: a submit cut between INSERT and its first UPDATE leaves CREATED,
  which the table cannot turn into FAILED. Recovery raises JobRecoveryError, and with
  it every job operation of every later engine.
* `jobs_result`: a crash between `save_result` and the status update makes a
  persisted result unavailable after the next start.
* `jobs_withdrawn`: a second engine's recovery overwrites a COMPLETED row that was
  committed after its version check.
* `jobs_limit`: rows beyond the recovery page stay in an intermediate status.
* `runtime_timeout`: a job that times out inside its capability ends FAILED with
  `execution.cancelled`.

The following have no run of their own. The modules contain them, and a property of a
passing run names each as its exception or its premise:

* An upload of the lab whose batch holds a file that is refused ends with the error,
  and the documents saved before it stay queued for ever
  (`routers/diagnostic_lab.py:86`). Removing a document before its turn ends the batch
  too, and those after it stay queued (`:94`).
  docs/guides/pdf-real-validation-lab.md says that each document is independent (61),
  that each PDF is processed independently (190) and that a failure in one document
  does not interrupt the others (199). (`UploadsAttended`)
* docs/guides/pdf-real-validation-lab.md:69-73 says that the cleaner removes sessions
  without heartbeats, and those beyond their lifetime. It runs inside requests only
  (`temporary_lab.py:310`): on a server that gets no more of them an abandoned session
  stays, with its files. (`RemovedWhileServed`)
* docs/architecture/ingestion-and-content-identity.md:56 says that the position of a
  seekable stream is restored when possible. `open()` rewinds it before it refuses its
  size (`ingestion.py:247`) and leaves it at the beginning; the thread of a read that
  timed out moves it after it was restored (`security.py:411`). (`EndsCleanly`)
* docs/architecture/pdf-provider-contracts.md:213 says that access to a handle is
  serialised. `close()` may meet the thread of a cancelled getter. (`OneCallAtATime`)

## 6. Not modelled

* Formatting, logging, serialisation, time stamps and progress; identifiers, error
  classes and the JSON of artifacts are model values where a module needs them.
* Thread and process pools of the runtime: a handler's blocking work that goes on
  after its task ended touches nothing the runtime keeps. (The provider's threads
  are modelled, in `PdfPublic`.)
* The PDF validation lab: it writes what the extraction gave as HTML, JSON and ZIP,
  and keeps no state beyond a call.
* Polygons, quads, arbitrary rotations, skews and tolerances of the geometry
  package: floating point.
* The mapper classes of `document-core`: the pipeline maps inside the provider and
  never calls them. The provider's object graph, provenance and previews.
* SDK, CLI and the API's routes other than the lab's: adapters that convert a call to
  the engine's and keep no state. A CLI command is `Open`, requests and `Stop` in
  `PersistentJobs`; the upload spool and middleware are the framework's.

## 7. What could follow

1. `NothingLostSilently` for all documents: it needs the number of elements each
   collector makes, next to what they are (`AllTextIs`, `PageImagesAre`,
   `PageVectorsAre`), and how many of them share an identifier.
2. The half of `InspectionAgrees` that is about the numbers of the native scene, from
   the same.
3. The hazards without a property; `PROJECT.json` says of each why it has none.
