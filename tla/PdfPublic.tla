------------------------------ MODULE PdfPublic ------------------------------
(* One request to the public PDF integration (pdf_public.py) and the handle of *)
(* the PyMuPDF provider it works through (provider.py): the coroutine, the     *)
(* threads it starts in the backend, its cancellation and what it stores.      *)
(*                                                                             *)
(* A request is of kind                                                        *)
(*   "parse"   PDFParseCapability.execute with a profile,                      *)
(*   "process" PDFProcessingCapability.execute, which parses,                  *)
(*   "inspect" PDFInspectionCapability.execute,                                *)
(*   "survey"  inspect_document on a document opened for it, with options,     *)
(*   "examine" DefaultPDFTechnicalInspector.inspect, which probes first.       *)
EXTENDS PdfNative, PdfInspection

CONSTANTS Documents,    \* what the source may hold: [pages, bytes, state]
          Requests      \* what the caller may ask

Phases == {"asked", "probing", "resolving", "loading", "undoing", "body", "running",
           "leaving", "closing", "filing", "ended"}

(* What a request ends with, and the kinds of artifacts. *)
Endings == [is   : {"answer", "error", "cancelled", "probed", "failed_open"},
            what : {None, "invalid_options", "source", "execution", "backend", "store",
                    "resource_limit", "corrupted", "not_pdf", "password_required",
                    "invalid_password"}]
Artifacts == {"inspection", "structure", "typography", "text", "images", "vectors",
              "interactive", "scenes", "native", "result"}

ASSUME PhasesAssumption == None \notin Phases \cup Endings \cup Artifacts
(* The provider reads lists where a page has several of something, and whole numbers as *)
(* the places of its drawings. Pages are asked for by numbers or from one to another.     *)
TextGiven(text) ==
    /\ IsList(text) /\ \A b \in DOMAIN text : IsList(text[b])
    /\ \A b \in DOMAIN text : \A l \in DOMAIN text[b] : IsList(text[b][l].spans)
    /\ \A b \in DOMAIN text : \A l \in DOMAIN text[b] : \A s \in DOMAIN text[b][l].spans :
          IsList(text[b][l].spans[s].chars)
PageGiven(page) ==
    /\ page.text # None => TextGiven(page.text)
    /\ IsList(page.shown) /\ IsList(page.drawings)
    /\ \A i \in DOMAIN page.drawings : page.drawings[i].seqno \in Int \cup {None}
PagesGiven(pages) ==
    /\ pages.form \in {"list", "ranges"} /\ IsList(pages.of)
    /\ \A i \in DOMAIN pages.of :
          IF pages.form = "list" THEN pages.of[i] \in Int ELSE pages.of[i] \in Int \X Int
ASSUME DocumentsAssumption == \A d \in Documents :
    IsList(d.pages) /\ \A i \in DOMAIN d.pages : PageGiven(d.pages[i])
ASSUME RequestsAssumption == \A r \in Requests :
    /\ r.kind \in {"parse", "process", "inspect", "survey", "examine"}
    /\ r.persist \in BOOLEAN /\ r.options.limit \in (Nat \ {0}) \cup {None}
    /\ r.pages # None => PagesGiven(r.pages)

VARIABLES doc, req,
          phase,        \* where the coroutine is
          pc,           \* the step of Plan it is at
          handle,       \* [backend, source, lock, closed]
          threads,      \* calls under way in threads
          made,         \* artifacts computed so far, by kind
          stop,         \* the page before which the clock stopped the scene builder
          stored,       \* references the coroutine holds, by kind
          store,        \* artifacts of this request in the store, by kind
          pending,      \* what the request ends with once the handle is closed
          outcome,      \* what the caller got, None so far
          cancelled     \* where the caller cancelled, None when it did not

vars == <<doc, req, phase, pc, handle, threads, made, stop, stored, store, pending, outcome, cancelled>>

Total == Len(doc.pages)
Ending(is, what) == [is |-> is, what |-> what]
Answer == Ending("answer", None)
Error(what) == Ending("error", what)
CancelledError == Ending("cancelled", None)

-----------------------------------------------------------------------------
(* PDFParseOptions.from_public_options *)

Numbers(lo, hi) == [i \in 1 .. hi - lo + 1 |-> lo + i - 1]
Unrepeated(s) ==
    FoldLeft(LAMBDA kept, x : IF x \in ToSet(kept) THEN kept ELSE Append(kept, x), <<>>, s)
Profiles == {"basic", "textual", "visual", "full_fidelity"}
ProfileKnown(profile) == profile \in Profiles \cup {None}
ParseProfile(profile) == IF profile = None THEN "visual" ELSE profile
(* Processing takes a profile it does not know for the usual one. *)
ProcessingProfile(profile) == IF ProfileKnown(profile) THEN ParseProfile(profile) ELSE "visual"
ProfileOf(r) ==
    IF r.kind = "process" THEN ProcessingProfile(r.profile) ELSE ParseProfile(r.profile)
Parses(r) == r.kind \in {"parse", "process"}

(* Ranges are written as text and lose repetitions; a list keeps them. An empty selection *)
(* is none.                                                                                 *)
PagesWritten(pages) ==
    IF pages.form = "list" THEN pages.of
    ELSE Unrepeated(FlattenSeq([i \in DOMAIN pages.of |->
                        Numbers(pages.of[i][1], pages.of[i][2])]))
PageSelection(r) ==
    IF r.pages = None THEN None
    ELSE IF PagesWritten(r.pages) = <<>> THEN None
    ELSE PagesWritten(r.pages)
OptionsAccepted(r) ==
    /\ r.kind = "parse" => ProfileKnown(r.profile)
    /\ r.pages # None =>
        /\ r.pages.form = "ranges" => \A x \in ToSet(r.pages.of) : x[1] <= x[2]
        /\ \A x \in ToSet(PagesWritten(r.pages)) : x > 0
PageIndexesAsked(r) ==
    IF PageSelection(r) = None THEN None
    ELSE [i \in DOMAIN PageSelection(r) |-> PageSelection(r)[i] - 1]

(* What the extractions are asked for. The options of the typography are not read. *)
Full(r) == ProfileOf(r) = "full_fidelity"
StructureOptions(r) == [streams |-> Full(r)]
TextOptions(r) == [hidden |-> r.hidden, pages |-> PageIndexesAsked(r)]
ImageOptions(r) == [encoded |-> Full(r), hidden |-> r.hidden, pages |-> PageIndexesAsked(r)]
VectorOptions(r) == [hidden |-> r.hidden, pages |-> PageIndexesAsked(r)]
InteractiveOptions(r) == [appearances |-> Full(r), pages |-> PageIndexesAsked(r)]
SceneOptions(r) == [hidden |-> r.hidden, pages |-> PageIndexesAsked(r)]

-----------------------------------------------------------------------------
(* What a request does between opening and closing, step by step *)

Step(do, of) == [do |-> do, of |-> of, page |-> None]
PageStep(do, p) == [do |-> do, of |-> do, page |-> p]
All(do, kinds) == [i \in DOMAIN kinds |-> Step(do, kinds[i])]

Thread(do) == Step(do, do)

InspectPages(r, n) ==
    LET sampled == SamplePageIndexes(n, r.options) IN
    [i \in 1 .. 2 * Len(sampled) |->
        PageStep(IF i % 2 = 1 THEN "geometry" ELSE "hints", sampled[(i + 1) \div 2])]
InspectDocument(r, n) == InspectPages(r, n) \o <<Step("build", "inspection")>>

(* What parsing adds to the inspection: what is taken or built, and then what is kept of it. *)
ParseSteps(r) ==
    LET Keep(kinds) == IF r.persist THEN All("put", kinds) ELSE <<>>
        Take(kinds) == All("take", kinds)
        profile == ProfileOf(r)
    IN  Keep(<<"inspection">>) \o
        (IF profile = "basic" THEN <<>> ELSE
         Take(<<"structure">>) \o (IF Full(r) THEN Keep(<<"structure">>) ELSE <<>>)
         \o Take(<<"typography", "text">>) \o Keep(<<"typography", "text">>) \o
         (IF profile = "textual" THEN <<>> ELSE
          Take(<<"images", "vectors", "interactive">>) \o All("build", <<"scenes", "native">>)
          \o Keep(<<"images", "vectors", "interactive", "scenes", "native">>)))
        \o Keep(<<"result">>)
Plan(r, n) == InspectDocument(r, n) \o (IF Parses(r) THEN ParseSteps(r) ELSE <<>>)

TheStep == Plan(req, Total)[pc]
AtStep(dos) == phase = "body" /\ pc <= Len(Plan(req, Total)) /\ TheStep.do \in dos

(* What the steps compute. A document does not change while it is open, so every artifact *)
(* is given by the request and the document; made tells which of them there are.          *)
Asked == PageIndexesAsked(req)
Inspection ==
    LET sampled == SamplePageIndexes(Total, req.options) IN
    BuildInspection(Total, [i \in DOMAIN sampled |-> InspectPage(doc, sampled[i])],
                    doc.state = "locked")
Structure == InternalStructure(doc, StructureOptions(req))
Text == NativeText(doc, TextOptions(req), Typography(Structure))
Images == NativeImages(doc, ImageOptions(req), Structure)
Vectors == NativeVectors(doc, VectorOptions(req))
Interactive == NativeInteractive(doc, InteractiveOptions(req), Structure)
Scenes ==
    PageScenes(Structure, PageGeometries(Inspection), Text, Images, Vectors, SceneOptions(req), stop)
Native ==
    NativeScene([inspection |-> Inspection, structure |-> Structure,
                 typography |-> Typography(Structure), text |-> Text, images |-> Images,
                 vectors |-> Vectors, interactive |-> Interactive, scenes |-> Scenes])

(* A call into the backend gives a result only if the models take what it found. *)
Gettable(step) ==
    CASE step.do = "geometry" -> BasicGeometryAccepted(PageAt(doc, step.page))
      [] step.do = "take" /\ step.of = "text" -> TextAccepted(Text)
      [] step.do = "take" /\ step.of = "images" -> ImagesAccepted(Images)
      [] step.do = "take" /\ step.of = "vectors" -> VectorsAccepted(Vectors)
      [] step.do = "take" /\ step.of = "interactive" -> Interactive.statistics \in InteractiveStatistics
      [] OTHER -> TRUE

PrimaryOf(refs) ==
    IF ProfileOf(req) = "textual" /\ refs # <<>> THEN Last(refs)
    ELSE IF "native" \in ToSet(refs) THEN "native"
    ELSE None
(* Warnings and limitations are those of the native scene, where there is one. *)
Told(refs, native) ==
    [features |-> Inspection.features,
     pages |-> IF "scenes" \in made THEN Len(Scenes.pages) ELSE Inspection.summary.total,
     primary |-> PrimaryOf(refs),
     scene |-> IF "native" \in ToSet(refs) THEN "native" ELSE None,
     warnings |-> native.warnings, limitations |-> {l.code : l \in native.limitations},
     status |-> "success", artifacts |-> refs]
ParseResult(refs) ==
    Told(refs, IF "native" \in made THEN Native ELSE [warnings |-> {}, limitations |-> {}])
(* With the stored result the answer lists it too, and refers to it when it has no other. *)
WithStoredResult(result, refs) ==
    IF "result" \notin ToSet(refs) THEN result
    ELSE [result EXCEPT !.artifacts = refs,
                        !.primary = IF @ = None THEN "result" ELSE @]
(* The caller of process() gets the same under a job of its own. *)
ProcessingStatus(status) ==
    IF status \in {"failed", "review_required"} THEN status ELSE "completed"
Processed(result) ==
    IF req.kind = "process" THEN [result EXCEPT !.status = ProcessingStatus(@)] ELSE result
(* What the caller holds at the end of each kind of answer. *)
Result ==
    LET before == IF "result" \in ToSet(stored) THEN Front(stored) ELSE stored
    IN  Processed(WithStoredResult(ParseResult(before), stored))
PublicInspection(reference) ==
    [artifact |-> reference, total |-> Inspection.summary.total,
     security |-> Inspection.security.status,
     features |-> [f \in {"text", "images", "vectors", "forms"} |-> Inspection.features[f].status],
     warnings |-> Inspection.warnings]
InspectionGiven ==
    CASE outcome.is = "probed" -> ProbeOnlyInspection(outcome.what)
      [] outcome.is = "failed_open" -> FailedOpenInspection(outcome.what)
      [] outcome.is = "answer" -> Inspection

-----------------------------------------------------------------------------
Init ==
    /\ doc \in Documents /\ req \in Requests
    /\ phase = "asked" /\ pc = 1
    /\ handle = [backend |-> "none", source |-> "none", lock |-> FALSE, closed |-> FALSE]
    /\ threads = {} /\ made = {} /\ stop = Total /\ stored = <<>> /\ store = <<>>
    /\ pending = None /\ outcome = None /\ cancelled = None

End(result) == phase' = "ended" /\ outcome' = result
Leave(result) == phase' = "leaving" /\ pending' = result

(* from_public_options refuses the request, or it goes on to the provider. *)
Ask ==
    /\ phase = "asked"
    /\ IF Parses(req) /\ ~OptionsAccepted(req)
       THEN End(Error("invalid_options"))
       ELSE /\ phase' = IF req.kind = "examine" THEN "probing" ELSE "resolving"
            /\ UNCHANGED outcome
    /\ UNCHANGED <<doc, req, pc, handle, threads, made, stop, stored, store, pending, cancelled>>

EncryptionState ==
    CASE doc.state # "locked" -> "not_encrypted"
      [] doc.state = "locked" /\ req.password = None -> "password_required"
      [] doc.state = "locked" /\ req.password = "wrong" -> "invalid_password"
      [] doc.state = "locked" /\ req.password = "right" -> "unlocked"
(* Opening for inspect() takes max_pages_to_inspect as a limit on the document. *)
TooManyPages == req.kind = "examine" /\ req.options.limit # None /\ Total > req.options.limit

(* probe() opens and closes a document of its own. *)
Probe ==
    /\ phase = "probing"
    /\ CASE doc.state = "not_pdf" -> End(Ending("probed", "not_pdf"))
         [] doc.state = "corrupt" -> End(Error("corrupted"))
         [] EncryptionState \in {"password_required", "invalid_password"} ->
                End(Ending("probed", EncryptionState))
         [] OTHER ->
                IF TooManyPages THEN End(Error("resource_limit"))
                ELSE phase' = "resolving" /\ UNCHANGED outcome
    /\ UNCHANGED <<doc, req, pc, handle, threads, made, stop, stored, store, pending, cancelled>>

(* The source resolver opens the source, or cannot. *)
Resolve ==
    /\ phase = "resolving"
    /\ phase' = "loading" /\ threads' = threads \cup {Thread("load")}
    /\ handle' = [handle EXCEPT !.source = "open"]
    /\ UNCHANGED <<doc, req, pc, made, stop, stored, store, pending, outcome, cancelled>>
ResolveFails ==
    /\ phase = "resolving" /\ End(Error("source"))
    /\ UNCHANGED <<doc, req, pc, handle, threads, made, stop, stored, store, pending, cancelled>>

Loads == doc.state \in {"sound", "locked"}
OpenFailure(error) ==
    IF req.kind = "examine" THEN Ending("failed_open", error) ELSE Error(error)

(* The backend has read the source and opened it: a handle, or a document to close again. *)
Load ==
    /\ phase = "loading" /\ Loads
    /\ handle' = [handle EXCEPT !.backend = "open"]
    /\ IF EncryptionState \in {"password_required", "invalid_password"}
       THEN /\ phase' = "undoing" /\ pending' = OpenFailure(EncryptionState)
            /\ threads' = (threads \ {Thread("load")}) \cup {Thread("undo")}
       ELSE phase' = "body" /\ threads' = threads \ {Thread("load")} /\ UNCHANGED pending
    /\ UNCHANGED <<doc, req, pc, made, stop, stored, store, outcome, cancelled>>
(* It could not: what it read is no PDF (any more), or a read took too long and goes on. *)
LoadFails ==
    /\ phase = "loading"
    /\ handle' = [handle EXCEPT !.source = "closed"]
    /\ \/ End(OpenFailure("corrupted")) /\ threads' = threads \ {Thread("load")}
       \/ /\ req.timed /\ End(Error("execution"))
          /\ threads' = (threads \ {Thread("load")}) \cup {Thread("read")}
    /\ UNCHANGED <<doc, req, pc, made, stop, stored, store, pending, cancelled>>
Undo ==
    /\ phase = "undoing"
    /\ threads' = threads \ {Thread("undo")}
    /\ handle' = [handle EXCEPT !.backend = "closed", !.source = "closed"]
    /\ End(pending)
    /\ UNCHANGED <<doc, req, pc, made, stop, stored, store, pending, cancelled>>

(* A getter: _ensure_open, the lock, a thread, the result. *)
Launch ==
    /\ AtStep({"geometry", "hints", "take"}) /\ ~handle.closed /\ ~handle.lock
    /\ phase' = "running" /\ threads' = threads \cup {TheStep}
    /\ handle' = [handle EXCEPT !.lock = TRUE]
    /\ UNCHANGED <<doc, req, pc, made, stop, stored, store, pending, outcome, cancelled>>
Deliver ==
    /\ phase = "running" /\ Gettable(TheStep)
    /\ phase' = "body" /\ pc' = pc + 1
    /\ threads' = threads \ {TheStep} /\ handle' = [handle EXCEPT !.lock = FALSE]
    /\ made' = IF TheStep.do = "take" THEN made \cup {TheStep.of} ELSE made
    /\ UNCHANGED <<doc, req, stop, stored, store, pending, outcome, cancelled>>
OperationFails ==
    /\ phase = "running"
    /\ threads' = threads \ {TheStep} /\ handle' = [handle EXCEPT !.lock = FALSE]
    /\ Leave(Error("backend"))
    /\ UNCHANGED <<doc, req, pc, made, stop, stored, store, outcome, cancelled>>

(* What the coroutine computes by itself; the clock may stop the scene builder. No model *)
(* refuses it: InspectionAgrees checks that.                                              *)
Build ==
    /\ AtStep({"build"})
    /\ pc' = pc + 1
    /\ made' = made \cup {TheStep.of}
    /\ \/ UNCHANGED stop
       \/ TheStep.of = "scenes" /\ req.timed /\ stop' \in 0 .. Total - 1
    /\ UNCHANGED <<doc, req, phase, handle, threads, stored, store, pending, outcome, cancelled>>

Put ==
    /\ AtStep({"put"})
    /\ pc' = pc + 1
    /\ store' = Append(store, TheStep.of) /\ stored' = Append(stored, TheStep.of)
    /\ UNCHANGED <<doc, req, phase, handle, threads, made, stop, pending, outcome, cancelled>>
(* Mutant: a failing put is passed over. *)
PutFailsPassedOver ==
    /\ AtStep({"put"}) /\ pc' = pc + 1
    /\ UNCHANGED <<doc, req, phase, handle, threads, made, stop, stored, store, pending, outcome, cancelled>>
PutFails ==
    /\ AtStep({"put"}) /\ Leave(Error("store"))
    /\ UNCHANGED <<doc, req, pc, handle, threads, made, stop, stored, store, outcome, cancelled>>

Return ==
    /\ phase = "body" /\ pc > Len(Plan(req, Total)) /\ Leave(Answer)
    /\ UNCHANGED <<doc, req, pc, handle, threads, made, stop, stored, store, outcome, cancelled>>

(* Mutant: close() does not take the lock. *)
StartCloseUnlocked ==
    /\ phase = "leaving"
    /\ phase' = "closing" /\ threads' = threads \cup {Thread("close")}
    /\ UNCHANGED <<doc, req, pc, handle, made, stop, stored, store, pending, outcome, cancelled>>
(* __aexit__: close() takes the lock and closes the document in a thread, then the source. *)
StartClose ==
    /\ phase = "leaving" /\ ~handle.lock
    /\ phase' = "closing" /\ threads' = threads \cup {Thread("close")}
    /\ handle' = [handle EXCEPT !.lock = TRUE]
    /\ UNCHANGED <<doc, req, pc, made, stop, stored, store, pending, outcome, cancelled>>
(* Mutant: the caller is not told what the request ended with. *)
CloseUntold ==
    /\ phase = "closing" /\ phase' = "ended"
    /\ threads' = threads \ {Thread("close")}
    /\ handle' = [backend |-> "closed", source |-> "closed", lock |-> FALSE, closed |-> TRUE]
    /\ UNCHANGED <<doc, req, pc, made, stop, stored, store, pending, outcome, cancelled>>
(* PDFInspectionCapability stores after closing, and without asking for persist. *)
Close ==
    /\ phase = "closing"
    /\ threads' = threads \ {Thread("close")}
    /\ handle' = [backend |-> "closed", source |-> "closed", lock |-> FALSE, closed |-> TRUE]
    /\ IF req.kind = "inspect" /\ pending.is = "answer"
       THEN phase' = "filing" /\ UNCHANGED outcome
       ELSE End(pending)
    /\ UNCHANGED <<doc, req, pc, made, stop, stored, store, pending, cancelled>>
File ==
    /\ phase = "filing" /\ End(pending) /\ store' = Append(store, "inspection")
    /\ UNCHANGED <<doc, req, pc, handle, threads, made, stop, stored, pending, cancelled>>
FileFails ==
    /\ phase = "filing" /\ End(Error("store"))
    /\ UNCHANGED <<doc, req, pc, handle, threads, made, stop, stored, store, pending, cancelled>>

(* Mutant: a cancelled getter keeps the lock. *)
CancelLocked ==
    /\ cancelled = None /\ phase = "running" /\ cancelled' = phase
    /\ Leave(CancelledError)
    /\ UNCHANGED <<doc, req, pc, handle, threads, made, stop, stored, store, outcome>>
(* CancelledError is raised at the await the coroutine is at. The thread it waits for *)
(* goes on; the lock is let go; what comes next depends on which await it is.         *)
Cancel ==
    /\ cancelled = None
    /\ phase \in {"loading", "undoing", "running", "closing", "filing"} \/ AtStep({"put"})
    /\ cancelled' = phase
    /\ IF phase \in {"running", "body"}
       THEN Leave(CancelledError) /\ UNCHANGED outcome
       ELSE End(CancelledError) /\ UNCHANGED pending
    /\ handle' = [handle EXCEPT !.lock = FALSE]
    /\ \/ UNCHANGED store
       \/ AtStep({"put"}) /\ store' = Append(store, TheStep.of)
       \/ phase = "filing" /\ store' = Append(store, "inspection")
    /\ UNCHANGED <<doc, req, pc, threads, made, stop, stored>>

(* A thread nobody waits for any more ends. *)
Awaited ==
    CASE phase = "loading" -> {Thread("load")}
      [] phase = "undoing" -> {Thread("undo")}
      [] phase = "running" -> {TheStep}
      [] phase = "closing" -> {Thread("close")}
      [] OTHER -> {}
ThreadEnds ==
    \E t \in threads \ Awaited :
        /\ threads' = threads \ {t}
        /\ handle' = [handle EXCEPT !.backend =
              IF t.do \in {"undo", "close"} THEN "closed"
              ELSE IF t.do = "load" /\ Loads THEN "open" ELSE @]
        /\ UNCHANGED <<doc, req, phase, pc, made, stop, stored, store, pending, outcome, cancelled>>

GoOn ==
    \/ Ask \/ Probe \/ Resolve \/ ResolveFails \/ Load \/ LoadFails \/ Undo
    \/ Launch \/ OperationFails \/ Deliver \/ Build \/ Put \/ PutFails \/ Return
    \/ StartClose \/ Close \/ File \/ FileFails \/ ThreadEnds
Next == GoOn \/ Cancel
(* The loop runs what is ready and every backend call comes to an end. *)
Spec == Init /\ [][Next]_vars /\ WF_vars(GoOn)

-----------------------------------------------------------------------------
Answered == outcome # None /\ outcome.is = "answer"
(* The artifacts a profile promises to keep, in the order they are stored, and those that *)
(* this request does.                                                                       *)
PromisedBy(profile) ==
    CASE profile = "basic" -> <<"inspection", "result">>
      [] profile = "textual" -> <<"inspection", "typography", "text", "result">>
      [] profile = "full_fidelity" ->
            <<"inspection", "structure", "typography", "text", "images", "vectors",
              "interactive", "scenes", "native", "result">>
      [] OTHER ->
            <<"inspection", "typography", "text", "images", "vectors", "interactive",
              "scenes", "native", "result">>
Promised ==
    IF req.kind = "inspect" THEN <<"inspection">>
    ELSE IF Parses(req) /\ req.persist THEN PromisedBy(ProfileOf(req)) ELSE <<>>

TypeOK ==
    /\ doc \in Documents /\ req \in Requests
    /\ phase \in Phases
    /\ pc \in 1 .. Len(Plan(req, Total)) + 1
    /\ handle \in [backend : {"none", "open", "closed"}, source : {"none", "open", "closed"},
                   lock : BOOLEAN, closed : BOOLEAN]
    /\ threads \subseteq {Thread(t) : t \in {"load", "read", "undo", "close"}} \cup ToSet(Plan(req, Total))
    /\ made \subseteq {s.of : s \in ToSet(Plan(req, Total))} /\ stop \in 0 .. Total
    /\ outcome \in Endings \cup {None} /\ (outcome # None) <=> (phase = "ended")
    /\ cancelled \in {None, "loading", "undoing", "running", "body", "closing", "filing"}

InBackend == threads \ {Thread("read")}

(* One call at a time is inside the document, under the lock, and a closed document is not *)
(* worked on: true of a request nobody cancels. A cancelled one lets go of the lock while  *)
(* its thread runs, so that close() may meet that one thread and no other.                 *)
OneCallAtATime ==
    LET getting == InBackend \ {Thread("load"), Thread("undo")} IN
    /\ cancelled = None => /\ Cardinality(InBackend) <= 1
                           /\ handle.lock <=> getting # {}
                           /\ getting # {} => handle.backend = "open"
    /\ cancelled # None => Cardinality(InBackend \ {Thread("close")}) <= 1

WithScenes == Answered /\ "scenes" \in made
CharsOf(page) ==
    LET spans == IF page.text = None THEN <<>> ELSE SpansOf(page.text) IN
    FoldLeft(PlusChars, 0, spans)
Seen(kind, scene) == Cardinality({i \in DOMAIN scene.elements : scene.elements[i].kind = kind})
Times(p) ==
    IF Asked = None THEN 1 ELSE Cardinality({i \in DOMAIN Asked : Asked[i] = p})
PaintedVisibly(d, rect) ==
    VectorVisibility(PaintIntent(d), Opacities(GraphicsState(0, 0, None, FillStyle(d), StrokeStyle(d))),
                     DrawingBox(d, Commands(d.items)), rect) = "visible"
ToldTwice(kind, p, warnings) ==
    \E w \in warnings : w[2] = "duplicate_element_id" /\ w[3][1] = kind /\ w[3][2][2] = p
ShowsAll(scene, warnings, cut) ==
    LET p     == scene.page
        page  == PageAt(doc, p)
        shown == {i \in DOMAIN page.shown :
                    req.hidden \/ Visibility(page.shown[i].box, page.rect) = "visible"}
        known == {i \in shown : <<"images", "unresolved_resource", <<p, i>>>> \notin warnings}
        drawn == {i \in DOMAIN Upto(page.drawings, MaxPaths) :
                    LET d == page.drawings[i] IN
                    req.hidden \/ d.type = "clip" \/ PaintedVisibly(d, page.rect)}
    IN  <<"scenes", "scene_partial", p>> \in warnings \/
        /\ \/ Seen("text_glyph", scene) = CharsOf(page)
           \/ <<"text", "max_glyphs_reached", p>> \in warnings
        /\ Seen("image", scene) = Cardinality(known) \/ cut
        /\ \/ Seen("vector", scene) = Cardinality(drawn) * Times(p)
           \/ ToldTwice("vector", p, warnings) /\ Seen("vector", scene) >= Cardinality(drawn)
AllShown(scenes, warnings, cut) ==
    /\ \A i \in DOMAIN scenes : ShowsAll(scenes[i], warnings, cut)
    /\ \A p \in PageIndexes(doc) :
          \/ Times(p) = 0
          \/ \E i \in DOMAIN scenes : scenes[i].page = p
          \/ <<"scenes", "page_geometry_missing", p>> \in warnings
          \/ <<"scenes", "scene_partial", None>> \in warnings

(* Every page of the document the caller asked for is a scene or is told of. A scene shows *)
(* each character and each shown image of its page once, each drawing as often as the      *)
(* selection repeats the page (or once at least when it tells of equal identifiers),       *)
(* unless a limit cut them (and says so for all but the limits on paths and occurrences)   *)
(* or hidden ones were not asked for.                                                      *)
NothingLostSilently ==
    WithScenes => AllShown(Scenes.pages, Result.warnings, Len(Images.occurrences) = MaxOccurrences)

Ordered(scene) ==
    LET all == ToSet(scene.elements)
        ranked == {e \in all : e.scene # None}
        cut == IsPartial(scene)
    IN  /\ {e.scene : e \in ranked} = 0 .. Cardinality(ranked) - 1
        /\ {<<r[1], r[3]>> : r \in {x \in scene.relations : x[2] = "painted_before"}}
             = {<<q[1].id, q[2].id>> : q \in {x \in ranked \X ranked : x[2].scene = x[1].scene + 1}}
        /\ \A e, f \in ranked :
              e.kind = f.kind /\ e.kind # "vector" /\ e.native < f.native => e.scene < f.scene
        /\ \A e \in all : e.clip # None /\ ~cut => \E c \in all : c.source = e.clip

(* In a scene the ordered elements have the ranks 0, 1, ... once each, painted_before says *)
(* the same, what comes from one collection keeps its order there, and a clip refers to    *)
(* an element of the same page.                                                            *)
OrderFollowsDrawing ==
    WithScenes => \A scene \in ToSet(Scenes.pages) : Ordered(scene)

Feature(kind) ==
    CASE kind = "text_word" -> "text" [] kind = "image" -> "images" [] kind = "vector" -> "vectors"
Shown(scene) ==
    {Feature(e.kind) : e \in {x \in ToSet(scene.elements) : x.kind \in {"text_word", "image", "vector"}}}
Agreed(scenes, statistics, pages, features) ==
    /\ \A i \in DOMAIN scenes : \A f \in Shown(scenes[i]) :
          features[f].status # "absent" /\ pages[scenes[i].page + 1].has[f] # "absent"
    /\ statistics.scenes = Len(scenes)
    /\ statistics.elements = FoldLeft(LAMBDA sum, s : sum + Len(s.elements), 0, scenes)
    /\ statistics.elements = FoldFunction(+, 0, statistics.counts)
Owned(given) ==
    \A f \in Features : given.features[f].status = "absent" =>
        \/ \A p \in PageIndexes(doc) : HintCount(PageAt(doc, p), f) = 0
        \/ "inspection is partial" \in given.recommendations

(* What the scenes show the inspection has not called absent, on that page and for the     *)
(* document, and the numbers of the native scene are those of the scenes. An inspection    *)
(* that calls absent what the document has says that it is partial. No model refuses what  *)
(* is computed from artifacts the models have taken.                                       *)
InspectionAgrees ==
    /\ WithScenes =>
          /\ Agreed(Scenes.pages, Native.statistics, Inspection.pages, Result.features)
          /\ ScenesAccepted(Scenes) /\ NativeAccepted(Native)
    /\ outcome # None /\ outcome.is \in {"answer", "probed", "failed_open"} =>
          Owned(InspectionGiven) /\ InspectionAccepted(InspectionGiven)

RefersTo(result, kinds) ==
    /\ result.artifacts = kinds
    /\ (result.primary = None) <=> ~req.persist
    /\ result.primary \in ToSet(kinds) \cup {None}
    /\ result.scene # None => result.scene = result.primary

(* What is stored is a beginning of what the profile promises, all of it when the caller  *)
(* has an answer, which then refers to exactly that; a request that is not to be kept     *)
(* leaves nothing. What a failed request stored stays, and no answer refers to it. The    *)
(* native scene names what the request made before it, and an inspection every page.      *)
AnswerIsStored ==
    /\ IsPrefix(store, Promised)
    /\ Answered /\ (Parses(req) \/ req.kind = "inspect") => store = Promised
    /\ Answered /\ Parses(req) => RefersTo(Result, store)
    /\ Answered /\ "native" \in made => Native.sources = made \ {"native"}
    /\ Answered /\ req.kind = "inspect" => PublicInspection(Last(store)).total = Total

(* Document and source are closed, but for a request that was cancelled while it opened   *)
(* or closed them.                                                                         *)
EverythingClosed ==
    \/ handle.backend # "open" /\ handle.source # "open"
    \/ cancelled \in {"loading", "undoing", "closing"}

(* Every request ends, its threads too, and then everything is closed.                     *)
RequestEnds == <>(phase = "ended" /\ threads = {} /\ EverythingClosed)

=============================================================================
