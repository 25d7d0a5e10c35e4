---------------------------- MODULE PdfInspection ----------------------------
(* DefaultPDFTechnicalInspector (inspector.py): what is said of a document     *)
(* from the hints of its pages, and from a probe when it is not opened.        *)
(* A page also has [geometry, rect, fails, extras]: what the file says of its  *)
(* boxes (the media box may be missing), the box the backend shows, the        *)
(* features the backend raises for, and which of links, annotations and forms  *)
(* it has. Layers are never looked at by this provider.                        *)
EXTENDS PdfExtract

Features == {"text", "images", "vectors", "links", "annotations", "forms", "layers"}

(* What a public caller may ask: limit is max_pages_to_inspect or None. *)
AllPages == [all |-> TRUE, limit |-> None, strategy |-> "first"]

RoundHalfEven(a, b) ==
    LET q == a \div b
        r == 2 * (a % b)
    IN  IF r > b \/ (r = b /\ q % 2 = 1) THEN q + 1 ELSE q

SamplePageIndexes(total, options) ==
    LET limit == IF options.limit = None THEN total ELSE Lesser(options.limit, total)
        First == [i \in 1 .. limit |-> i - 1]
        Spread == {RoundHalfEven(i * (total - 1), limit - 1) : i \in 0 .. limit - 1}
    IN  CASE options.all /\ limit = total -> First
          [] ~(options.all /\ limit = total) /\ options.strategy = "first_middle_last" ->
                Upto(Ascending({0, total \div 2, total - 1}), limit)
          [] ~(options.all /\ limit = total) /\ options.strategy = "uniform" /\ limit > 1 ->
                Ascending(Spread)
          [] OTHER -> First

(* How many of a feature the backend reports. Text is counted with the spaces around it *)
(* taken off; a glyph without Unicode counts as a replacement character.               *)
HintCount(page, feature) ==
    CASE feature = "text" ->
            Cardinality({n \in 1 .. (IF page.text = None THEN 0 ELSE Len(SpansOf(page.text))) :
                           \E c \in ToSet(SpansOf(page.text)[n].raw.chars) : c # "space"})
      [] feature = "images" -> Len(page.images)
      [] feature = "vectors" -> Len(page.drawings)
      [] OTHER -> IF feature \in page.extras THEN 1 ELSE 0
(* Mutant: what the backend raises for counts as absent. *)
StateIgnoringErrors(page, feature) ==
    CASE feature = "layers" -> "unsupported"
      [] feature # "layers" /\ feature \in page.fails -> "absent"
      [] OTHER -> IF HintCount(page, feature) > 0 THEN "present" ELSE "absent"
StateOf(page, feature) ==
    CASE feature = "layers" -> "unsupported"
      [] feature # "layers" /\ feature \in page.fails -> "unknown"
      [] OTHER -> IF HintCount(page, feature) > 0 THEN "present" ELSE "absent"

(* get_basic_geometry: the canonical page, or the size the backend shows (nothing is known *)
(* of a page without either).                                                             *)
ShownSize(page) == IF page.rect = None THEN Point(0, 0) ELSE Point(Width(page.rect), Height(page.rect))
PageGeometry(page) ==
    IF page.geometry.media = None
    THEN [size |-> ShownSize(page), rotation |-> page.geometry.rotation, canonical |-> None]
    ELSE [size |-> Canonical(page.geometry).size, rotation |-> page.geometry.rotation,
          canonical |-> Canonical(page.geometry)]
(* What get_basic_geometry survives. *)
BasicGeometryAccepted(page) ==
    IF page.geometry.media = None THEN PageGeometryAccepted(PageGeometry(page))
    ELSE GeometryAccepted(page.geometry)

ResourceCount(page) ==
    LET known == (Features \ {"layers"}) \ page.fails IN
    IF known = {} THEN None ELSE FoldSet(LAMBDA f, sum : sum + HintCount(page, f), 0, known)
InspectPage(doc, p) ==
    LET page == PageAt(doc, p) IN
    [page |-> p, geometry |-> PageGeometry(page),
     has |-> [f \in Features |-> StateOf(page, f)], resources |-> ResourceCount(page)]

(* A feature is present when some inspected page has it; a page of which nothing is known *)
(* keeps it from being absent. Pages that were not inspected do not.                      *)
Signal(status, count, pages) == [status |-> status, count |-> count, pages |-> pages]
SignalFromPages(pages, f) ==
    LET values == {pages[i].has[f] : i \in DOMAIN pages}
        having == SelectSeq(pages, LAMBDA page : page.has[f] = "present")
    IN  CASE having # <<>> ->
                Signal("present", Len(having), [i \in DOMAIN having |-> having[i].page])
          [] having = <<>> /\ "unsupported" \in values -> Signal("unsupported", None, <<>>)
          [] having = <<>> /\ "unsupported" \notin values /\ "unknown" \in values ->
                Signal("unknown", None, <<>>)
          [] OTHER -> Signal("absent", 0, <<>>)
FeatureInventory(pages) == [f \in Features |-> SignalFromPages(pages, f)]
(* Nothing was looked at. *)
EmptyInventory == [f \in Features |-> Signal("not_inspected", None, <<>>)]

Extent(sizes) ==
    IF sizes = {} THEN [least |-> None, most |-> None]
    ELSE [least |-> Least(sizes), most |-> Greatest(sizes)]
InspectionSummary(total, pages) ==
    LET Count(Test(_)) == Len(SelectSeq(pages, Test))
        sizes == {pages[i].geometry.size : i \in DOMAIN pages}
        sized == sizes \ {Point(0, 0)}
    IN  [total |-> total, inspected |-> Len(pages),
         notInspected |-> Greater(total - Len(pages), 0),
         empty |-> Count(LAMBDA page : \A f \in {"text", "images", "vectors"} : page.has[f] = "absent"),
         with |-> [f \in {"text", "images", "vectors", "annotations", "forms"} |->
                     Count(LAMBDA page : page.has[f] = "present")],
         rotated |-> Count(LAMBDA page : Rotation(page.geometry.rotation) # 0),
         width |-> Extent({size.x : size \in sizes}), height |-> Extent({size.y : size \in sizes}),
         orientations |-> {IF size.x > size.y THEN "landscape" ELSE "portrait" : size \in sized},
         sampled |-> [i \in DOMAIN pages |-> pages[i].page]]

ResourceSummary(inventory) ==
    {f \in {"images", "vectors", "annotations", "forms", "layers"} :
        inventory[f].status = "unsupported"}

Coverage(total, pages) ==
    [total |-> total, inspected |-> Len(pages), complete |-> Len(pages) = total /\ total > 0,
     features |-> IF pages = <<>> THEN "not_inspected" ELSE "present"]

Integrity(total) == IF total = 0 THEN "invalid" ELSE "valid"
Security(status, authenticated) == [status |-> status, authenticated |-> authenticated]
SecurityOf(unlocked) ==
    IF unlocked THEN Security("encrypted_unlocked", "present")
    ELSE Security("not_encrypted", "not_applicable")
SecurityFromProbe(state) ==
    Security(IF state \in {"password_required", "invalid_password"} THEN state ELSE "unknown", "unknown")

TechnicalProfile(inventory) ==
    LET On(f) == inventory[f].status = "present" IN
    CASE On("forms") -> "form_document"
      [] ~On("forms") /\ (On("links") \/ On("annotations")) -> "interactive"
      [] ~On("forms") /\ ~On("links") /\ ~On("annotations") ->
            CASE On("text") /\ On("images") -> "mixed"
              [] On("text") /\ ~On("images") -> "digital_text"
              [] ~On("text") /\ On("images") -> "image_based"
              [] ~On("text") /\ ~On("images") ->
                    IF On("vectors") THEN "vector_dominant" ELSE "unknown"

Recommendations(inventory, security, integrity, coverage) ==
    (IF security.status = "password_required" THEN {"provide a password"} ELSE {})
    \cup (IF integrity = "valid" THEN {} ELSE {"avoid heavy parsing"})
    \cup (IF coverage.inspected < coverage.total \/ coverage.total = 0
          THEN {"inspection is partial"} ELSE {})
    \cup (IF inventory["text"].status = "unsupported" THEN {"text support"} ELSE {})

InspectionOf(total, pages, security, inventory, coverage) ==
    [integrity |-> Integrity(total), summary |-> InspectionSummary(total, pages),
     features |-> inventory, resources |-> ResourceSummary(inventory), pages |-> pages,
     security |-> security, coverage |-> coverage, profile |-> TechnicalProfile(inventory),
     recommendations |-> Recommendations(inventory, security, Integrity(total), coverage),
     warnings |-> <<>>]
BuildInspection(total, pages, unlocked) ==
    InspectionOf(total, pages, SecurityOf(unlocked), FeatureInventory(pages), Coverage(total, pages))

(* The answer for a document that was not opened: nothing of it was inspected. *)
NotInspected(security, integrity) ==
    [integrity |-> integrity, summary |-> InspectionSummary(0, <<>>),
     features |-> EmptyInventory, resources |-> ResourceSummary(EmptyInventory), pages |-> <<>>,
     security |-> security, coverage |-> Coverage(0, <<>>), profile |-> "unknown",
     recommendations |-> {}, warnings |-> <<>>]
ProbeOnlyInspection(state) ==
    NotInspected(SecurityFromProbe(state), IF state = "not_pdf" THEN "invalid" ELSE "inconclusive")
FailedOpenInspection(error) ==
    IF error = "corrupted" THEN NotInspected(Security("unknown", "unknown"), "corrupted")
    ELSE NotInspected(Security(error, IF error = "invalid_password" THEN "absent" ELSE "unknown"),
                      "inconclusive")

(* The pages a scene can be made for: those inspected that have a canonical geometry. *)
PageGeometries(inspection) ==
    LET bounded == {i \in DOMAIN inspection.pages : inspection.pages[i].geometry.canonical # None} IN
    [p \in {inspection.pages[i].page : i \in bounded} |->
        inspection.pages[CHOOSE i \in bounded : inspection.pages[i].page = p].geometry.canonical]

(* What the models of the inspection refuse, the request does not survive. *)
InspectionAccepted(inspection) ==
    /\ \A page \in ToSet(inspection.pages) : PageInspectionAccepted(page)
    /\ \A f \in Features : FeatureSignalAccepted(inspection.features[f])
    /\ PageSummaryAccepted(inspection.summary) /\ CoverageAccepted(inspection.coverage)

=============================================================================
