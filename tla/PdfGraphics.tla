----------------------------- MODULE PdfGraphics -----------------------------
(* The images and the vectors the PyMuPDF provider (provider.py) takes out of  *)
(* an open document.                                                           *)
EXTENDS PdfExtract

-----------------------------------------------------------------------------
(* Native images: the resources of the catalog and where the pages show them. *)
(* What a page shows is [xref, box].                                          *)

(* Encoded bytes are asked of the backend for the FULL_FIDELITY profile only. *)
BinaryOf(doc, r, options) ==
    IF options.encoded /\ r.xref > 0 THEN doc.bytes[r.xref] ELSE "none"
BinaryWarnings(doc, resources, options) ==
    LET asked == SelectSeq(resources, LAMBDA r :
                    options.encoded /\ r.xref > 0 /\ BinaryOf(doc, r, options) # "ok") IN
    [i \in DOMAIN asked |->
        Warning(IF BinaryOf(doc, asked[i], options) = "big" THEN "image_too_large"
                ELSE "image_bytes_unavailable", asked[i].id)]

(* The resource a descriptor stands for, told by the type of its reference, and whether its *)
(* encoded bytes came with it.                                                               *)
ImageFromDescriptor(r, binary) ==
    r @@ [kind |-> IF r.id[1] = "mask" THEN "soft_mask" ELSE "image_xobject",
          transparent |-> r.mask # None, encoded |-> binary = "ok"]

ResourceForXref(resources, xref) ==
    LET Same == {i \in DOMAIN resources : xref > 0 /\ resources[i].xref = xref} IN
    IF Same = {} THEN None ELSE resources[Min(Same)]

(* Pixels of the resource at 72 to the inch over the length they are shown at. *)
EffectiveDpi(resource, box) ==
    IF box = None \/ resource.width = None \/ resource.height = None THEN <<None, None>>
    ELSE IF ~HasArea(box) THEN <<None, None>>
    ELSE <<[of |-> resource.width * 72, per |-> Width(box)],
           [of |-> resource.height * 72, per |-> Height(box)]>>

(* What include_invisible_images = False leaves out is everything not wholly inside. *)
PageOccurrences(p, page, hidden, resources) ==
    FlattenSeq([i \in DOMAIN page.shown |->
        LET r   == ResourceForXref(resources, page.shown[i].xref)
            box == page.shown[i].box
        IN  IF r = None \/ (Visibility(box, page.rect) # "visible" /\ ~hidden) THEN <<>>
            ELSE <<[id |-> <<"image", p, i>>, page |-> p, resource |-> r.id, order |-> i - 1,
                    box |-> box, fraction |-> NormalizedBox(box, page.rect),
                    visibility |-> Visibility(box, page.rect), dpi |-> EffectiveDpi(r, box)]>>])

UnresolvedWarnings(p, page, resources) ==
    FlattenSeq([i \in DOMAIN page.shown |->
        IF ResourceForXref(resources, page.shown[i].xref) # None THEN <<>>
        ELSE <<Warning("unresolved_resource", <<p, i>>)>>])

ImageStatisticsOf(resources, occurrences) ==
    LET Uses(r) == Cardinality({i \in DOMAIN occurrences : occurrences[i].resource = r.id})
        Count(Test(_)) == Len(SelectSeq(resources, Test))
    IN  [resources |-> Len(resources), occurrences |-> Len(occurrences),
         softMasks |-> Count(LAMBDA r : r.mask # None),
         invisible |-> Len(SelectSeq(occurrences, LAMBDA o : o.visibility # "visible")),
         reused |-> Count(LAMBDA r : Uses(r) > 1)]

Occurrences(doc, selected, hidden, resources) ==
    FoldLeft(LAMBDA sofar, p :
                sofar \o Upto(PageOccurrences(p, PageAt(doc, p), hidden, resources),
                              IF Len(sofar) < MaxOccurrences THEN MaxOccurrences - Len(sofar) ELSE 0),
             <<>>, selected)
NativeImages(doc, options, structure) ==
    LET found     == Upto(structure.images \o structure.masks, MaxImages)
        resources == [i \in DOMAIN found |->
                        ImageFromDescriptor(found[i], BinaryOf(doc, found[i], options))]
        selected  == SelectedPages(Len(doc.pages), options.pages)
        occurrences == Occurrences(doc, selected, options.hidden, resources)
        unused == SelectSeq(resources, LAMBDA r :
                    \A i \in DOMAIN occurrences : occurrences[i].resource # r.id)
    IN  [resources |-> resources,
         masks |-> {resources[i].mask : i \in DOMAIN resources} \ {None},
         binaries |-> {r \in ToSet(resources) : r.encoded},
         occurrences |-> occurrences,
         statistics |-> ImageStatisticsOf(resources, occurrences),
         warnings |-> BinaryWarnings(doc, resources, options)
                      \o FlattenSeq([i \in DOMAIN selected |->
                            UnresolvedWarnings(selected[i], PageAt(doc, selected[i]), resources)])
                      \o [i \in DOMAIN unused |-> Warning("without_occurrence", unused[i].id)]]

(* What the models of the images refuse, the extraction does not survive. *)
ImagesAccepted(images) ==
    /\ \A resource \in ToSet(images.resources) : ImageResourceAccepted(resource)
    /\ \A occurrence \in ToSet(images.occurrences) :
          OccurrenceAccepted(occurrence)
          /\ (occurrence.fraction # None => NormalizedAccepted(occurrence.fraction))
    /\ images.statistics \in ImageStatistics

-----------------------------------------------------------------------------
(* Native vectors. A drawing is [type, fill, color, width, dashes, fillOpacity, *)
(* strokeOpacity, rect, seqno, matrix, items]; fill and color tell whether the   *)
(* backend gives one. An item is [op, box] with op "m", "l", "c", "re", "h",     *)
(* "qu" or something that is not mapped, and the box of its points.              *)

PaintIntent(d) ==
    LET filled  == d.fill \/ d.type \in {"f", "fs"}
        stroked == d.color \/ d.type \in {"s", "fs"}
    IN  CASE d.type = "clip" -> "clipping"
          [] d.type # "clip" /\ filled /\ stroked -> "fill_and_stroke"
          [] d.type # "clip" /\ filled /\ ~stroked -> "fill"
          [] d.type # "clip" /\ ~filled /\ stroked -> "stroke"
          [] OTHER -> "none"

(* Items are read until the limit of commands is reached. *)
Mapped(item) == item.op \in {"m", "l", "c", "h", "qu"} \/ (item.op = "re" /\ item.box # None)
ReadItems(items) ==
    SelectSeq([i \in DOMAIN items |-> [item |-> items[i],
                 before |-> Cardinality({j \in 1 .. i - 1 : Mapped(items[j])})]],
              LAMBDA r : r.before < MaxCommands)
Commands(items) ==
    LET mapped == SelectSeq(ReadItems(items), LAMBDA r : Mapped(r.item)) IN
    [i \in DOMAIN mapped |-> mapped[i].item]
(* A move opens another subpath. *)
Subpaths(commands) ==
    Cardinality({i \in DOMAIN commands : i = 1 \/ commands[i].op = "m"})

(* classify_vector_shape; a quad becomes a line of more than two points. *)
CommandType(command) == IF command.op = "qu" THEN "l" ELSE command.op
Shape(commands) ==
    LET types == [i \in DOMAIN commands |-> CommandType(commands[i])]
        Of(type) == {i \in DOMAIN types : types[i] = type}
        line == types = <<"m", "l">> \/ (Len(commands) = 1 /\ commands[1].op = "l")
    IN  IF Subpaths(commands) > 1 THEN "compound"
        ELSE IF Of("c") # {} THEN "bezier"
        ELSE IF line THEN "line"
        ELSE IF Of("re") # {} THEN "rectangle"
        ELSE IF Cardinality(Of("l")) >= 2 THEN "polygon" ELSE "unknown"

DrawingBox(d, commands) ==
    IF d.rect # None THEN d.rect
    ELSE Cover({commands[i].box : i \in DOMAIN commands} \ {None})

(* _dash_values: the numbers in what is written, the last one being the phase. The regular *)
(* expression does not know exponents: 1e-05 reads as the two numbers 1 and -05.           *)
Dashes(written) ==
    LET numbers == FlattenSeq([i \in DOMAIN written |->
                      IF written[i].exponent = None THEN <<written[i].digits>>
                      ELSE <<written[i].digits, written[i].exponent>>])
    IN  IF numbers = <<>> THEN [array |-> <<>>, phase |-> None]
        ELSE [array |-> Front(numbers), phase |-> Last(numbers)]

FillStyle(d) ==
    LET enabled == PaintIntent(d) \in {"fill", "fill_and_stroke"} IN
    IF ~enabled /\ ~d.fill THEN None ELSE [enabled |-> enabled, opacity |-> d.fillOpacity]
StrokeStyle(d) ==
    LET enabled == PaintIntent(d) \in {"stroke", "fill_and_stroke"} IN
    IF ~enabled /\ ~d.color /\ d.width = None THEN None
    ELSE [enabled |-> enabled, width |-> d.width, opacity |-> d.strokeOpacity,
          dashes |-> Dashes(d.dashes).array, phase |-> Dashes(d.dashes).phase]

(* One state for each drawing, kept when the drawing is not. *)
GraphicsState(p, index, clip, fill, stroke) ==
    [id |-> <<"state", p, index>>, clip |-> clip, fill |-> fill, stroke |-> stroke]
Opacities(state) == {style.opacity : style \in {state.fill, state.stroke} \ {None}} \ {None}

(* Opaque unless every opacity that is told is zero. *)
VectorVisibility(intent, opacities, box, rect) ==
    CASE intent \in {"clipping", "none"} -> "not_painted"
      [] intent \notin {"clipping", "none"} /\ opacities = {0} -> "zero_opacity"
      [] OTHER -> Visibility(box, rect)

VectorSignals(commands, box, intent) ==
    IF box = None \/ intent = "clipping" THEN {}
    ELSE IF Width(box) <= 1 \/ Height(box) <= 1 THEN {"possible_separator"}
    ELSE IF \E i \in DOMAIN commands : commands[i].op = "re" THEN {"possible_background_shape"}
    ELSE {}

DrawingWarnings(d, id) ==
    LET read == ReadItems(d.items) IN
    [i \in 1 .. Len(SelectSeq(read, LAMBDA r : ~Mapped(r.item))) |->
        Warning("operation_unresolved", id)]
    \o (IF Len(read) < Len(d.items) THEN <<Warning("path_command_limit", id)>> ELSE <<>>)
    \o (IF Singular(d.matrix) THEN <<Warning("transform_invalid", id)>> ELSE <<>>)

(* The drawing at index local of its page; rect is the box of the page. *)
PathOf(p, d, local, index, state, rect, commands, box) ==
    [id |-> <<"vector", p, index>>, page |-> p, intent |-> PaintIntent(d), clip |-> state.clip,
     order |-> IF d.seqno = None THEN local - 1 ELSE d.seqno,
     visibility |-> VectorVisibility(PaintIntent(d), Opacities(state), box, rect),
     commands |-> commands, subpaths |-> Subpaths(commands), shape |-> Shape(commands),
     fill |-> state.fill, stroke |-> state.stroke, state |-> state.id,
     box |-> box, fraction |-> NormalizedBox(box, rect),
     signals |-> VectorSignals(commands, box, PaintIntent(d))]
VectorPath(p, d, local, index, state, rect) ==
    LET Boxed(commands) ==
            PathOf(p, d, local, index, state, rect, commands, DrawingBox(d, commands))
    IN  Boxed(Commands(d.items))
ClipPath(p, vector, index, parent) ==
    [id |-> <<"clip", p, index>>, page |-> p, parent |-> parent, box |-> vector.box,
     chain |-> IF parent = None THEN <<<<"clip", p, index>>>> ELSE <<parent, <<"clip", p, index>>>>]

Noted(acc, d, v, state) ==
    [acc EXCEPT !.warnings = @ \o DrawingWarnings(d, v.id), !.states = Append(@, state)]
DrawnOn(acc, v) == [acc EXCEPT !.vectors = Append(@, v), !.ordered = Append(@, v.id)]
Clipped(acc, v, c) ==
    [acc EXCEPT !.vectors = Append(@, v), !.clips = Append(@, c),
                !.ordered = Append(@, c.id), !.current = c.id]
(* A clip applies to every later drawing of its page. *)
Draw(acc, v, c, hidden) ==
    IF v.intent = "clipping" THEN Clipped(acc, v, c)
    ELSE IF v.visibility # "visible" /\ ~hidden THEN acc ELSE DrawnOn(acc, v)

(* One drawing, and one page. Indexes go on from the pages before (first), so identifiers *)
(* depend on them: a vector is numbered by its place among all drawings of the page, the   *)
(* next page goes on from the vectors that were kept.                                      *)
DrawNext(p, page, hidden, first, drawn, at) ==
    LET Take(acc, d, v, state) ==
            Draw(Noted(acc, d, v, state), v,
                 ClipPath(p, v, first.clips + Len(acc.clips) + 1, acc.current), hidden)
        With(acc, d, i, state) ==
            Take(acc, d, VectorPath(p, d, i, first.vectors + i, state, page.rect), state)
    IN  With(drawn, page.drawings[at], at,
             GraphicsState(p, first.states + at, drawn.current,
                           FillStyle(page.drawings[at]), StrokeStyle(page.drawings[at])))
VectorLayer(p, page, hidden, first) ==
    FoldLeft(LAMBDA acc, i : DrawNext(p, page, hidden, first, acc, i),
             [vectors |-> <<>>, clips |-> <<>>, ordered |-> <<>>, current |-> None,
              warnings |-> <<>>, states |-> <<>>],
             [i \in DOMAIN Upto(page.drawings, MaxPaths) |-> i])

AddLayer(acc, layer) ==
    [vectors |-> acc.vectors \o layer.vectors, clips |-> acc.clips \o layer.clips,
     states |-> acc.states \o layer.states, layers |-> Append(acc.layers, layer.ordered),
     warnings |-> acc.warnings \o layer.warnings]
LayersOf(doc, options) ==
    FoldLeft(LAMBDA acc, p : AddLayer(acc, VectorLayer(p, PageAt(doc, p), options.hidden,
                    [vectors |-> Len(acc.vectors), clips |-> Len(acc.clips),
                     states |-> Len(acc.states)])),
             [vectors |-> <<>>, clips |-> <<>>, states |-> <<>>, layers |-> <<>>, warnings |-> <<>>],
             SelectedPages(Len(doc.pages), options.pages))

(* No operation of a content stream is known, so every drawing counts as unresolved. *)
VectorStatisticsOf(layers) ==
    LET painted == SelectSeq(layers.vectors, LAMBDA v : v.intent # "clipping")
        Shaped(shape) == Len(SelectSeq(painted, LAMBDA v : v.shape = shape))
        curves == [i \in DOMAIN painted |->
                      Len(SelectSeq(painted[i].commands, LAMBDA c : c.op = "c"))]
    IN  [paths |-> Len(layers.vectors), lines |-> Shaped("line"),
         rectangles |-> Shaped("rectangle"), polygons |-> Shaped("polygon"),
         curves |-> FoldLeft(+, 0, curves), clips |-> Len(layers.clips),
         unresolved |-> Len(layers.states),
         invisible |-> Len(SelectSeq(layers.vectors, LAMBDA v : v.visibility # "visible"))]

NativeVectors(doc, options) ==
    LET Counted(layers) ==
            [vectors |-> layers.vectors, clips |-> layers.clips, states |-> layers.states,
             layers |-> layers.layers, statistics |-> VectorStatisticsOf(layers),
             warnings |-> layers.warnings]
    IN  Counted(LayersOf(doc, options))

(* What the models of the vectors refuse, the extraction does not survive. *)
VectorsAccepted(vectors) ==
    /\ \A state \in ToSet(vectors.states) :
          /\ state.fill # None => FillStyleAccepted(state.fill)
          /\ state.stroke # None => StrokeStyleAccepted(state.stroke)
          /\ GraphicsStateAccepted(state)
    /\ \A vector \in ToSet(vectors.vectors) :
          vector.fraction # None => NormalizedAccepted(vector.fraction)
    /\ vectors.statistics \in VectorStatistics

=============================================================================
