------------------------------ MODULE PdfScene ------------------------------
(* PDFPageSceneBuilder (scene_builder.py) and the scenes it builds (scene.py): *)
(* one scene per selected page out of the artifacts of the provider. The id of *)
(* an element is <<kind, id of what it comes from>>. With this provider the    *)
(* interactive artifact has no element, so links, annotations, widgets and     *)
(* layers do not appear; glyphs, words, spans, lines and blocks are given      *)
(* without the box they are shown in.                                          *)
EXTENDS PdfGraphics

CONSTANT MaxElements    \* PDFPageSceneOptions.max_elements_per_page

ASSUME MaxElementsAssumption == MaxElements \in Nat \ {0}

(* Element kinds in the order their identifiers sort as strings. *)
Kinds == <<"clipping_path", "image", "text_block", "text_glyph", "text_line",
           "text_span", "text_word", "vector">>
TextKinds == {"text_block", "text_line", "text_span", "text_word", "text_glyph"}

OrderMethod(order, native) ==
    CASE order # None -> "global_paint_order"
      [] order = None /\ native # None -> "element_collection_order"
      [] OTHER -> "unavailable"
(* The provider calls every paint order it gives an approximation. *)
OrderConfidence(order, native) ==
    CASE order # None -> "provider_approximation"
      [] order = None /\ native # None -> "derived"
      [] OTHER -> "unavailable"

(* order is the global paint order of the source, None without one; native its order *)
(* in the collection it comes from.                                                  *)
Element(kind, source, order, native, visibility, resources, clip) ==
    [id |-> <<kind, source>>, kind |-> kind, source |-> source, order |-> order,
     native |-> native, method |-> OrderMethod(order, native),
     confidence |-> OrderConfidence(order, native), visibility |-> visibility,
     resources |-> resources \ {None}, clip |-> clip, fraction |-> None, scene |-> None]
(* The fraction of the page the provider gave, else what the page leaves of the box. *)
Placed(element, fraction, box, geometry) ==
    [element EXCEPT !.fraction = IF fraction # None THEN fraction
                                 ELSE IF box = None THEN None
                                 ELSE ClampedBox(box, geometry.size)]

Always(x) == TRUE
Never(x) == FALSE
Nothing(x) == {}
Styled(x) == {x.font, x.style}
Collection(s, kind, Painted(_), Visible(_), Uses(_)) ==
    [i \in DOMAIN s |->
        Element(kind, s[i].id, IF Painted(i) THEN i - 1 ELSE None, i - 1,
                IF Visible(s[i]) THEN "visible" ELSE "invisible", Uses(s[i]), None)]
TextBlockElements(layer) == Collection(layer.blocks, "text_block", Never, Always, Nothing)
TextLineElements(layer) == Collection(layer.lines, "text_line", Never, Always, Nothing)
TextSpanElements(layer) == Collection(layer.spans, "text_span", Always, Always, Styled)
TextWordElements(layer) == Collection(layer.words, "text_word", Never, Always, Nothing)
TextGlyphElements(layer) ==
    Collection(layer.glyphs, "text_glyph", Always, LAMBDA g : g.visibility = "visible", Styled)
TextElements(p, text) ==
    LET Of(l) == TextBlockElements(l) \o TextLineElements(l) \o TextSpanElements(l)
                 \o TextWordElements(l) \o TextGlyphElements(l)
        layers == At(text.pages, {i \in DOMAIN text.pages : text.pages[i].page = p})
    IN  FlattenSeq([i \in DOMAIN layers |-> Of(layers[i])])

ImageElement(o, geometry) ==
    Placed(Element("image", o.id, o.order, o.order,
                   IF o.visibility = "visible" THEN "visible" ELSE "partially_visible",
                   {o.resource}, None),
           o.fraction, o.box, geometry)
ImageElements(p, images, geometry) ==
    LET all  == images.occurrences
        here == At(all, {i \in DOMAIN all : all[i].page = p}) IN
    [i \in DOMAIN here |-> ImageElement(here[i], geometry)]

VectorElement(v, geometry) ==
    Placed(Element("vector", v.id, v.order, None,
                   IF v.visibility = "visible" THEN "visible" ELSE "not_painted",
                   {v.state}, v.clip),
           v.fraction, v.box, geometry)
(* Clipping paths have neither a paint order nor a native one: they stay unordered. *)
ClipElement(c, geometry) ==
    Placed(Element("clipping_path", c.id, None, None, "not_painted", {}, c.parent),
           None, c.box, geometry)
VectorElements(p, vectors, geometry) ==
    LET Here(all) == At(all, {i \in DOMAIN all : all[i].page = p})
        here  == Here(vectors.vectors)
        clips == Here(vectors.clips)
    IN  [i \in DOMAIN here |-> VectorElement(here[i], geometry)]
        \o [i \in DOMAIN clips |-> ClipElement(clips[i], geometry)]

Collected(p, text, images, vectors, geometry) ==
    TextElements(p, text) \o ImageElements(p, images, geometry)
    \o VectorElements(p, vectors, geometry)

(* Mutant: an element of a page named twice is kept twice. *)
Repeated(elements) == elements
Deduplicated(elements) == FirstOfEachId(elements)
DuplicateWarnings(elements) ==
    LET again == At(elements, {i \in DOMAIN elements :
                                 \E j \in 1 .. i - 1 : elements[j].id = elements[i].id})
    IN  [i \in DOMAIN again |-> Warning("duplicate_element_id", again[i].id)]

-----------------------------------------------------------------------------
(* The scene order: by paint order first (the provider's local and global order *)
(* are the same number), then by native order, then by identifier: by its number *)
(* here and by its text in the code, which is the same up to nine.               *)

HasOrder(e) == e.order # None \/ e.native # None
KindRank(e) == CHOOSE k \in DOMAIN Kinds : Kinds[k] = e.kind
(* Mutant: paint orders decide alone. *)
PaintedBefore(e, f) == e.order # None /\ (f.order = None \/ e.order < f.order)
Precedes(e, f) ==
    LET Native(x) == IF x.native = None THEN 0 ELSE x.native
        SameOrder == e.order = f.order
        Tie == /\ SameOrder
               /\ \/ Native(e) < Native(f)
                  \/ Native(e) = Native(f) /\ KindRank(e) < KindRank(f)
                  \/ Native(e) = Native(f) /\ KindRank(e) = KindRank(f) /\ e.source[3] < f.source[3]
    IN  \/ e.order # None /\ (f.order = None \/ e.order < f.order)
        \/ Tie

(* Every ordered element gets its rank among the ordered ones. *)
ApplySceneOrder(elements) ==
    LET Before(i) == {j \in DOMAIN elements :
                        HasOrder(elements[j]) /\ Precedes(elements[j], elements[i])}
    IN  [i \in DOMAIN elements |->
            IF HasOrder(elements[i])
            THEN [elements[i] EXCEPT !.scene = Cardinality(Before(i))] ELSE elements[i]]

(* What begins with a text is told to use fonts, whatever it uses. *)
ResourceRelationType(element) ==
    CASE element.kind \in TextKinds -> "uses_font"
      [] element.kind = "image" -> "uses_image"
      [] OTHER -> "uses_graphics_state"
SceneRelations(elements) ==
    LET All == ToSet(elements)
        Ordered == {e \in All : e.scene # None}
    IN  {<<e.id, "derived_from", e.source>> : e \in All}
        \cup (UNION {{<<e.id, ResourceRelationType(e), r>> : r \in e.resources} : e \in All})
        \cup {<<e.id, "clipped_by", e.clip>> : e \in {f \in All : f.clip # None}}
        \cup {<<pair[1].id, "painted_before", pair[2].id>> :
                pair \in {q \in Ordered \X Ordered : q[2].scene = q[1].scene + 1}}

IdsFor(elements, kinds) == {e.id : e \in {f \in ToSet(elements) : f.kind \in kinds}}
ResourceReferences(resources, elements) ==
    ToSet(resources) \cup UNION {e.resources : e \in ToSet(elements)}
(* No warning of a page speaks of something unresolved or missing. *)
StatisticsOfScene(elements) ==
    LET Count(Test(_)) == Len(SelectSeq(elements, Test)) IN
    [elements |-> Len(elements), texts |-> Count(LAMBDA e : e.kind \in TextKinds),
     images |-> Count(LAMBDA e : e.kind = "image"), vectors |-> Count(LAMBDA e : e.kind = "vector"),
     clips |-> Count(LAMBDA e : e.kind = "clipping_path"),
     invisible |-> Count(LAMBDA e : e.visibility # "visible"),
     unordered |-> Count(LAMBDA e : e.scene = None), unresolved |-> 0]

SceneOf(p, geometry, resources, elements, warnings) ==
    [page |-> p, size |-> geometry.size, elements |-> elements,
     texts |-> IdsFor(elements, TextKinds), images |-> IdsFor(elements, {"image"}),
     vectors |-> IdsFor(elements, {"vector"}), clips |-> IdsFor(elements, {"clipping_path"}),
     relations |-> SceneRelations(elements),
     resources |-> ResourceReferences(resources, elements),
     statistics |-> StatisticsOfScene(elements), warnings |-> warnings]

(* The limit cuts what was collected last: clips, vectors, images, then glyphs. *)
Limited(p, geometry, resources, unique, duplicates) ==
    SceneOf(p, geometry, resources, ApplySceneOrder(Upto(unique, MaxElements)),
            duplicates \o (IF Len(unique) > MaxElements
                           THEN <<Warning("scene_partial", p)>> ELSE <<>>))
BuildPage(p, geometry, resources, text, images, vectors) ==
    LET From(collected) == Limited(p, geometry, resources, Deduplicated(collected),
                                   DuplicateWarnings(collected))
    IN  From(Collected(p, text, images, vectors, geometry))

IsPartial(scene) == \E i \in DOMAIN scene.warnings : scene.warnings[i].code = "scene_partial"
StatisticsOfScenes(scenes) ==
    LET Sum(Of(_)) == FoldLeft(LAMBDA sum, s : sum + Of(s.statistics), 0, scenes) IN
    [pages |-> Len(scenes), elements |-> Sum(LAMBDA t : t.elements),
     unresolved |-> Sum(LAMBDA t : t.unresolved), partial |-> Len(SelectSeq(scenes, IsPartial))]

(* The pages in the order of the document. The clock stops the loop before page stop     *)
(* (the number of pages when it does not). A page without geometry gets no scene.         *)
(* geometries has the canonical geometry of every page that was inspected and has one.    *)
PageScenes(structure, geometries, text, images, vectors, options, stop) ==
    LET n == Len(structure.pages)
        selected == ToSet(SelectedPages(n, options.pages))
        reached  == {p \in 0 .. n - 1 : p \in selected /\ p < stop}
        built    == Ascending(reached \cap DOMAIN geometries)
        bare     == Ascending(reached \ DOMAIN geometries)
        With(scenes) ==
            [pages |-> scenes, statistics |-> StatisticsOfScenes(scenes),
             warnings |-> [i \in DOMAIN bare |-> Warning("page_geometry_missing", bare[i])]
                          \o (IF \E p \in selected : p >= stop
                              THEN <<Warning("scene_partial", None)>> ELSE <<>>)]
    IN  With([i \in DOMAIN built |->
                BuildPage(built[i], geometries[built[i]], structure.pages[built[i] + 1].resources,
                          text, images, vectors)])

(* What the models of the scenes refuse, the request does not survive. *)
ScenesAccepted(scenes) ==
    /\ \A scene \in ToSet(scenes.pages) :
          /\ PageSceneAccepted(scene) /\ scene.statistics \in PageSceneStatistics
          /\ \A element \in ToSet(scene.elements) : VisualElementAccepted(element)
    /\ scenes.statistics \in ScenesStatistics

=============================================================================
