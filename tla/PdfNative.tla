----------------------------- MODULE PdfNative ------------------------------
(* NativePDFSceneArtifactBuilder (native_scene_builder.py): the artifact that  *)
(* consolidates the page scenes and all they were built from. With this        *)
(* provider no artifact carries a document id or a source hash of its own, so  *)
(* the compatibility checks can only report that no page scene is there. from  *)
(* has the artifacts the scene is made of, by their kinds.                     *)
EXTENDS PdfScene, PdfInteractive

(* Levels from the worst to the best, as the two priority tables list them. *)
Fidelities == <<"unsupported", "unknown", "raster_only", "heuristic",
                "provider_reconstructed", "eixo_derived", "native_normalized", "native_exact">>
Editabilities == <<"not_editable", "unknown", "raster_only", "reconstruction_required",
                   "partially_editable", "native_editable">>
Rank(scale, x) == CHOOSE i \in DOMAIN scale : scale[i] = x
Dominant(scale, values) ==
    IF values = {} THEN "unknown" ELSE scale[Min({Rank(scale, x) : x \in values})]

(* What the scene builder says of each kind of element. *)
FidelityOf(kind) ==
    CASE kind \in {"text_block", "text_line", "vector", "clipping_path"} -> "provider_reconstructed"
      [] kind \in {"text_span", "image"} -> "native_normalized"
      [] kind = "text_word" -> "eixo_derived"
      [] kind = "text_glyph" -> "native_exact"
EditabilityOf(kind) ==
    CASE kind \in {"text_block", "text_line", "clipping_path"} -> "unknown"
      [] kind \in {"text_span", "text_word", "text_glyph"} -> "partially_editable"
      [] kind = "image" -> "raster_only"
      [] kind = "vector" -> "reconstruction_required"

SourceArtifacts(from) == DOMAIN from

(* What each kind of artifact says it could not do. *)
LimitationsOf ==
    [inspection |-> {}, structure |-> StructureLimitations, typography |-> TypographyLimitations,
     text |-> TextLimitations, images |-> ImageLimitations, vectors |-> VectorLimitations,
     interactive |-> InteractiveLimitations, scenes |-> SceneLimitations]
NativeLimitations(from) == ConsolidatedLimitations([k \in SourceArtifacts(from) |-> LimitationsOf[k]])

(* One entry per code, scope and source: what the list is reduced by. *)
Keyed(source, found) == {<<source, found[i].code, found[i].scope>> : i \in DOMAIN found}
SceneWarnings(scenes) ==
    scenes.warnings \o FlattenSeq([i \in DOMAIN scenes.pages |-> scenes.pages[i].warnings])
CompatibilityWarnings(scenes) ==
    IF scenes.pages = <<>> THEN <<Warning("source_missing", "scenes")>> ELSE <<>>
ConsolidatedWarnings(from) ==
    Keyed("compatibility", CompatibilityWarnings(from.scenes))
    \cup Keyed("scenes", SceneWarnings(from.scenes))
    \cup UNION {Keyed(source, from[source].warnings) : source \in SourceArtifacts(from) \ {"scenes"}}

AllElements(scenes) ==
    FlattenSeq([i \in DOMAIN scenes.pages |-> scenes.pages[i].elements])
KindsIn(elements) == {elements[i].kind : i \in DOMAIN elements}

(* Sums and pages are taken in the order of the page indexes, which the scenes have. *)
PageSummary(scene) ==
    [page |-> scene.page, elements |-> scene.statistics.elements,
     texts |-> scene.statistics.texts, images |-> scene.statistics.images,
     vectors |-> scene.statistics.vectors, warnings |-> Len(scene.warnings),
     fidelity |-> Dominant(Fidelities, {FidelityOf(k) : k \in KindsIn(scene.elements)}),
     editability |-> Dominant(Editabilities, {EditabilityOf(k) : k \in KindsIn(scene.elements)})]

CountsBy(levels, Of(_), elements) ==
    [level \in levels |-> Len(SelectSeq(elements, LAMBDA e : Of(e.kind) = level))]
(* Words, which are derived, count in none of the summary's numbers. *)
FidelityCountsOf(elements) == CountsBy(ToSet(Fidelities), FidelityOf, elements)
EditabilityCountsOf(elements) == CountsBy(ToSet(Editabilities), EditabilityOf, elements)

(* The fidelity of each dimension. Every page of a scene has a geometry. *)
GeometryLevel(scenes) == IF scenes.pages = <<>> THEN "unknown" ELSE "native_normalized"
FontLevel(from) ==
    IF "typography" \notin DOMAIN from THEN "unknown"
    ELSE IF \E font \in ToSet(from.typography.fonts) : font.embedded = "extraction_unavailable"
    THEN "provider_reconstructed" ELSE "native_normalized"
InteractionLevel(from) ==
    IF "interactive" \notin DOMAIN from THEN "unknown"
    ELSE IF from.interactive.limitations # {} THEN "provider_reconstructed" ELSE "native_normalized"
PaintOrderLevel(scenes) ==
    LET Sum(Of(_)) == FoldLeft(LAMBDA sum, s : sum + Of(s.statistics), 0, scenes.pages)
        unordered == Sum(LAMBDA t : t.unordered)
    IN  IF unordered = 0 THEN "native_normalized"
        ELSE IF unordered < Sum(LAMBDA t : t.elements) THEN "eixo_derived" ELSE "unknown"
LevelPresent(from, kinds) ==
    IF kinds \cap DOMAIN from # {} THEN "native_normalized" ELSE "unknown"
InspectionLevel(state) ==
    CASE state = "present" -> "native_normalized"
      [] state = "partial" -> "provider_reconstructed"
      [] state = "unsupported" -> "unsupported"
      [] OTHER -> "unknown"
(* The inspection calls its geometry partial, whatever it found. *)
FidelitySummary(from, limitations) ==
    LET Of(dimensions) ==
            [dimensions |-> dimensions, counts |-> FidelityCountsOf(AllElements(from.scenes)),
             critical |-> CriticalLimitations(limitations),
             overall |-> Dominant(Fidelities, {dimensions[d] : d \in DOMAIN dimensions})]
    IN  Of([geometry |-> GeometryLevel(from.scenes), text |-> LevelPresent(from, {"text"}),
            font |-> FontLevel(from), image |-> LevelPresent(from, {"images"}),
            vector |-> LevelPresent(from, {"vectors"}), interaction |-> InteractionLevel(from),
            paint_order |-> PaintOrderLevel(from.scenes),
            resource |-> LevelPresent(from, {"typography", "images", "vectors"}),
            inspection |-> InspectionLevel("partial")])

StatusForKinds(elements, kinds) ==
    Dominant(Editabilities, {EditabilityOf(k) : k \in KindsIn(elements) \cap kinds})
EditabilitySummary(elements) ==
    LET Of(each) == [each |-> each, counts |-> EditabilityCountsOf(elements),
                     overall |-> Dominant(Editabilities, {each[x] : x \in DOMAIN each})]
    IN  Of([text |-> StatusForKinds(elements, TextKinds),
            image |-> StatusForKinds(elements, {"image"}),
            vector |-> StatusForKinds(elements, {"vector"}),
            form |-> StatusForKinds(elements, {"form_widget"})])

(* _image_resource_count and its like: a statistic of 0 counts as none given. *)
GivenOr(statistic, found) == IF statistic # 0 THEN statistic ELSE Len(found)
Statistics(summaries, from, warnings, limitations, fidelity) ==
    LET Total(Of(_)) == FoldLeft(LAMBDA sum, s : sum + Of(s), 0, summaries)
        interactive == from.interactive
        Given(kind) == GivenOr(interactive.statistics[kind], interactive[kind])
    IN
    [pages |-> Len(summaries), scenes |-> Len(from.scenes.pages),
     elements |-> Total(LAMBDA s : s.elements), texts |-> Total(LAMBDA s : s.texts),
     resources |-> GivenOr(from.images.statistics.resources, from.images.resources),
     occurrences |-> GivenOr(from.images.statistics.occurrences, from.images.occurrences),
     vectors |-> GivenOr(from.vectors.statistics.paths, from.vectors.vectors),
     clips |-> GivenOr(from.vectors.statistics.clips, from.vectors.clips),
     links |-> Given("links"), annotations |-> Given("annotations"), fields |-> Given("fields"),
     widgets |-> Given("widgets"), layers |-> Given("layers"),
     warnings |-> Cardinality(warnings), limitations |-> Cardinality(limitations),
     unresolved |-> from.scenes.statistics.unresolved,
     counts |-> fidelity.counts]

Consolidated(from, summaries, warnings, limitations, fidelity) ==
    [pages |-> summaries, warnings |-> warnings, limitations |-> limitations,
     fidelity |-> fidelity, editability |-> EditabilitySummary(AllElements(from.scenes)),
     sources |-> SourceArtifacts(from),
     statistics |-> Statistics(summaries, from, warnings, limitations, fidelity)]
NativeScene(from) ==
    Consolidated(from, [i \in DOMAIN from.scenes.pages |-> PageSummary(from.scenes.pages[i])],
                 ConsolidatedWarnings(from), NativeLimitations(from),
                 FidelitySummary(from, NativeLimitations(from)))

(* What the models of the native scene refuse, the request does not survive. *)
NativeAccepted(native) ==
    /\ \A summary \in ToSet(native.pages) : NativePageSummaryAccepted(summary)
    /\ native.fidelity.counts \in FidelityCounts
    /\ native.editability.counts \in EditabilityCounts
    /\ native.statistics \in NativeStatistics

=============================================================================
