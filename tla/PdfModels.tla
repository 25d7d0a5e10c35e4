------------------------------ MODULE PdfModels ------------------------------
(* What the frozen dataclasses of the PDF artifacts refuse when they are made  *)
(* (their __post_init__), for the fields the models of the artifacts keep. An  *)
(* object that is refused raises ValueError wherever it is being made, so that *)
(* one bad value of the backend ends the whole extraction it belongs to.       *)
(* Identifiers and confidences are constants of the code and always accepted.  *)
EXTENDS Geometry, Sequences

(* _validate_positive_optional, _validate_non_negative_optional, _validate_opacity_optional. *)
Positive(value) == value # None => value > 0
NotNegative(value) == value # None => value >= 0
Opacity(value) == value # None => 0 <= value /\ value <= 1

-----------------------------------------------------------------------------
(* Text *)

TextStyleAccepted(style) == Positive(style.size)
GlyphAccepted(glyph) == Positive(glyph.size) /\ NotNegative(glyph.order)
CharacterAccepted(character) == character.glyph # None
WordAccepted(word) == word.glyphs # {}
TextStatistics ==
    [glyphs : Nat, characters : Nat, words : Nat, spans : Nat, lines : Nat, blocks : Nat,
     unresolvedUnicode : Nat, unresolvedFont : Nat, invisible : Nat, vertical : Nat]

-----------------------------------------------------------------------------
(* Images. A resolution is kept as [of, per], pixels at 72 to the inch over a length. *)

ImageResourceAccepted(resource) ==
    Positive(resource.width) /\ Positive(resource.height) /\ Positive(resource.bits)
OccurrenceAccepted(occurrence) ==
    \A d \in {occurrence.dpi[1], occurrence.dpi[2]} \ {None} : d.of > 0 /\ d.per > 0
ImageStatistics ==
    [resources : Nat, occurrences : Nat, softMasks : Nat, invisible : Nat, reused : Nat]

-----------------------------------------------------------------------------
(* Vectors *)

FillStyleAccepted(style) == Opacity(style.opacity)
StrokeStyleAccepted(style) ==
    /\ NotNegative(style.width) /\ Opacity(style.opacity)
    /\ NotNegative(style.phase) /\ \A i \in DOMAIN style.dashes : NotNegative(style.dashes[i])
GraphicsStateAccepted(state) ==
    /\ state.fill # None => Opacity(state.fill.opacity)
    /\ state.stroke # None => NotNegative(state.stroke.width) /\ Opacity(state.stroke.opacity)
VectorStatistics ==
    [paths : Nat, lines : Nat, rectangles : Nat, polygons : Nat, curves : Nat, clips : Nat,
     unresolved : Nat, invisible : Nat]

InteractiveStatistics ==
    [links : Nat, external : Nat, internal : Nat, unresolved : Nat, annotations : Nat,
     bare : Nat, fields : Nat, widgets : Nat, layers : Nat, dangling : Nat]

-----------------------------------------------------------------------------
(* Inspections *)

PageGeometryAccepted(geometry) == geometry.size.x >= 0 /\ geometry.size.y >= 0
PageInspectionAccepted(page) ==
    /\ page.page >= 0 /\ NotNegative(page.resources)
    /\ PageGeometryAccepted(page.geometry)
FeatureSignalAccepted(signal) == NotNegative(signal.count)
PageSummaryAccepted(summary) ==
    /\ summary.total >= 0 /\ summary.inspected >= 0 /\ summary.notInspected >= 0
    /\ summary.inspected + summary.notInspected = summary.total
CoverageAccepted(coverage) ==
    /\ coverage.total >= 0 /\ coverage.inspected >= 0 /\ coverage.inspected <= coverage.total
    /\ coverage.complete => coverage.inspected >= coverage.total

-----------------------------------------------------------------------------
(* Scenes *)

VisualElementAccepted(element) ==
    /\ NotNegative(element.native) /\ NotNegative(element.scene)
    /\ element.fraction # None => NormalizedAccepted(element.fraction)
PageSceneAccepted(scene) == scene.page >= 0
PageSceneStatistics ==
    [elements : Nat, texts : Nat, images : Nat, vectors : Nat, clips : Nat,
     invisible : Nat, unordered : Nat, unresolved : Nat]
ScenesStatistics == [pages : Nat, elements : Nat, unresolved : Nat, partial : Nat]
NativePageSummaryAccepted(summary) ==
    /\ summary.page >= 0 /\ summary.elements >= 0 /\ summary.texts >= 0
    /\ summary.images >= 0 /\ summary.vectors >= 0 /\ summary.warnings >= 0
FidelityCounts ==
    [native_exact : Nat, native_normalized : Nat, provider_reconstructed : Nat,
     heuristic : Nat, raster_only : Nat, unsupported : Nat, unknown : Nat, eixo_derived : Nat]
EditabilityCounts ==
    [native_editable : Nat, partially_editable : Nat, reconstruction_required : Nat,
     raster_only : Nat, not_editable : Nat, unknown : Nat]
NativeStatistics ==
    [pages : Nat, scenes : Nat, elements : Nat, texts : Nat, resources : Nat, occurrences : Nat,
     vectors : Nat, clips : Nat, links : Nat, annotations : Nat, fields : Nat, widgets : Nat,
     layers : Nat, warnings : Nat, limitations : Nat, unresolved : Nat, counts : FidelityCounts]

=============================================================================
