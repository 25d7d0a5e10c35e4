--------------------------- MODULE PdfInteractive ---------------------------
(* What the artifacts of the PyMuPDF provider say they could not do, how the   *)
(* native scene collects it (native_scene_builder.py), and the interactive     *)
(* artifact, which has a layer for each page and nothing in it.                *)
EXTENDS PdfExtract

(* A limitation is told apart by its code and its scope. words are those of the  *)
(* code and the scope that _limitation_category looks for.                       *)
Limitation(code, scope, words) == [code |-> code, scope |-> scope, words |-> words]

(* The descriptor states a limitation only when the backend is not installed, and then *)
(* no document is open.                                                                 *)
StructureLimitations ==
    {Limitation("content_operations_unavailable", "content_stream", {}),
     Limitation("paint_order_provider_approximation", "page", {"order"})}
TypographyLimitations ==
    {Limitation("font_program_bytes_not_exposed", "font", {"font"}),
     Limitation("font_metrics_partially_supported", "font", {"font", "partial"}),
     Limitation("cmap_and_tounicode_partially_supported", "font", {"font", "partial"})}
TextLimitations ==
    {Limitation("glyph_id_unavailable", "glyph", {}),
     Limitation("content_operation_links_unavailable", "text", {}),
     Limitation("form_text_partially_mapped", "form_xobject", {"form", "partial"})}
ImageLimitations ==
    {Limitation("image_original_stream_identity_provider_derived", "image", {"image"}),
     Limitation("image_clipping_partially_supported", "image_occurrence", {"image", "clip", "partial"}),
     Limitation("image_content_stream_operation_unavailable", "content_stream", {"image"})}
VectorLimitations ==
    {Limitation("vector_content_stream_operations_unavailable", "content_stream", {"vector"}),
     Limitation("graphics_state_provider_derived", "graphics_state", {"graphics"}),
     Limitation("complex_clipping_not_materialized", "clipping", {"clip"}),
     Limitation("form_vector_partially_mapped", "form_xobject", {"vector", "form", "partial"})}
InteractiveLimitations ==
    {Limitation("interactive_details_best_effort", "interactive", {"interactive"})}
(* The scenes repeat those of what they are made of; the typography is not among it. *)
SceneLimitations ==
    StructureLimitations \cup TextLimitations \cup ImageLimitations \cup VectorLimitations
        \cup InteractiveLimitations

(* The first row that knows a word of a limitation gives its category. *)
Categories ==
    << <<{"font"}, "font_limitation">>, <<{"image", "mask"}, "image_limitation">>,
       <<{"vector", "graphics", "clip"}, "vector_limitation">>,
       <<{"interactive", "annotation", "form"}, "interaction_limitation">>,
       <<{"security", "password", "encrypted"}, "security_limitation">>,
       <<{"order"}, "paint_order_limitation">>, <<{"resource"}, "unresolved_resource">>,
       <<{"partial"}, "partial_extraction">>, <<{"unsupported"}, "unsupported_feature">> >>
LimitationCategory(limitation) ==
    LET fitting == {i \in DOMAIN Categories : Categories[i][1] \cap limitation.words # {}}
    IN  IF fitting = {} THEN "provider_limitation" ELSE Categories[Min(fitting)][2]
ArtifactLimitation(limitation, source) ==
    [source |-> source, code |-> limitation.code, scope |-> limitation.scope,
     category |-> LimitationCategory(limitation)]
(* of gives the limitations of each artifact that is there, by its kind. *)
ConsolidatedLimitations(of) ==
    UNION {{ArtifactLimitation(l, source) : l \in of[source]} : source \in DOMAIN of}
CriticalLimitations(limitations) ==
    {l.code : l \in {m \in limitations :
        m.category \in {"security_limitation", "unsupported_feature"}}}

-----------------------------------------------------------------------------
InteractiveStatisticsOf(artifact) ==
    LET Count(found, Test(_)) == Len(SelectSeq(found, Test)) IN
    [links |-> Len(artifact.links),
     external |-> Count(artifact.links, LAMBDA l : l.type = "external_uri"),
     internal |-> Count(artifact.links, LAMBDA l : l.type = "internal_destination"),
     unresolved |-> Count(artifact.destinations, LAMBDA d : d.status = "unresolved"),
     annotations |-> Len(artifact.annotations),
     bare |-> Count(artifact.annotations, LAMBDA a : a.appearances = <<>>),
     fields |-> Len(artifact.fields), widgets |-> Len(artifact.widgets),
     layers |-> Len(artifact.layers),
     dangling |-> Count(artifact.memberships, LAMBDA m : m.status = "unresolved")]

(* Layers come from the catalog, which this provider leaves without any. *)
NativeInteractive(doc, options, structure) ==
    LET From(artifact) == artifact @@ [statistics |-> InteractiveStatisticsOf(artifact)] IN
    From([pages |-> SelectedPages(Len(doc.pages), options.pages), layers |-> structure.layers,
          links |-> <<>>, destinations |-> <<>>, annotations |-> <<>>, fields |-> <<>>,
          widgets |-> <<>>, memberships |-> <<>>, warnings |-> <<>>,
          limitations |-> InteractiveLimitations])

=============================================================================
