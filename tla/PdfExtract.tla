----------------------------- MODULE PdfExtract -----------------------------
(* What the PyMuPDF provider (provider.py) takes out of an open document: the *)
(* internal structure, the fonts and the native text, as operators on what the *)
(* backend reports of each page. PdfGraphics has the images and the vectors.   *)
(*                                                                             *)
(* A document is [pages, bytes, state]: pages is a sequence of records         *)
(*   [text, fonts, images, xobjects, streams, shown, drawings, rect, geometry, *)
(*    fails, extras],                                                          *)
(* bytes tells for every image object what extract_image gives. Page indexes   *)
(* start at 0, as in the code; identifiers are tuples in place of strings.     *)
EXTENDS PdfModels, FiniteSets, SequencesExt

CONSTANTS MaxFonts,         \* PDFTypographyOptions.max_fonts
          MaxGlyphs,        \* PDFNativeTextExtractionOptions.max_glyphs_per_page
          MaxImages,        \* PDFImageExtractionOptions.max_image_resources
          MaxOccurrences,   \* PDFImageExtractionOptions.max_image_occurrences
          MaxPaths,         \* PDFNativeVectorOptions.max_paths_per_page
          MaxCommands       \* PDFNativeVectorOptions.max_commands_per_path

ASSUME LimitsAssumption ==
    {MaxFonts, MaxGlyphs, MaxImages, MaxOccurrences, MaxPaths, MaxCommands} \subseteq Nat \ {0}

(* What is a list, of whatever members. *)
IsList(s) == s \in Seq({s[i] : i \in DOMAIN s})
(* The first n of a list, the members of a set of numbers from the least on, and what a *)
(* list has at some of its places.                                                       *)
Upto(s, n) == SubSeq(s, 1, Lesser(Len(s), n))
Ascending(S) ==
    [k \in 1 .. Cardinality(S) |-> CHOOSE a \in S : Cardinality({b \in S : b < a}) = k - 1]
At(s, places) == LET from == Ascending(places) IN [k \in DOMAIN from |-> s[from[k]]]
PageAt(doc, p) == doc.pages[p + 1]
PageIndexes(doc) == 0 .. Len(doc.pages) - 1
Warning(code, scope) == [code |-> code, scope |-> scope]

(* The pages of a selection that exist, in its order and as often as it names them. *)
SelectedPages(n, selection) ==
    IF selection = None
    THEN [i \in 1 .. n |-> i - 1]
    ELSE At(selection, {i \in DOMAIN selection : selection[i] < n})

-----------------------------------------------------------------------------
(* The internal structure: resources of every page and the document's catalog *)

(* An object of the file is one resource wherever it is used; anything else is its page's. *)
ResourceId(kind, xref, p, name) ==
    IF xref > 0 THEN <<kind, xref>> ELSE <<kind, p, name>>

FontResource(p, f) ==
    [id |-> ResourceId("font", f.xref, p, f.name), name |-> f.name,
     family |-> f.family, form |-> f.form]
ImageResource(p, im) ==
    [id |-> ResourceId("image", im.xref, p, im.name), xref |-> im.xref,
     width |-> im.width, height |-> im.height, bits |-> im.bits,
     mask |-> IF im.smask > 0 THEN <<"mask", im.smask>> ELSE None]
MaskResource(im) ==
    [id |-> <<"mask", im.smask>>, xref |-> im.smask, mask |-> None,
     width |-> None, height |-> None, bits |-> None]
XObjectResource(p, x) ==
    [id |-> ResourceId("xobject", x.xref, p, x.name), name |-> x.name]

FirstOfEachId(s) ==
    FoldLeft(LAMBDA kept, x : IF \E i \in DOMAIN kept : kept[i].id = x.id
                              THEN kept ELSE Append(kept, x), <<>>, s)
PerPage(doc, Of(_)) == FlattenSeq([i \in DOMAIN doc.pages |-> Of(i - 1)])

PageResources(doc, p) ==
    LET page == PageAt(doc, p) IN
    [i \in DOMAIN page.fonts |-> FontResource(p, page.fonts[i]).id]
    \o FlattenSeq([i \in DOMAIN page.images |->
                    LET im == ImageResource(p, page.images[i]) IN
                    IF im.mask = None THEN <<im.id>> ELSE <<im.id, im.mask>>])
    \o [i \in DOMAIN page.xobjects |-> XObjectResource(p, page.xobjects[i]).id]

(* Streams and their use of resources are mapped for the FULL_FIDELITY profile only. *)
ContentStreams(page, mapped) ==
    IF mapped THEN [i \in DOMAIN page.streams |-> <<"stream", page.streams[i]>>] ELSE <<>>
InternalStructure(doc, options) ==
    LET Fonts(p)  == [i \in DOMAIN PageAt(doc, p).fonts |->
                        FontResource(p, PageAt(doc, p).fonts[i])]
        Images(p) == [i \in DOMAIN PageAt(doc, p).images |->
                        ImageResource(p, PageAt(doc, p).images[i])]
        Masked(p) == SelectSeq(PageAt(doc, p).images, LAMBDA im : im.smask > 0)
        Masks(p)  == [i \in DOMAIN Masked(p) |-> MaskResource(Masked(p)[i])]
        Others(p) == [i \in DOMAIN PageAt(doc, p).xobjects |->
                        XObjectResource(p, PageAt(doc, p).xobjects[i])]
        Streams(p) == ContentStreams(PageAt(doc, p), options.streams)
    IN  [pages |-> [i \in DOMAIN doc.pages |->
                      [resources |-> PageResources(doc, i - 1), streams |-> Streams(i - 1)]],
         fonts    |-> FirstOfEachId(PerPage(doc, Fonts)),
         images   |-> FirstOfEachId(PerPage(doc, Images)),
         masks    |-> FirstOfEachId(PerPage(doc, Masks)),
         xobjects |-> FirstOfEachId(PerPage(doc, Others)), layers |-> <<>>,
         relations |-> UNION {ToSet(Streams(p)) \X ToSet(PageResources(doc, p)) :
                                p \in PageIndexes(doc)},
         warnings |-> <<Warning("operations_unavailable", None)>>]

(* PyMuPDF refers to no font program, so no font is known to be embedded. *)
FontFromDescriptor(font) ==
    font @@ [subset |-> font.form = "subset", program |-> None,
             embedded |-> "extraction_unavailable"]
TypographyWarnings(fonts) ==
    LET Some(form) == \E i \in DOMAIN fonts : fonts[i].form = form
    IN  (IF Some("subset") THEN <<Warning("subset_fonts", None)>> ELSE <<>>)
        \o (IF Some("type3") THEN <<Warning("type3_font", None)>> ELSE <<>>)
Typography(structure) ==
    LET fonts == Upto(structure.fonts, MaxFonts)
    IN  [fonts |-> [i \in DOMAIN fonts |-> FontFromDescriptor(fonts[i])],
         warnings |-> TypographyWarnings(fonts)]

-----------------------------------------------------------------------------
(* Native text: text is a sequence of blocks of lines, or None when the backend *)
(* gives no dictionary. A line is [dir, box, spans], a span [font, family,      *)
(* size, mode, alpha, chars] and a char "letter", "pair" (one glyph, two        *)
(* characters), "space" or "bare" (a glyph without Unicode).                    *)

SpansOf(text) ==
    FlattenSeq([b \in DOMAIN text |->
        FlattenSeq([l \in DOMAIN text[b] |->
            [s \in DOMAIN text[b][l].spans |->
                [block |-> b, line |-> l, raw |-> text[b][l].spans[s]]]])])

SpanId(p, n) == <<"span", p, n>>
LineId(p, b, l) == <<"line", p, b, l>>
BlockId(p, b) == <<"block", p, b>>
GlyphId(p, n, c) == <<"glyph", p, n, c>>
WordId(p, w) == <<"word", p, w>>

(* include_invisible_text is not read: hidden text is extracted whatever the caller asked. *)
(* Glyphs of a page are counted over all its spans: past the limit a span gets none. *)
PlusChars(sum, span) == sum + Len(span.raw.chars)
GlyphsBefore(spans, n) == FoldLeft(PlusChars, 0, SubSeq(spans, 1, n - 1))
KeptChars(spans, n) ==
    LET before == GlyphsBefore(spans, n) IN
    Upto(spans[n].raw.chars, IF before < MaxGlyphs THEN MaxGlyphs - before ELSE 0)

(* By one of its names, else by a family the name contains. *)
FontOf(span, fonts) ==
    LET Named == {i \in DOMAIN fonts : fonts[i].name = span.font}
        Kin   == {i \in DOMAIN fonts : fonts[i].family = span.family}
    IN  CASE span.font = None -> None
          [] span.font # None /\ Named # {} -> fonts[Min(Named)].id
          [] span.font # None /\ Named = {} /\ Kin # {} -> fonts[Min(Kin)].id
          [] OTHER -> None
(* Alpha is not part of what tells two styles apart. *)
StyleOf(span, fonts) ==
    [id |-> <<"style", FontOf(span, fonts), span.size, span.mode>>, size |-> span.size]
TextVisibility(span) ==
    CASE span.mode = 3 -> "invisible_render_mode"
      [] span.mode # 3 /\ span.alpha = 0 -> "zero_opacity"
      [] OTHER -> "visible"

Magnitude(a) == IF a < 0 THEN -a ELSE a
LineDirection(line) ==
    LET d == line.dir IN
    CASE d = None -> "unknown"
      [] d # None /\ Magnitude(d.y) > Magnitude(d.x) ->
            IF d.y > 0 THEN "top_to_bottom" ELSE "bottom_to_top"
      [] OTHER -> IF d.x < 0 THEN "right_to_left" ELSE "left_to_right"
WritingMode(direction) ==
    CASE direction \in {"top_to_bottom", "bottom_to_top"} -> "vertical"
      [] direction = "unknown" -> "unknown"
      [] OTHER -> "horizontal"
(* A line without a box has no baseline; an unknown direction counts as rightwards. *)
Baselines(p, text) ==
    LET Angle(direction) == CASE direction = "top_to_bottom" -> 90
                              [] direction = "right_to_left" -> 180
                              [] direction = "bottom_to_top" -> 270
                              [] OTHER -> 0
    IN  UNION {{[line |-> LineId(p, b, l), angle |-> Angle(LineDirection(text[b][l]))] :
                  l \in {k \in DOMAIN text[b] : text[b][k].box # None}} : b \in DOMAIN text}

(* The words of a span: maximal runs without a space, some glyph of which has a text. *)
WordRuns(chars) ==
    LET D == DOMAIN chars
        IsRun(i, j) == /\ i <= j
                       /\ \A k \in i .. j : chars[k] # "space"
                       /\ i = 1 \/ chars[i - 1] = "space"
                       /\ j = Len(chars) \/ chars[j + 1] = "space"
        Runs == {r \in D \X D : IsRun(r[1], r[2])}
        Told == {r \in Runs : \E k \in r[1] .. r[2] : chars[k] # "bare"}
        starts == Ascending({r[1] : r \in Told})
    IN  [w \in DOMAIN starts |-> CHOOSE r \in Told : r[1] = starts[w]]

(* The glyphs of span n, on a line of this writing mode. *)
GlyphsOfSpan(p, spans, n, kept, style, font, writing) ==
    [c \in DOMAIN kept |->
        [id |-> GlyphId(p, n, c), span |-> n, char |-> kept[c],
         order |-> GlyphsBefore(spans, n) + c - 1, font |-> font, style |-> style.id,
         size |-> style.size, writing |-> writing,
         visibility |-> TextVisibility(spans[n].raw)]]
Glyphs(p, text, spans, fonts) ==
    FlattenSeq([n \in DOMAIN spans |->
        GlyphsOfSpan(p, spans, n, KeptChars(spans, n), StyleOf(spans[n].raw, fonts),
                     FontOf(spans[n].raw, fonts),
                     WritingMode(LineDirection(text[spans[n].block][spans[n].line])))])

(* The characters of a glyph, one by one. *)
Unicode(char) ==
    CASE char = "bare" -> <<>> [] char = "pair" -> <<"f", "i">> [] OTHER -> <<char>>
Characters(glyphs) ==
    FlattenSeq([g \in DOMAIN glyphs |->
        [c \in DOMAIN Unicode(glyphs[g].char) |->
            [id |-> <<"character", glyphs[g].id, c>>, glyph |-> glyphs[g].id]]])

RunsOf(spans) ==
    FlattenSeq([n \in DOMAIN spans |->
        LET found == WordRuns(KeptChars(spans, n)) IN
        [w \in DOMAIN found |-> [span |-> n, run |-> found[w]]]])
WordsOf(p, runs) ==
    [w \in DOMAIN runs |->
        [id |-> WordId(p, w), span |-> runs[w].span,
         glyphs |-> {GlyphId(p, runs[w].span, c) : c \in runs[w].run[1] .. runs[w].run[2]}]]
Words(p, spans) == WordsOf(p, RunsOf(spans))

(* A block takes its words span by span and then again line by line. *)
BlockWords(text, b, spans, words) ==
    LET Of(l) == SelectSeq(words, LAMBDA w : spans[w.span].block = b /\ spans[w.span].line = l)
        Ids(l) == [i \in DOMAIN Of(l) |-> Of(l)[i].id]
    IN  FlattenSeq([l \in DOMAIN text[b] |-> Ids(l) \o Ids(l)])

TextRelations(p, text, spans, glyphs, words) ==
    {<<glyphs[g].id, "span", SpanId(p, glyphs[g].span)>> : g \in DOMAIN glyphs}
    \cup {<<glyphs[g].id, "font", glyphs[g].font>> :
            g \in {h \in DOMAIN glyphs : glyphs[h].font # None}}
    \cup {<<glyphs[g].id, "style", glyphs[g].style>> : g \in DOMAIN glyphs}
    \cup (UNION {{<<g, "word", words[w].id>> : g \in words[w].glyphs} : w \in DOMAIN words})
    \cup {<<SpanId(p, n), "line", LineId(p, spans[n].block, spans[n].line)>> : n \in DOMAIN spans}
    \cup UNION {{<<LineId(p, b, l), "block", BlockId(p, b)>> : l \in DOMAIN text[b]} :
                  b \in DOMAIN text}

TextWarnings(p, spans, glyphs) ==
    FlattenSeq([n \in DOMAIN spans |->
        IF spans[n].raw.chars = <<>> THEN <<Warning("span_without_chars", SpanId(p, n))>>
        ELSE IF Len(KeptChars(spans, n)) < Len(spans[n].raw.chars)
             THEN <<Warning("max_glyphs_reached", p)>> ELSE <<>>])
    \o LET bare == SelectSeq(glyphs, LAMBDA g : g.char = "bare") IN
       [i \in DOMAIN bare |-> Warning("unicode_mapping_missing", bare[i].id)]

NoTextLayer(p) ==
    [page |-> p, glyphs |-> <<>>, characters |-> <<>>, words |-> <<>>, spans |-> <<>>,
     baselines |-> {}, lines |-> <<>>, blocks |-> <<>>, relations |-> {}, unresolved |-> {},
     warnings |-> <<Warning("rawdict_unavailable", p)>>]

LayerOf(p, text, fonts, spans, glyphs, words) ==
    LET Lines(b) == [l \in DOMAIN text[b] |-> [id |-> LineId(p, b, l)]]
    IN  [page |-> p, glyphs |-> glyphs, characters |-> Characters(glyphs), words |-> words,
         spans |-> [n \in DOMAIN spans |->
                      [id |-> SpanId(p, n), font |-> FontOf(spans[n].raw, fonts),
                       style |-> StyleOf(spans[n].raw, fonts).id]],
         baselines |-> Baselines(p, text),
         lines |-> FlattenSeq([b \in DOMAIN text |-> Lines(b)]),
         blocks |-> [b \in DOMAIN text |->
                       [id |-> BlockId(p, b), words |-> BlockWords(text, b, spans, words)]],
         relations |-> TextRelations(p, text, spans, glyphs, words),
         unresolved |-> {SpanId(p, n) : n \in {m \in DOMAIN spans : spans[m].raw.chars = <<>>}},
         warnings |-> TextWarnings(p, spans, glyphs)]
TextLayer(p, text, fonts) ==
    LET spans == SpansOf(text) IN
    LayerOf(p, text, fonts, spans, Glyphs(p, text, spans, fonts), Words(p, spans))

TextStatisticsOf(layers) ==
    LET All(Of(_)) == FlattenSeq([i \in DOMAIN layers |-> Of(layers[i])])
        glyphs == All(LAMBDA l : l.glyphs)
        Count(Test(_)) == Len(SelectSeq(glyphs, Test))
    IN  [glyphs |-> Len(glyphs), characters |-> Len(All(LAMBDA l : l.characters)),
         words |-> Len(All(LAMBDA l : l.words)), spans |-> Len(All(LAMBDA l : l.spans)),
         lines |-> Len(All(LAMBDA l : l.lines)), blocks |-> Len(All(LAMBDA l : l.blocks)),
         unresolvedUnicode |-> Count(LAMBDA g : g.char = "bare"),
         unresolvedFont |-> Count(LAMBDA g : g.font = None),
         invisible |-> Count(LAMBDA g : g.visibility # "visible"),
         vertical |-> Count(LAMBDA g : g.writing = "vertical")]
(* Every span makes its style, the ones without a character too. *)
StylesOf(doc, selected, fonts) ==
    UNION {{StyleOf(s.raw, fonts) : s \in ToSet(SpansOf(PageAt(doc, p).text))} :
             p \in {q \in ToSet(selected) : PageAt(doc, q).text # None}}

NativeText(doc, options, typography) ==
    LET selected == SelectedPages(Len(doc.pages), options.pages)
        Layer(p) == IF PageAt(doc, p).text = None THEN NoTextLayer(p)
                    ELSE TextLayer(p, PageAt(doc, p).text, typography.fonts)
        With(pages) ==
            [pages |-> pages, statistics |-> TextStatisticsOf(pages),
             styles |-> StylesOf(doc, selected, typography.fonts),
             warnings |-> FlattenSeq([i \in DOMAIN pages |-> pages[i].warnings])]
    IN  With([i \in DOMAIN selected |-> Layer(selected[i])])

(* What the models of the text refuse, the extraction does not survive. *)
TextAccepted(text) ==
    /\ \A style \in text.styles : TextStyleAccepted(style)
    /\ \A layer \in ToSet(text.pages) :
          /\ \A glyph \in ToSet(layer.glyphs) : GlyphAccepted(glyph)
          /\ \A character \in ToSet(layer.characters) : CharacterAccepted(character)
          /\ \A word \in ToSet(layer.words) : WordAccepted(word)
    /\ text.statistics \in TextStatistics

=============================================================================
