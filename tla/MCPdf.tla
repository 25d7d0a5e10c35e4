-------------------------------- MODULE MCPdf --------------------------------
(* Documents small enough to enumerate, with something of everything the       *)
(* provider distinguishes, and the requests that reach every branch.           *)
EXTENDS PdfPublic

Sheet  == Box(0, 0, 20, 10)
Inside == Box(2, 2, 8, 6)
Edge   == Box(15, 5, 25, 9)
Off    == Box(30, 0, 40, 5)
Rule   == Box(1, 4, 19, 4)

Span(font, size, mode, chars) ==
    [font |-> font, family |-> font, size |-> size, mode |-> mode, alpha |-> 255, chars |-> chars]
Line(dir, spans) == [dir |-> dir, box |-> Rule, spans |-> spans]
Rightwards == Point(1, 0)
Upwards == Point(0, -1)
Picture(xref, smask, name) ==
    [xref |-> xref, smask |-> smask, name |-> name, width |-> 40, height |-> 30, bits |-> 8]
Show(xref, box) == [xref |-> xref, box |-> box]
Cmd(op) == [op |-> op, box |-> Inside]
Item(type, box, ops) ==
    [type |-> type, fill |-> FALSE, color |-> FALSE, width |-> 1, dashes |-> <<>>,
     fillOpacity |-> None, strokeOpacity |-> None, rect |-> box, seqno |-> None,
     matrix |-> Identity, items |-> [i \in DOMAIN ops |-> Cmd(ops[i])]]

Blank == [text |-> <<>>, fonts |-> <<>>, images |-> <<>>, xobjects |-> <<>>, streams |-> <<>>,
          shown |-> <<>>, drawings |-> <<>>, rect |-> Sheet, fails |-> {}, extras |-> {},
          geometry |-> [media |-> Sheet, crop |-> None, rotation |-> 0, unit |-> None]]

Serif == [xref |-> 5, name |-> "serif", family |-> "kin", form |-> "subset"]
Drawn == [xref |-> 0, name |-> "drawn", family |-> "other", form |-> "type3"]

(* Two lines, a word cut by a space, a glyph of two characters, an empty span. *)
Prose == [Blank EXCEPT
    !.fonts = <<Serif, Drawn>>,
    !.text = << <<Line(Rightwards, <<Span("serif", 12, 0, <<"letter", "space", "pair">>)>>),
                  Line(None, <<Span("kin", None, 3, <<>>)>>)>> >>,
    !.streams = <<4>>, !.xobjects = <<[xref |-> 9, name |-> "X"]>>]
(* Hidden text without Unicode, upwards, and more of it than MaxGlyphs. *)
Dense == [Blank EXCEPT
    !.fonts = <<Serif>>,
    !.text = << <<Line(Upwards, <<Span(None, 9, 3, <<"bare", "letter">>),
                      [Span("serif", 9, 0, <<"letter", "space", "letter">>) EXCEPT !.alpha = 0]>>)>> >>,
    !.fails = {"text"}]
Spaces == [Blank EXCEPT !.text = << <<Line(Rightwards, <<Span(None, 9, 0, <<"space">>)>>)>> >>,
                        !.extras = {"links"}]
(* A span without a size, which the model of a style refuses. *)
Sizeless == [Spaces EXCEPT !.text[1][1].spans[1].size = 0]
(* An image with a mask shown twice, one nobody shows, one that resolves to nothing. *)
Gallery == [Blank EXCEPT
    !.images = <<Picture(7, 8, "A"), Picture(0, 0, "B")>>,
    !.shown = <<Show(7, Inside), Show(7, Edge), Show(0, Inside)>>,
    !.extras = {"forms"}]
Album == [Blank EXCEPT
    !.images = <<Picture(7, 0, "A")>>, !.shown = <<Show(7, None), Show(7, Off)>>,
    !.fails = {"images"}]
(* An image of no bits, which the model of an image refuses. *)
Bitless == [Album EXCEPT !.images[1].bits = 0]
(* A clip between two drawings, the last of them past MaxPaths. *)
Figure == [Blank EXCEPT
    !.drawings = <<Item("clip", Inside, <<"m", "l">>),
                   [Item("fs", Inside, <<"re">>) EXCEPT !.matrix = Matrix(1, 2, 1, 2, 0, 0)],
                   Item("s", None, <<"l">>), Item("s", Rule, <<"l">>)>>]
Sketch == [Blank EXCEPT
    !.drawings = <<[Item("f", Edge, <<"m", "?", "l", "m">>) EXCEPT !.seqno = 4],
                   [Item("none", Inside, <<"l", "c">>) EXCEPT !.color = TRUE, !.strokeOpacity = 0]>>,
    !.text = None]
(* Repeated without its hidden drawing, its vectors are numbered twice alike. *)
Doubled == [Blank EXCEPT
    !.drawings = <<Item("s", Inside, <<"l">>), [Item("s", Off, <<"qu">>) EXCEPT !.fillOpacity = 1],
                   Item("f", Inside, <<"re">>)>>]
(* A dash of 1e-05 reads as 1 and -5, which the model of a stroke refuses. *)
Dashed == [Blank EXCEPT
    !.drawings = <<[Item("s", Rule, <<"l">>) EXCEPT
                     !.dashes = <<[digits |-> 3, exponent |-> None], [digits |-> 1, exponent |-> -5]>>]>>]
Unboxed == [Prose EXCEPT !.geometry.media = None]
(* Lying on its side, cropped, in another unit. *)
Sideways == [Figure EXCEPT
    !.rect = Box(0, 0, 10, 20),
    !.geometry = [media |-> Box(-2, -2, 20, 12), crop |-> Sheet, rotation |-> 270, unit |-> 2]]
(* A page standing on a corner: nothing takes its geometry. *)
Tilted == [Blank EXCEPT !.geometry.rotation = 45]
(* Everything at once, cut by MaxElements. *)
Poster == [Gallery EXCEPT !.text = Prose.text, !.fonts = Prose.fonts, !.drawings = Figure.drawings,
                          !.extras = {}]

Bytes == (7 :> "ok") @@ (8 :> "big")
Sound(pages) == [pages |-> pages, bytes |-> Bytes, state |-> "sound"]
In(state, pages) == [pages |-> pages, bytes |-> [x \in {7, 8} |-> "none"], state |-> state]

MCDocuments ==
    {Sound(<<Prose, Gallery>>), Sound(<<Figure, Dense>>), Sound(<<Sketch, Unboxed>>),
     Sound(<<Album, Doubled>>), Sound(<<Poster>>), Sound(<<Prose, Spaces, Album, Sideways>>),
     Sound(<<Sizeless>>), Sound(<<Bitless>>), Sound(<<Dashed>>), Sound(<<Tilted>>), Sound(<<>>),
     In("locked", <<Spaces>>), In("locked", <<Sketch, Gallery>>),
     In("corrupt", <<Blank>>), In("not_pdf", <<Blank>>)}

Usual == [kind |-> "parse", profile |-> None, pages |-> None, hidden |-> TRUE, persist |-> TRUE,
          timed |-> FALSE, password |-> "right", options |-> AllPages]
Listed(s) == [form |-> "list", of |-> s]
Ranges(s) == [form |-> "ranges", of |-> s]

MCRequests ==
    {[Usual EXCEPT !.profile = x] : x \in {"basic", "textual", "full_fidelity", "other"}}
    \cup {[Usual EXCEPT !.kind = "process", !.profile = x] : x \in {"textual", "other"}}
    \cup {[Usual EXCEPT !.persist = FALSE, !.profile = x, !.timed = TRUE] : x \in {"basic", "textual", "visual"}}
    \cup {[Usual EXCEPT !.pages = x, !.hidden = h] :
            x \in {None, Listed(<<2, 1, 2>>), Listed(<<9>>), Ranges(<< <<1, 2>>, <<2, 3>> >>)},
            h \in BOOLEAN}
    \cup {[Usual EXCEPT !.pages = x] : x \in {Listed(<<0>>), Listed(<<>>), Ranges(<< <<2, 1>> >>)}}
    \cup {[Usual EXCEPT !.kind = k, !.password = x] : k \in {"parse", "examine"}, x \in {None, "wrong"}}
    \cup {[Usual EXCEPT !.kind = "inspect", !.persist = x] : x \in BOOLEAN}
    \cup {[Usual EXCEPT !.kind = k, !.options = [all |-> a, limit |-> n, strategy |-> s]] :
            k \in {"survey", "examine"}, a \in BOOLEAN, n \in {None, 1, 3},
            s \in {"first", "uniform", "first_middle_last"}}

=============================================================================
