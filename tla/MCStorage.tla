------------------------------ MODULE MCStorage ------------------------------
(***************************************************************************)
(* An instance of Storage for TLC: a lenient and a strict policy, contents *)
(* at and beyond every limit, and sources that differ from a plain one in  *)
(* one declaration each.                                                   *)
(***************************************************************************)
EXTENDS Storage

CONSTANTS i1, i2

TwoIngestions == {i1, i2}

Lenient ==
  [maxSize |-> 40, maxPages |-> 2, rejectEmpty |-> TRUE, formats |-> Formats,
   mimes |-> Formats, requireMime |-> FALSE, allowExtension |-> TRUE,
   allowEncrypted |-> FALSE, maxEntries |-> 3, maxEntry |-> 50,
   maxTotal |-> 90, maxRatio |-> 10]
Strict ==
  [Lenient EXCEPT !.formats = {"pdf"}, !.requireMime = TRUE,
                  !.allowExtension = FALSE, !.maxPages = Undeclared,
                  !.allowEncrypted = TRUE, !.rejectEmpty = FALSE]
AllPolicies == {Lenient, Strict}

Plain(magic, size, text) ==
  [magic |-> magic, size |-> size, text |-> text, entries |-> <<>>]
Entry(name, size, packed) ==
  [name |-> name, encrypted |-> FALSE, size |-> size, packed |-> packed]
Zip(entries) ==
  [magic |-> "zip", size |-> 40, text |-> "binary", entries |-> entries]
Types    == Entry("types", 4, 2)
Workbook == Entry("workbook", 50, 5)

FewContents == {Plain("pdf", 40, "binary"), Plain("pdf", 8, "lines")}
ManyContents ==
  {Plain("none", 0, "binary"), Plain("pdf", 41, "binary"),
   Plain("pdf", 9, "lines"),
   Plain("jpeg", 4, "binary"), Plain("none", 12, "binary"),
   Plain("none", 12, "lines"), Plain("none", 12, "table"),
   Zip(<<Types>>), Zip(<<Types, Workbook>>),
   Zip(<<Types, Workbook, Entry("other", 36, 2)>>),
   Zip(<<Types, Workbook, Entry("other", 37, 2)>>),
   Zip(<<Types, Workbook, Entry("other", 51, 2)>>),
   Zip(<<Types, [Workbook EXCEPT !.encrypted = TRUE]>>),
   Zip(<<Types, Workbook, Entry("unsafe", 1, 1)>>),
   Zip(<<Types, [Workbook EXCEPT !.packed = 3]>>),
   Zip(<<Types, Workbook, Types, Types>>)}
AllContents == FewContents \cup ManyContents

PlainSource ==
  [kind |-> "bytes", size |-> Undeclared, mime |-> "none", ext |-> "none",
   name |-> "plain", pages |-> Undeclared, closes |-> FALSE]
AllSources ==
  {PlainSource,
   [PlainSource EXCEPT !.kind = "path"],
   [PlainSource EXCEPT !.kind = "path", !.size = 20],
   [PlainSource EXCEPT !.kind = "stream"],
   [PlainSource EXCEPT !.kind = "stream", !.closes = TRUE, !.size = 41],
   [PlainSource EXCEPT !.kind = "pipe", !.closes = TRUE],
   [PlainSource EXCEPT !.kind = "pipe", !.size = 0],
   [PlainSource EXCEPT !.mime = "csv"],
   [PlainSource EXCEPT !.mime = "html"],
   [PlainSource EXCEPT !.ext = "pdf", !.mime = "pdf"],
   [PlainSource EXCEPT !.ext = "csv"],
   [PlainSource EXCEPT !.name = "unsafe"],
   [PlainSource EXCEPT !.pages = 2],
   [PlainSource EXCEPT !.pages = 3],
   [PlainSource EXCEPT !.pages = Malformed]}


(* Two ingestions of the same content, as bytes or in a file or a stream   *)
(* that can be rewritten; or one of anything.                              *)
TwoKinds ==
  {PlainSource, [PlainSource EXCEPT !.kind = "path"],
   [PlainSource EXCEPT !.kind = "stream"]}
MCEpisodes ==
  {[policy |-> Lenient, source |-> [i \in TwoIngestions |-> IF i = i1 THEN a ELSE b],
    file |-> [i \in TwoIngestions |-> Plain("pdf", 40, "binary")]] :
      a \in TwoKinds, b \in TwoKinds \ {[PlainSource EXCEPT !.kind = "stream"]}}
  \cup
  {[policy |-> p, source |-> [i \in TwoIngestions |-> IF i = i1 THEN s ELSE NoSource],
    file |-> [i \in TwoIngestions |-> c]] :
      p \in AllPolicies, s \in AllSources, c \in AllContents}
MCRemovable == {Plain("pdf", 40, "binary")}
=============================================================================
