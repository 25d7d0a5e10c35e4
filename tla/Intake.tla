------------------------------- MODULE Intake -------------------------------
(***************************************************************************)
(* What an ingestion decides about a source before it writes anything:     *)
(* resolution and its size checks, format detection, and the security      *)
(* validation with its limits, over one reading of the content.            *)
(*                                                                         *)
(* A content is a record of what the checks look at:                       *)
(*   magic   - the signature the bytes begin with, "zip" for PK\x03\x04    *)
(*   size    - in bytes                                                    *)
(*   text    - "binary" (has a null byte), or textual: "plain" (one line), *)
(*             "lines", "table" (a delimiter repeats from line to line)    *)
(*   entries - of an archive: name class, encrypted flag, size, packed     *)
(*             size, in the order of its directory                         *)
(* A source is a record of what the caller declares: kind, size, mime,     *)
(* ext, name class, pages (the page_count of its metadata), closes         *)
(* (close_on_cleanup).                                                     *)
(***************************************************************************)
EXTENDS Integers, Sequences, FiniteSetsExt

Undeclared == -1      (* no size, no page count                            *)
Malformed  == -2      (* a page count that is no number, or is negative    *)

Signatures == {"pdf", "png", "jpeg", "tiff"}
Formats    == Signatures \cup {"xlsx", "csv"}

(* How many bytes each signature's check wants to see. *)
ShortestSample ==
  [format \in Formats |-> CASE format = "pdf"  -> 9
                            [] format = "png"  -> 16
                            [] format = "jpeg" -> 4
                            [] OTHER           -> 0]

(* The checks of the code run in order and the first that fails is raised. *)
FirstFailure(checks) ==
  LET failed == {k \in DOMAIN checks : checks[k].fails}
  IN  IF failed = {} THEN "ok" ELSE checks[Min(failed)].error

Check(fails, error) == [fails |-> fails, error |-> error]

-----------------------------------------------------------------------------
(* Resolution                                                              *)

(* A caller can change a file or a seekable stream while it is read; bytes *)
(* and the private copy of a stream that cannot seek stay what they are.   *)
Mutable(source) == source.kind \in {"path", "stream"}

SizeKnown(source, content) ==
  IF source.size # Undeclared THEN source.size ELSE content.size

(* Mutant: the limit itself is refused. *)
SizeChecksStrict(policy, size) ==
  <<Check(size >= policy.maxSize, "too_large"),
    Check(policy.rejectEmpty /\ size = 0, "empty")>>

SizeChecks(policy, size) ==
  <<Check(size > policy.maxSize, "too_large"),
    Check(policy.rejectEmpty /\ size = 0, "empty")>>

(* open(): bytes are measured, others are believed if they declare a size; *)
(* a stream that cannot seek is copied first, and its copy measured.       *)
OpenError(policy, source, content) ==
  LET declared == SizeKnown(source, content)
      copied   == Check(content.size > policy.maxSize, "too_large")
  IN  CASE source.kind = "bytes" ->
             FirstFailure(SizeChecks(policy, content.size))
        [] source.kind = "pipe" ->
             FirstFailure((IF source.size = Undeclared THEN <<>>
                           ELSE SizeChecks(policy, source.size))
                          \o <<copied>> \o SizeChecks(policy, declared))
        [] OTHER -> FirstFailure(SizeChecks(policy, declared))

(* content_length of the resolved source. *)
ContentLength(source, content) ==
  IF source.kind = "bytes" THEN content.size ELSE SizeKnown(source, content)

-----------------------------------------------------------------------------
(* Detection                                                               *)

(* [Content_Types].xml and xl/workbook.xml *)
Required == {"types", "workbook"}

Names(content) ==
  {content.entries[k].name : k \in DOMAIN content.entries}

LooksLikeXlsx(content) ==
  content.magic = "zip" /\ Required \subseteq Names(content)

(* A declaration is evidence for CSV only, and only of text with lines. *)
LooksLikeCsv(source, content) ==
  \/ content.text = "table"
  \/ content.text = "lines" /\ "csv" \in {source.ext, source.mime}

Detect(source, content) ==
  IF content.size = 0 THEN "unknown"
  ELSE IF content.magic \in Signatures THEN content.magic
  ELSE IF LooksLikeXlsx(content) THEN "xlsx"
  ELSE IF LooksLikeCsv(source, content) THEN "csv"
  ELSE "unknown"

-----------------------------------------------------------------------------
(* Validation                                                              *)

(* Sanitising keeps the last path component; what is not safe after that   *)
(* (control characters, nothing left, a reserved name) is refused.         *)
NameChecks(source) == <<Check(source.name = "unsafe", "unsafe_filename")>>

FormatChecks(policy, format) ==
  <<Check(format = "unknown" \/ format \notin policy.formats, "unsupported")>>

DeclarationChecks(policy, source, format) ==
  <<Check(source.mime \notin policy.mimes \cup {"none"}, "invalid_mime"),
    Check(/\ policy.requireMime
          /\ source.mime \notin {"none", format}, "mime_mismatch"),
    Check(/\ ~policy.allowExtension
          /\ source.ext \notin {"none", format}, "unsafe_filename")>>

(* _validate up to the structure: the name, the size that was declared,    *)
(* whether the content read now is empty, and the declarations against the *)
(* format detected before.                                                 *)
DeclaredError(policy, source, content, length, format) ==
  FirstFailure(NameChecks(source)
               \o SizeChecks(policy, length)
               \o <<Check(policy.rejectEmpty /\ content.size = 0, "empty")>>
               \o FormatChecks(policy, format)
               \o DeclarationChecks(policy, source, format))

TotalSize(content) ==
  MapThenSumSet(LAMBDA k : content.entries[k].size, DOMAIN content.entries)
PackedSize(content) ==
  MapThenSumSet(LAMBDA k : content.entries[k].packed, DOMAIN content.entries)

(* Mutant: the ratio is compared in whole numbers. *)
ArchiveChecksWhole(policy, content) ==
  LET entries == content.entries
      packed  == IF PackedSize(content) = 0 THEN 1 ELSE PackedSize(content)
      Some(Bad(_)) == \E k \in DOMAIN entries : Bad(entries[k])
  IN  <<Check(content.magic # "zip", "invalid_container"),
        Check(Len(entries) > policy.maxEntries, "archive"),
        Check(Some(LAMBDA e : e.name = "unsafe"), "archive"),
        Check(Some(LAMBDA e : e.encrypted /\ ~policy.allowEncrypted), "archive"),
        Check(Some(LAMBDA e : e.size > policy.maxEntry), "archive"),
        Check(TotalSize(content) > policy.maxTotal, "archive"),
        Check(TotalSize(content) \div packed > policy.maxRatio, "archive"),
        Check(~(Required \subseteq Names(content)), "structure"),
        Check(Some(LAMBDA e : e.name \in Required /\ e.encrypted), "archive")>>

(* validate_xlsx: the number of entries, each entry, the sums, the entries *)
(* a workbook needs, and whether these can be read (no password is given). *)
(* The ratio is compared by multiplying out; no bytes packed count as one. *)
ArchiveChecks(policy, content) ==
  LET entries == content.entries
      packed  == IF PackedSize(content) = 0 THEN 1 ELSE PackedSize(content)
      Some(Bad(_)) == \E k \in DOMAIN entries : Bad(entries[k])
  IN  <<Check(content.magic # "zip", "invalid_container"),
        Check(Len(entries) > policy.maxEntries, "archive"),
        Check(Some(LAMBDA e : e.name = "unsafe"), "archive"),
        Check(Some(LAMBDA e : e.encrypted /\ ~policy.allowEncrypted), "archive"),
        Check(Some(LAMBDA e : e.size > policy.maxEntry), "archive"),
        Check(TotalSize(content) > policy.maxTotal, "archive"),
        Check(TotalSize(content) > policy.maxRatio * packed, "archive"),
        Check(~(Required \subseteq Names(content)), "structure"),
        Check(Some(LAMBDA e : e.name \in Required /\ e.encrypted), "archive")>>

(* _validate_structure: the content read now against the detected format.  *)
StructureChecks(policy, content, format) ==
  CASE format \in Signatures ->
         <<Check(content.size = 0 \/ content.magic # format, "corrupted"),
           Check(content.size < ShortestSample[format], "truncated")>>
    [] format = "csv"  ->
         <<Check(content.size # 0 /\ content.text = "binary", "corrupted")>>
    [] format = "xlsx" -> ArchiveChecks(policy, content)
    [] OTHER           -> <<>>

PageChecks(policy, source) ==
  <<Check(source.pages = Malformed, "structure"),
    Check(/\ source.pages # Undeclared /\ policy.maxPages # Undeclared
          /\ source.pages > policy.maxPages, "too_many_pages")>>

StructureError(policy, source, content, format) ==
  FirstFailure(StructureChecks(policy, content, format)
               \o PageChecks(policy, source))

-----------------------------------------------------------------------------
(* What validation promises of a content that did not change while it was  *)
(* examined, stated without the order of the checks.                       *)
Acceptable(policy, source, content) ==
  LET format == Detect(source, content) IN
  /\ content.size <= policy.maxSize
  /\ policy.rejectEmpty => content.size > 0
  /\ format \in policy.formats \ {"unknown"}
  /\ source.name # "unsafe"
  /\ source.mime \in policy.mimes \cup {"none"}
  /\ policy.requireMime => source.mime \in {format, "none"}
  /\ policy.allowExtension \/ source.ext \in {format, "none"}
  /\ source.pages # Malformed
  /\ policy.maxPages # Undeclared => source.pages <= policy.maxPages
  /\ content.size >= ShortestSample[format]
  /\ format = "xlsx" =>
       /\ Len(content.entries) <= policy.maxEntries
       /\ TotalSize(content) <= policy.maxTotal
       /\ \A k \in DOMAIN content.entries :
            LET e == content.entries[k] IN
            /\ e.name # "unsafe" /\ e.size <= policy.maxEntry
            /\ e.encrypted => policy.allowEncrypted /\ e.name \notin Required
       /\ \/ TotalSize(content) <= policy.maxRatio * PackedSize(content)
          \/ PackedSize(content) = 0 /\ TotalSize(content) <= policy.maxRatio
=============================================================================
