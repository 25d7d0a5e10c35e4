---------------------------- MODULE StorageProofs ----------------------------
(***************************************************************************)
(* What an ingestion leaves on disk and answers, for any number of         *)
(* ingestions and deletes on one data directory, any contents, sources and *)
(* policies; and that these files implement DocumentStore.                 *)
(*                                                                         *)
(* The first part says what the lists of checks of Intake let through, so  *)
(* that an error of the code and a condition of Acceptable can be compared.*)
(* StorageInv is the inductive invariant: WalkInv says what is in record   *)
(* and log where an ingestion stands; ReadingInv what it has read, and     *)
(* SteadyInv what that means of a source that cannot change; ShelvedInv    *)
(* what of its artifact is on the shelf; TemporariesInv where temporary    *)
(* files may be; FateInv when it has answered.                             *)
(***************************************************************************)
EXTENDS Storage, WellFoundedInduction, SequenceTheorems, TLAPS

-----------------------------------------------------------------------------
(* The checks of Intake *)

(* Min of a nonempty set of naturals is in the set: the induction          *)
(* FirstFailure rests on.                                                  *)
LEMMA LeastNatural ==
  ASSUME NEW T \in SUBSET Nat, T # {}
  PROVE  \E x \in T : \A y \in T : x <= y
<1> DEFINE R == OpToRel(<, Nat)
<1>1. IsWellFoundedOn(R, Nat)
  BY NatLessThanWellFounded
<1>2. PICK x \in T : \A y \in T : <<y, x>> \notin R
  BY <1>1, WFMin
<1>3. \A y \in T : ~(y < x)
  BY <1>2 DEF OpToRel
<1> QED
  BY <1>3

Errors == Outcomes \ {"none", "stored"}
Checks == [fails : BOOLEAN, error : Errors]

(* FirstFailure answers "ok" exactly when no check fails, and the error of *)
(* a check otherwise.                                                      *)
LEMMA FirstFailureMeaning ==
  ASSUME NEW checks \in Seq(Checks)
  PROVE  /\ FirstFailure(checks) \in Errors \cup {"ok"}
         /\ FirstFailure(checks) = "ok" <=> \A k \in DOMAIN checks : ~checks[k].fails
<1> DEFINE failed == {k \in DOMAIN checks : checks[k].fails}
<1>1. failed \subseteq Nat /\ failed \subseteq DOMAIN checks
  OBVIOUS
<1>2. \A k \in DOMAIN checks : checks[k].error \in Errors
  <2>1. \A k \in DOMAIN checks : checks[k] \in Checks
    OBVIOUS
  <2>2. \A c \in Checks : c.error \in Errors
    BY DEF Checks
  <2> QED
    BY <2>1, <2>2
<1>3. failed # {} => Min(failed) \in failed
  BY <1>1, LeastNatural DEF Min
<1>4. "ok" \notin Errors
  BY DEF Errors, Outcomes
<1>5. FirstFailure(checks) = IF failed = {} THEN "ok" ELSE checks[Min(failed)].error
  BY DEF FirstFailure
<1> QED
  BY <1>1, <1>2, <1>3, <1>4, <1>5

(* A list of one check, and the lists of two parts of the code one after   *)
(* the other.                                                              *)
LEMMA OneCheck ==
  ASSUME NEW f \in BOOLEAN, NEW e \in Errors
  PROVE  /\ <<Check(f, e)>> \in Seq(Checks)
         /\ FirstFailure(<<Check(f, e)>>) = "ok" <=> ~f
<1>1. Check(f, e) \in Checks /\ Check(f, e).fails = f
  BY DEF Check, Checks
<1>2. <<Check(f, e)>> \in Seq(Checks)
  BY <1>1
<1>3. \A k \in DOMAIN <<Check(f, e)>> : <<Check(f, e)>>[k] = Check(f, e)
  OBVIOUS
<1>4. 1 \in DOMAIN <<Check(f, e)>>
  OBVIOUS
<1> QED
  BY <1>1, <1>2, <1>3, <1>4, FirstFailureMeaning

(* Checks in a row succeed when each part does.                            *)
LEMMA MoreChecks ==
  ASSUME NEW a \in Seq(Checks), NEW b \in Seq(Checks)
  PROVE  /\ a \o b \in Seq(Checks)
         /\ FirstFailure(a \o b) = "ok" <=> FirstFailure(a) = "ok" /\ FirstFailure(b) = "ok"
<1>1. /\ a \o b \in Seq(Checks)
      /\ Len(a \o b) = Len(a) + Len(b)
      /\ \A k \in 1 .. Len(a) + Len(b) :
           (a \o b)[k] = IF k <= Len(a) THEN a[k] ELSE b[k - Len(a)]
  BY ConcatProperties
<1>2. /\ Len(a) \in Nat /\ DOMAIN a = 1 .. Len(a)
      /\ Len(b) \in Nat /\ DOMAIN b = 1 .. Len(b)
      /\ DOMAIN (a \o b) = 1 .. Len(a) + Len(b)
  BY <1>1
<1>3. ASSUME \A k \in DOMAIN (a \o b) : ~(a \o b)[k].fails
      PROVE  (\A k \in DOMAIN a : ~a[k].fails) /\ (\A k \in DOMAIN b : ~b[k].fails)
  <2>1. ASSUME NEW k \in 1 .. Len(a) PROVE ~a[k].fails
    <3>1. k \in 1 .. Len(a) + Len(b) /\ (a \o b)[k] = a[k]
      BY <1>1, <1>2
    <3> QED
      BY <1>2, <1>3, <3>1
  <2>2. ASSUME NEW k \in 1 .. Len(b) PROVE ~b[k].fails
    <3>1. /\ Len(a) + k \in 1 .. Len(a) + Len(b) /\ ~(Len(a) + k <= Len(a))
          /\ (Len(a) + k) - Len(a) = k
      BY <1>2
    <3>2. (a \o b)[Len(a) + k] = b[k]
      BY <1>1, <3>1
    <3> QED
      BY <1>2, <1>3, <3>1, <3>2
  <2> QED
    BY <1>2, <2>1, <2>2
<1>4. ASSUME \A k \in DOMAIN a : ~a[k].fails, \A k \in DOMAIN b : ~b[k].fails,
             NEW k \in 1 .. Len(a) + Len(b)
      PROVE  ~(a \o b)[k].fails
  <2>1. CASE k <= Len(a)
    BY <1>1, <1>2, <1>4, <2>1
  <2>2. CASE ~(k <= Len(a))
    <3>1. k - Len(a) \in 1 .. Len(b)
      BY <1>2, <2>2
    <3> QED
      BY <1>1, <1>2, <1>4, <2>2, <3>1
  <2> QED
    BY <2>1, <2>2
<1> QED
  BY <1>1, <1>2, <1>3, <1>4, FirstFailureMeaning

(* What each list of checks lets through; the first three lists are the    *)
(* same for every format.                                                  *)
LEMMA SizeChecksMeaning ==
  ASSUME NEW p, NEW size
  PROVE  /\ SizeChecks(p, size) \in Seq(Checks)
         /\ FirstFailure(SizeChecks(p, size)) = "ok" <=>
              ~(size > p.maxSize) /\ ~(p.rejectEmpty /\ size = 0)
<1> DEFINE s == SizeChecks(p, size)
<1>1. s \in Seq(Checks) /\ DOMAIN s = 1 .. 2
  BY DEF SizeChecks, Check, Checks, Errors, Outcomes
<1>2. /\ s[1].fails <=> size > p.maxSize
      /\ s[2].fails <=> (p.rejectEmpty /\ size = 0)
  BY DEF SizeChecks, Check
<1> HIDE DEF s
<1>3. (\A k \in DOMAIN s : ~s[k].fails) <=> ~s[1].fails /\ ~s[2].fails
  BY <1>1
<1> QED
  BY <1>1, <1>2, <1>3, FirstFailureMeaning DEF s

(* What a source's declarations have to meet.                              *)
LEMMA DeclarationChecksMeaning ==
  ASSUME NEW p, NEW src, NEW fmt
  PROVE  /\ DeclarationChecks(p, src, fmt) \in Seq(Checks)
         /\ FirstFailure(DeclarationChecks(p, src, fmt)) = "ok" <=>
              /\ src.mime \in p.mimes \cup {"none"}
              /\ p.requireMime => src.mime \in {"none", fmt}
              /\ p.allowExtension \/ src.ext \in {"none", fmt}
<1> DEFINE s == DeclarationChecks(p, src, fmt)
<1>1. s \in Seq(Checks) /\ DOMAIN s = 1 .. 3
  BY DEF DeclarationChecks, Check, Checks, Errors, Outcomes
<1>2. /\ s[1].fails <=> src.mime \notin p.mimes \cup {"none"}
      /\ s[2].fails <=> (p.requireMime /\ src.mime \notin {"none", fmt})
      /\ s[3].fails <=> (~p.allowExtension /\ src.ext \notin {"none", fmt})
  BY DEF DeclarationChecks, Check
<1> HIDE DEF s
<1>3. (\A k \in DOMAIN s : ~s[k].fails) <=> ~s[1].fails /\ ~s[2].fails /\ ~s[3].fails
  BY <1>1
<1> QED
  BY <1>1, <1>2, <1>3, FirstFailureMeaning DEF s

(* What the declared number of pages has to meet.                          *)
LEMMA PageChecksMeaning ==
  ASSUME NEW p, NEW src
  PROVE  /\ PageChecks(p, src) \in Seq(Checks)
         /\ FirstFailure(PageChecks(p, src)) = "ok" <=>
              /\ src.pages # Malformed
              /\ ~(/\ src.pages # Undeclared /\ p.maxPages # Undeclared
                   /\ src.pages > p.maxPages)
<1> DEFINE s == PageChecks(p, src)
<1>1. s \in Seq(Checks) /\ DOMAIN s = 1 .. 2
  BY DEF PageChecks, Check, Checks, Errors, Outcomes
<1>2. /\ s[1].fails <=> src.pages = Malformed
      /\ s[2].fails <=> (/\ src.pages # Undeclared /\ p.maxPages # Undeclared
                         /\ src.pages > p.maxPages)
  BY DEF PageChecks, Check
<1> HIDE DEF s
<1>3. (\A k \in DOMAIN s : ~s[k].fails) <=> ~s[1].fails /\ ~s[2].fails
  BY <1>1
<1> QED
  BY <1>1, <1>2, <1>3, FirstFailureMeaning DEF s

(* Of the nine checks of an archive, none fails: the conditions without    *)
(* their order.                                                            *)
LEMMA ArchiveChecksMeaning ==
  ASSUME NEW p, NEW c
  PROVE  /\ ArchiveChecks(p, c) \in Seq(Checks)
         /\ FirstFailure(ArchiveChecks(p, c)) = "ok" <=>
              LET packed == IF PackedSize(c) = 0 THEN 1 ELSE PackedSize(c) IN
              /\ c.magic = "zip"
              /\ ~(Len(c.entries) > p.maxEntries)
              /\ \A k \in DOMAIN c.entries :
                   LET e == c.entries[k] IN
                   /\ e.name # "unsafe" /\ ~(e.size > p.maxEntry)
                   /\ ~(e.encrypted /\ ~p.allowEncrypted)
                   /\ ~(e.name \in Required /\ e.encrypted)
              /\ ~(TotalSize(c) > p.maxTotal)
              /\ ~(TotalSize(c) > p.maxRatio * packed)
              /\ Required \subseteq Names(c)
<1> DEFINE s == ArchiveChecks(p, c)
           packed == IF PackedSize(c) = 0 THEN 1 ELSE PackedSize(c)
<1>1. s \in Seq(Checks) /\ DOMAIN s = 1 .. 9
  BY DEF ArchiveChecks, Check, Checks, Errors, Outcomes
<1>2. /\ s[1].fails <=> c.magic # "zip"
      /\ s[2].fails <=> Len(c.entries) > p.maxEntries
      /\ s[3].fails <=> \E k \in DOMAIN c.entries : c.entries[k].name = "unsafe"
      /\ s[4].fails <=> \E k \in DOMAIN c.entries : c.entries[k].encrypted /\ ~p.allowEncrypted
      /\ s[5].fails <=> \E k \in DOMAIN c.entries : c.entries[k].size > p.maxEntry
      /\ s[6].fails <=> TotalSize(c) > p.maxTotal
      /\ s[7].fails <=> TotalSize(c) > p.maxRatio * packed
      /\ s[8].fails <=> ~(Required \subseteq Names(c))
      /\ s[9].fails <=> \E k \in DOMAIN c.entries :
                          c.entries[k].name \in Required /\ c.entries[k].encrypted
  BY DEF ArchiveChecks, Check
<1> HIDE DEF s
<1>3. (\A k \in DOMAIN s : ~s[k].fails) <=>
        /\ ~s[1].fails /\ ~s[2].fails /\ ~s[3].fails /\ ~s[4].fails /\ ~s[5].fails
        /\ ~s[6].fails /\ ~s[7].fails /\ ~s[8].fails /\ ~s[9].fails
  BY <1>1
<1>4. FirstFailure(s) = "ok" <=> \A k \in DOMAIN s : ~s[k].fails
  BY <1>1, FirstFailureMeaning
<1> QED
  BY <1>1, <1>2, <1>3, <1>4 DEF s

(* The name of the source and the format that was detected.                *)
LEMMA FewChecks ==
  ASSUME NEW p, NEW src, NEW fmt
  PROVE  /\ NameChecks(src) \in Seq(Checks)
         /\ FirstFailure(NameChecks(src)) = "ok" <=> src.name # "unsafe"
         /\ FormatChecks(p, fmt) \in Seq(Checks)
         /\ FirstFailure(FormatChecks(p, fmt)) = "ok" <=> fmt \in p.formats \ {"unknown"}
<1>1. {"unsafe_filename", "unsupported"} \subseteq Errors
  BY DEF Errors, Outcomes
<1> QED
  BY <1>1, OneCheck DEF NameChecks, FormatChecks

(* No check: nothing to fail. *)
LEMMA NoCheck == << >> \in Seq(Checks) /\ FirstFailure(<< >>) = "ok"
<1>1. << >> \in Seq(Checks) /\ DOMAIN << >> = {}
  OBVIOUS
<1> QED
  BY <1>1, FirstFailureMeaning

(* Opening refuses nothing that is within the limits and declared as it    *)
(* is.                                                                     *)
LEMMA OpenErrorMeaning ==
  ASSUME NEW p, NEW s, NEW c
  PROVE  /\ OpenError(p, s, c) \in Errors \cup {"ok"}
         /\ /\ ~(c.size > p.maxSize) /\ ~(p.rejectEmpty /\ c.size = 0)
            /\ s.size \in {Undeclared, c.size}
            => OpenError(p, s, c) = "ok"
<1> DEFINE copied == <<Check(c.size > p.maxSize, "too_large")>>
           early  == IF s.size = Undeclared THEN << >> ELSE SizeChecks(p, s.size)
           late   == SizeChecks(p, SizeKnown(s, c))
<1>1. /\ copied \in Seq(Checks)
      /\ FirstFailure(copied) = "ok" <=> ~(c.size > p.maxSize)
  <2>1. "too_large" \in Errors
    BY DEF Errors, Outcomes
  <2>2. (c.size > p.maxSize) \in BOOLEAN
    OBVIOUS
  <2> QED
    BY <2>1, <2>2, OneCheck
<1>2. /\ early \in Seq(Checks)
      /\ FirstFailure(early) = "ok" <=>
           s.size = Undeclared \/ (~(s.size > p.maxSize) /\ ~(p.rejectEmpty /\ s.size = 0))
  BY NoCheck, SizeChecksMeaning
<1>3. /\ late \in Seq(Checks)
      /\ FirstFailure(late) = "ok" <=>
           ~(SizeKnown(s, c) > p.maxSize) /\ ~(p.rejectEmpty /\ SizeKnown(s, c) = 0)
  BY SizeChecksMeaning
<1>4. s.size \in {Undeclared, c.size} => SizeKnown(s, c) = c.size
  BY DEF SizeKnown
<1>5. OpenError(p, s, c) =
        CASE s.kind = "bytes" -> FirstFailure(SizeChecks(p, c.size))
          [] s.kind = "pipe"  -> FirstFailure(early \o copied \o late)
          [] OTHER            -> FirstFailure(late)
  BY DEF OpenError
<1> HIDE DEF copied, early, late
<1>6. /\ early \o copied \in Seq(Checks)
      /\ FirstFailure(early \o copied) = "ok" <=>
           FirstFailure(early) = "ok" /\ FirstFailure(copied) = "ok"
  BY <1>1, <1>2, MoreChecks
<1>7. /\ early \o copied \o late \in Seq(Checks)
      /\ FirstFailure(early \o copied \o late) = "ok" <=>
           FirstFailure(early \o copied) = "ok" /\ FirstFailure(late) = "ok"
  BY <1>3, <1>6, MoreChecks
<1>8. /\ FirstFailure(SizeChecks(p, c.size)) \in Errors \cup {"ok"}
      /\ FirstFailure(early \o copied \o late) \in Errors \cup {"ok"}
      /\ FirstFailure(late) \in Errors \cup {"ok"}
  BY <1>3, <1>7, SizeChecksMeaning, FirstFailureMeaning
<1>9. OpenError(p, s, c) \in Errors \cup {"ok"}
  BY <1>5, <1>8
<1>10. ASSUME ~(c.size > p.maxSize), ~(p.rejectEmpty /\ c.size = 0),
              s.size \in {Undeclared, c.size}
       PROVE  OpenError(p, s, c) = "ok"
  <2>1. FirstFailure(late) = "ok" /\ FirstFailure(copied) = "ok" /\ FirstFailure(early) = "ok"
    BY <1>1, <1>2, <1>3, <1>4, <1>10
  <2>2. FirstFailure(early \o copied \o late) = "ok"
    BY <1>6, <1>7, <2>1
  <2>3. FirstFailure(SizeChecks(p, c.size)) = "ok"
    BY <1>10, SizeChecksMeaning
  <2> QED
    BY <1>5, <2>1, <2>2, <2>3
<1> QED
  BY <1>9, <1>10

(* What the validation before the structure lets through, whatever the     *)
(* order of its five lists.                                                *)
LEMMA DeclaredErrorMeaning ==
  ASSUME NEW p, NEW s, NEW c, NEW size, NEW f
  PROVE  /\ DeclaredError(p, s, c, size, f) \in Errors \cup {"ok"}
         /\ DeclaredError(p, s, c, size, f) = "ok" <=>
              /\ s.name # "unsafe"
              /\ ~(size > p.maxSize) /\ ~(p.rejectEmpty /\ size = 0)
              /\ ~(p.rejectEmpty /\ c.size = 0)
              /\ f \in p.formats \ {"unknown"}
              /\ s.mime \in p.mimes \cup {"none"}
              /\ p.requireMime => s.mime \in {"none", f}
              /\ p.allowExtension \/ s.ext \in {"none", f}
<1> DEFINE a == NameChecks(s)
           b == SizeChecks(p, size)
           e == <<Check(p.rejectEmpty /\ c.size = 0, "empty")>>
           g == FormatChecks(p, f)
           h == DeclarationChecks(p, s, f)
<1>1. a \in Seq(Checks) /\ (FirstFailure(a) = "ok" <=> s.name # "unsafe")
  BY FewChecks
<1>2. /\ b \in Seq(Checks)
      /\ FirstFailure(b) = "ok" <=> ~(size > p.maxSize) /\ ~(p.rejectEmpty /\ size = 0)
  BY SizeChecksMeaning
<1>3. /\ e \in Seq(Checks)
      /\ FirstFailure(e) = "ok" <=> ~(p.rejectEmpty /\ c.size = 0)
  <2>1. "empty" \in Errors
    BY DEF Errors, Outcomes
  <2>2. (p.rejectEmpty /\ c.size = 0) \in BOOLEAN
    OBVIOUS
  <2> QED
    BY <2>1, <2>2, OneCheck
<1>4. g \in Seq(Checks) /\ (FirstFailure(g) = "ok" <=> f \in p.formats \ {"unknown"})
  BY FewChecks
<1>5. /\ h \in Seq(Checks)
      /\ FirstFailure(h) = "ok" <=> /\ s.mime \in p.mimes \cup {"none"}
                                    /\ p.requireMime => s.mime \in {"none", f}
                                    /\ p.allowExtension \/ s.ext \in {"none", f}
  BY DeclarationChecksMeaning
<1>6. DeclaredError(p, s, c, size, f) = FirstFailure(a \o b \o e \o g \o h)
  BY DEF DeclaredError
<1> HIDE DEF a, b, e, g, h
<1>7. /\ a \o b \in Seq(Checks)
      /\ FirstFailure(a \o b) = "ok" <=> FirstFailure(a) = "ok" /\ FirstFailure(b) = "ok"
  BY <1>1, <1>2, MoreChecks
<1>8. /\ a \o b \o e \in Seq(Checks)
      /\ FirstFailure(a \o b \o e) = "ok" <=> FirstFailure(a \o b) = "ok" /\ FirstFailure(e) = "ok"
  BY <1>3, <1>7, MoreChecks
<1>9. /\ a \o b \o e \o g \in Seq(Checks)
      /\ FirstFailure(a \o b \o e \o g) = "ok" <=>
           FirstFailure(a \o b \o e) = "ok" /\ FirstFailure(g) = "ok"
  BY <1>4, <1>8, MoreChecks
<1>10. /\ a \o b \o e \o g \o h \in Seq(Checks)
       /\ FirstFailure(a \o b \o e \o g \o h) = "ok" <=>
            FirstFailure(a \o b \o e \o g) = "ok" /\ FirstFailure(h) = "ok"
  BY <1>5, <1>9, MoreChecks
<1>11. DeclaredError(p, s, c, size, f) \in Errors \cup {"ok"}
  BY <1>6, <1>10, FirstFailureMeaning
<1>12. DeclaredError(p, s, c, size, f) = "ok" <=>
         /\ FirstFailure(a) = "ok" /\ FirstFailure(b) = "ok" /\ FirstFailure(e) = "ok"
         /\ FirstFailure(g) = "ok" /\ FirstFailure(h) = "ok"
  BY <1>6, <1>7, <1>8, <1>9, <1>10
<1> QED
  BY <1>1, <1>2, <1>3, <1>4, <1>5, <1>11, <1>12

(* What the archive checks leave: ArchiveChecksMeaning. *)
ArchiveSound(p, c) ==
  LET packed == IF PackedSize(c) = 0 THEN 1 ELSE PackedSize(c) IN
  /\ c.magic = "zip"
  /\ ~(Len(c.entries) > p.maxEntries)
  /\ \A k \in DOMAIN c.entries :
       LET e == c.entries[k] IN
       /\ e.name # "unsafe" /\ ~(e.size > p.maxEntry)
       /\ ~(e.encrypted /\ ~p.allowEncrypted)
       /\ ~(e.name \in Required /\ e.encrypted)
  /\ ~(TotalSize(c) > p.maxTotal)
  /\ ~(TotalSize(c) > p.maxRatio * packed)
  /\ Required \subseteq Names(c)

StructureSound(p, c, f) ==
  /\ f \in Signatures => /\ ~(c.size = 0 \/ c.magic # f)
                         /\ ~(c.size < ShortestSample[f])
  /\ f = "csv"  => ~(c.size # 0 /\ c.text = "binary")
  /\ f = "xlsx" => ArchiveSound(p, c)

PagesSound(p, s) ==
  /\ s.pages # Malformed
  /\ ~(s.pages # Undeclared /\ p.maxPages # Undeclared /\ s.pages > p.maxPages)

(* What the validation of the structure and of the page count lets         *)
(* through.                                                                *)
LEMMA StructureErrorMeaning ==
  ASSUME NEW p, NEW s, NEW c, NEW f
  PROVE  /\ StructureError(p, s, c, f) \in Errors \cup {"ok"}
         /\ StructureError(p, s, c, f) = "ok" <=> StructureSound(p, c, f) /\ PagesSound(p, s)
<1> DEFINE a == StructureChecks(p, c, f)
           b == PageChecks(p, s)
<1>1. /\ "csv" \notin Signatures /\ "xlsx" \notin Signatures
  BY DEF Signatures
<1>2. a \in Seq(Checks) /\ (FirstFailure(a) = "ok" <=> StructureSound(p, c, f))
  <2>1. CASE f \in Signatures
    <3>1. a \in Seq(Checks) /\ DOMAIN a = 1 .. 2
      <4> DEFINE x == Check(c.size = 0 \/ c.magic # f, "corrupted")
                 y == Check(c.size < ShortestSample[f], "truncated")
      <4>1. x \in Checks /\ y \in Checks
        BY DEF Check, Checks, Errors, Outcomes
      <4>2. f # "csv" /\ f # "xlsx"
        BY <1>1, <2>1
      <4>3. a = <<x, y>>
        BY <2>1, <4>2 DEF StructureChecks
      <4> HIDE DEF a, x, y
      <4> QED
        BY <4>1, <4>3
    <3>2. a[1].fails <=> (c.size = 0 \/ c.magic # f)
      BY <1>1, <2>1 DEF StructureChecks, Check
    <3>3. a[2].fails <=> c.size < ShortestSample[f]
      BY <1>1, <2>1 DEF StructureChecks, Check
    <3> HIDE DEF a
    <3>4. (\A k \in DOMAIN a : ~a[k].fails) <=> ~a[1].fails /\ ~a[2].fails
      BY <3>1
    <3>5. FirstFailure(a) = "ok" <=> \A k \in DOMAIN a : ~a[k].fails
      BY <3>1, FirstFailureMeaning
    <3> QED
      BY <1>1, <2>1, <3>1, <3>2, <3>3, <3>4, <3>5 DEF StructureSound
  <2>2. CASE f = "csv"
    <3>1. "corrupted" \in Errors
      BY DEF Errors, Outcomes
    <3>2. (c.size # 0 /\ c.text = "binary") \in BOOLEAN
      OBVIOUS
    <3>3. a = <<Check(c.size # 0 /\ c.text = "binary", "corrupted")>>
      BY <1>1, <2>2 DEF StructureChecks
    <3> QED
      BY <1>1, <2>2, <3>1, <3>2, <3>3, OneCheck DEF StructureSound
  <2>3. CASE f = "xlsx"
    <3>1. a = ArchiveChecks(p, c)
      BY <1>1, <2>3 DEF StructureChecks
    <3>2. FirstFailure(a) = "ok" <=> ArchiveSound(p, c)
      BY <3>1, ArchiveChecksMeaning DEF ArchiveSound
    <3> QED
      BY <1>1, <2>3, <3>1, <3>2, ArchiveChecksMeaning DEF StructureSound
  <2>4. CASE f \notin Signatures /\ f # "csv" /\ f # "xlsx"
    <3>1. a = << >>
      BY <2>4 DEF StructureChecks
    <3> QED
      BY <2>4, <3>1, NoCheck DEF StructureSound
  <2> QED
    BY <2>1, <2>2, <2>3, <2>4
<1>3. b \in Seq(Checks) /\ (FirstFailure(b) = "ok" <=> PagesSound(p, s))
  BY PageChecksMeaning DEF PagesSound
<1>4. StructureError(p, s, c, f) = FirstFailure(a \o b)
  BY DEF StructureError
<1> HIDE DEF a, b
<1>5. a \o b \in Seq(Checks) /\ (FirstFailure(a \o b) = "ok" <=> FirstFailure(a) = "ok" /\ FirstFailure(b) = "ok")
  BY <1>2, <1>3, MoreChecks
<1>6. FirstFailure(a \o b) \in Errors \cup {"ok"}
  BY <1>5, FirstFailureMeaning
<1> QED
  BY <1>2, <1>3, <1>4, <1>5, <1>6

(* Detection answers a format, or that it does not know one.               *)
LEMMA DetectType ==
  ASSUME NEW s, NEW c
  PROVE  Detect(s, c) \in Formats \cup {"unknown"}
BY DEF Detect, Formats

(* What the checks let through meets every condition of Acceptable ...     *)
LEMMA CheckedIsAcceptable ==
  ASSUME NEW p \in Policies, NEW s \in Sources, NEW c \in Contents, NEW size,
         c.size <= p.maxSize,
         DeclaredError(p, s, c, size, Detect(s, c)) = "ok",
         StructureError(p, s, c, Detect(s, c)) = "ok"
  PROVE  Acceptable(p, s, c)
<1> DEFINE f == Detect(s, c)
<1>1. /\ s.name # "unsafe" /\ ~(p.rejectEmpty /\ c.size = 0)
      /\ f \in p.formats \ {"unknown"}
      /\ s.mime \in p.mimes \cup {"none"}
      /\ p.requireMime => s.mime \in {"none", f}
      /\ p.allowExtension \/ s.ext \in {"none", f}
  BY DeclaredErrorMeaning
<1>2. StructureSound(p, c, f) /\ PagesSound(p, s)
  BY StructureErrorMeaning
<1>3. /\ c.size \in Nat /\ Len(c.entries) \in Nat
      /\ \A k \in DOMAIN c.entries : c.entries[k].size \in Nat
      /\ TotalSize(c) \in Nat /\ PackedSize(c) \in Nat
      /\ s.pages \in Int
      /\ p.maxSize \in Nat /\ p.maxEntries \in Nat /\ p.maxEntry \in Nat
      /\ p.maxTotal \in Nat /\ p.maxRatio \in Nat
      /\ p.maxPages \in Nat \cup {Undeclared}
  BY StorageAssumption
<1>4. f \in Formats \cup {"unknown"}
  BY DetectType
<1> HIDE DEF f
<1>5. p.rejectEmpty => c.size > 0
  BY <1>1, <1>3
<1>6. s.pages # Malformed /\ (p.maxPages # Undeclared => s.pages <= p.maxPages)
  BY <1>2, <1>3 DEF PagesSound, Undeclared
<1>7. c.size >= ShortestSample[f]
  <2>1. CASE f \in Signatures
    <3>1. ShortestSample[f] \in Nat
      BY <2>1 DEF ShortestSample, Formats
    <3> QED
      BY <1>2, <1>3, <2>1, <3>1 DEF StructureSound
  <2>2. CASE f \in {"xlsx", "csv"}
    <3>1. ShortestSample[f] = 0
      BY <2>2 DEF ShortestSample, Formats
    <3> QED
      BY <1>3, <3>1
  <2> QED
    BY <1>1, <1>4, <2>1, <2>2 DEF Formats
<1>8. ASSUME f = "xlsx"
      PROVE  /\ Len(c.entries) <= p.maxEntries
             /\ TotalSize(c) <= p.maxTotal
             /\ \A k \in DOMAIN c.entries :
                  LET e == c.entries[k] IN
                  /\ e.name # "unsafe" /\ e.size <= p.maxEntry
                  /\ e.encrypted => p.allowEncrypted /\ e.name \notin Required
             /\ \/ TotalSize(c) <= p.maxRatio * PackedSize(c)
                \/ PackedSize(c) = 0 /\ TotalSize(c) <= p.maxRatio
  <2>1. ArchiveSound(p, c)
    BY <1>2, <1>8 DEF StructureSound
  <2>2. Len(c.entries) <= p.maxEntries /\ TotalSize(c) <= p.maxTotal
    BY <1>3, <2>1 DEF ArchiveSound
  <2>3. ASSUME NEW k \in DOMAIN c.entries
        PROVE  LET e == c.entries[k] IN
               /\ e.name # "unsafe" /\ e.size <= p.maxEntry
               /\ e.encrypted => p.allowEncrypted /\ e.name \notin Required
    BY <1>3, <2>1 DEF ArchiveSound
  <2>4. CASE PackedSize(c) = 0
    BY <1>3, <2>1, <2>4 DEF ArchiveSound
  <2>5. CASE PackedSize(c) # 0
    <3>1. ~(TotalSize(c) > p.maxRatio * PackedSize(c))
      BY <2>1, <2>5 DEF ArchiveSound
    <3>2. p.maxRatio * PackedSize(c) \in Nat
      BY <1>3
    <3> QED
      BY <1>3, <2>2, <2>3, <3>1, <3>2
  <2> QED
    BY <2>2, <2>3, <2>4, <2>5
<1> QED
  BY <1>1, <1>5, <1>6, <1>7, <1>8 DEF Acceptable, f

(* ... and what meets them is let through, if the size that was declared   *)
(* is the size that is there.                                              *)
LEMMA AcceptablePassesChecks ==
  ASSUME NEW p \in Policies, NEW s \in Sources, NEW c \in Contents,
         s.size \in {Undeclared, c.size}, Acceptable(p, s, c)
  PROVE  /\ OpenError(p, s, c) = "ok"
         /\ DeclaredError(p, s, c, ContentLength(s, c), Detect(s, c)) = "ok"
         /\ StructureError(p, s, c, Detect(s, c)) = "ok"
<1> DEFINE f == Detect(s, c)
<1>1. /\ c.size \in Nat /\ Len(c.entries) \in Nat
      /\ \A k \in DOMAIN c.entries : c.entries[k].size \in Nat
      /\ TotalSize(c) \in Nat /\ PackedSize(c) \in Nat
      /\ s.pages \in Int
      /\ p.maxSize \in Nat /\ p.maxEntries \in Nat /\ p.maxEntry \in Nat
      /\ p.maxTotal \in Nat /\ p.maxRatio \in Nat
      /\ p.maxPages \in Nat \cup {Undeclared}
  BY StorageAssumption
<1>2. /\ c.size <= p.maxSize
      /\ p.rejectEmpty => c.size > 0
      /\ f \in p.formats \ {"unknown"}
      /\ s.name # "unsafe"
      /\ s.mime \in p.mimes \cup {"none"}
      /\ p.requireMime => s.mime \in {f, "none"}
      /\ p.allowExtension \/ s.ext \in {f, "none"}
      /\ s.pages # Malformed
      /\ p.maxPages # Undeclared => s.pages <= p.maxPages
      /\ c.size >= ShortestSample[f]
  BY DEF Acceptable
<1>3. f = "xlsx" =>
        /\ Len(c.entries) <= p.maxEntries
        /\ TotalSize(c) <= p.maxTotal
        /\ \A k \in DOMAIN c.entries :
             LET e == c.entries[k] IN
             /\ e.name # "unsafe" /\ e.size <= p.maxEntry
             /\ e.encrypted => p.allowEncrypted /\ e.name \notin Required
        /\ \/ TotalSize(c) <= p.maxRatio * PackedSize(c)
           \/ PackedSize(c) = 0 /\ TotalSize(c) <= p.maxRatio
  BY DEF Acceptable
<1>4. f \in Formats \cup {"unknown"}
  BY DetectType
<1>5. /\ c.size = 0 => f = "unknown"
      /\ f \in Signatures => c.magic = f
      /\ f = "xlsx" => c.magic = "zip" /\ Required \subseteq Names(c)
      /\ f = "csv" => c.text \in {"table", "lines"}
  <2>1. c.size = 0 => f = "unknown"
    BY DEF Detect
  <2>2. f \in Signatures => c.magic = f
    BY DEF Detect, Signatures
  <2>3. f = "xlsx" => c.magic = "zip" /\ Required \subseteq Names(c)
    <3>1. f = "xlsx" => LooksLikeXlsx(c)
      BY DEF Detect, Signatures
    <3> QED
      BY <3>1 DEF LooksLikeXlsx
  <2>4. f = "csv" => c.text \in {"table", "lines"}
    <3>1. f = "csv" => LooksLikeCsv(s, c)
      BY DEF Detect, Signatures
    <3> QED
      BY <3>1 DEF LooksLikeCsv
  <2> QED
    BY <2>1, <2>2, <2>3, <2>4
<1> HIDE DEF f
<1>6. ContentLength(s, c) = c.size
  BY DEF ContentLength, SizeKnown
<1>7. ~(c.size > p.maxSize) /\ ~(p.rejectEmpty /\ c.size = 0)
  BY <1>1, <1>2
<1>8. OpenError(p, s, c) = "ok"
  BY <1>7, OpenErrorMeaning
<1>9. DeclaredError(p, s, c, ContentLength(s, c), f) = "ok"
  BY <1>2, <1>6, <1>7, DeclaredErrorMeaning
<1>10. PagesSound(p, s)
  BY <1>1, <1>2 DEF PagesSound, Undeclared
<1>11. StructureSound(p, c, f)
  <2>1. CASE f \in Signatures
    <3>1. ShortestSample[f] \in Nat
      BY <2>1 DEF ShortestSample, Formats
    <3> QED
      BY <1>1, <1>2, <1>5, <2>1, <3>1 DEF StructureSound, Signatures
  <2>2. CASE f = "csv"
    BY <1>5, <2>2 DEF StructureSound, Signatures
  <2>3. CASE f = "xlsx"
    <3>1. p.maxRatio * PackedSize(c) \in Nat /\ p.maxRatio * 1 = p.maxRatio /\ p.maxRatio * 0 = 0
      BY <1>1
    <3>2. ~(TotalSize(c) > p.maxRatio * (IF PackedSize(c) = 0 THEN 1 ELSE PackedSize(c)))
      BY <1>1, <1>3, <2>3, <3>1
    <3>3. ArchiveSound(p, c)
      BY <1>1, <1>3, <1>5, <2>3, <3>2 DEF ArchiveSound
    <3> QED
      BY <2>3, <3>3 DEF StructureSound, Signatures
  <2> QED
    BY <1>2, <1>4, <2>1, <2>2, <2>3 DEF Formats
<1>12. StructureError(p, s, c, f) = "ok"
  BY <1>10, <1>11, StructureErrorMeaning
<1> QED
  BY <1>8, <1>9, <1>12 DEF f
-----------------------------------------------------------------------------
(* The inductive invariant                                                  *)

(* Where an ingestion may still be before its document exists. *)
Early == {"open", "create"} \cup ReadSteps

(* The life of a document here, and what is logged of it after v steps. *)
Path == <<"received", "validated", "stored">>

Logged(history, v) ==
  /\ history \in Seq({"received", "validated", "stored"})
  /\ Len(history) = v
  /\ \A k \in 1 .. v : history[k] = Path[k]

(* The record after v steps, for the content c. *)
Written(v, c) ==
  CASE v = 0 -> NoRecord
    [] v = 1 -> [status |-> "received", version |-> 1, artifact |-> Unknown]
    [] v = 2 -> [status |-> "validated", version |-> 2, artifact |-> Unknown]
    [] v = 3 -> [status |-> "stored", version |-> 3, artifact |-> c]

(* How many transitions are logged when the ingestion is at a step. *)
Transitions(step) ==
  IF step \in Early THEN 0 ELSE IF step = "validated" THEN 1
  ELSE IF step = "answer" THEN 3 ELSE 2

WalkOf(i) ==
  \/ /\ pc[i] # "log"
     /\ record[i] = Written(Transitions(pc[i]), identity[i])
     /\ Logged(log[i], Transitions(pc[i]))
  \/ /\ pc[i] = "log"
     /\ \E v \in 1 .. 3 : record[i] = Written(v, identity[i]) /\ Logged(log[i], v - 1)

FateOf(i) ==
  /\ fate[i] = "new" => pc[i] = "open"
  /\ fate[i] = "running" => pc[i] # "open"
  /\ fate[i] # "answered" => answer[i] = "none"
  /\ fate[i] # "new" => source[i] # NoSource
  /\ answer[i] = "stored" => pc[i] = "answer"

(* What was read, checked and identified so far. *)
ReadingOf(i) ==
  /\ identity[i] = Unknown <=> pc[i] \in {"open"} \cup ReadSteps
  /\ identity[i] # Unknown => identity[i].size <= policy.maxSize
  /\ pc[i] \notin {"open", "detect", "declared", "structure"} =>
       StructureError(policy, source[i], examined[i], format[i]) = "ok"
  /\ pc[i] = "move" => spool[i] = identity[i]

SteadyOf(i) ==
  source[i] # NoSource /\ ~Mutable(source[i]) =>
    /\ pc[i] # "open" => length[i] = ContentLength(source[i], file[i])
    /\ pc[i] \notin {"open", "detect"} => format[i] = Detect(source[i], file[i])
    /\ pc[i] \notin {"open", "detect", "declared"} =>
         DeclaredError(policy, source[i], file[i], length[i], format[i]) = "ok"
    /\ pc[i] \notin {"open", "detect", "declared", "structure"} =>
         examined[i] = file[i]
    /\ identity[i] # Unknown => identity[i] = file[i]

ShelvedOf(i) ==
  /\ pc[i] = "describe" =>
       identity[i] \in deleted \/ content[identity[i]] = identity[i]
  /\ pc[i] = "stored" \/ record[i].status = "stored" =>
       \/ identity[i] \in deleted
       \/ content[identity[i]] = identity[i] /\ meta[identity[i]] = identity[i]

TemporariesOf(i) ==
  \A k \in {"content", "json"} : <<i, k>> \in temps =>
    \/ fate[i] = "crashed"
    \/ fate[i] = "running" /\ k = "content" /\ pc[i] \in {"move", "describe"}

WalkInv == \A i \in Ingestions : WalkOf(i)
FateInv == \A i \in Ingestions : FateOf(i)
ReadingInv == \A i \in Ingestions : ReadingOf(i)
SteadyInv == \A i \in Ingestions : SteadyOf(i)
ShelvedInv == \A i \in Ingestions : ShelvedOf(i)
TemporariesInv == \A i \in Ingestions : TemporariesOf(i)

StorageInv ==
  /\ TypeOK /\ WalkInv /\ FateInv /\ ReadingInv /\ SteadyInv /\ ShelvedInv
  /\ TemporariesInv /\ ContentMatchesHash /\ IncompleteExplained
  /\ AcceptedNotRefused /\ CallerStreamReturned

(* What an ingestion does in one step. *)
Steps(i) == Read(i) \/ Write(i) \/ Put(i) \/ Fault(i) \/ Crash(i)

(* Answers of an ingestion that are no check's error.                      *)
LEMMA ErrorsAreOutcomes ==
  /\ Errors \subseteq Outcomes
  /\ {"stored", "read_timeout", "cancelled", "storage_error", "too_large",
      "artifact_mismatch", "metadata_missing", "artifact_not_found", "none"} \subseteq Outcomes
  /\ "none" \notin Errors /\ "stored" \notin Errors /\ "ok" \notin Outcomes
BY DEF Errors, Outcomes

(* The values the invariant takes at each step and after each transition.  *)
LEMMA TransitionTable ==
  /\ \A step \in Early : Transitions(step) = 0
  /\ Transitions("validated") = 1
  /\ \A step \in {"lookup", "reuse", "spool", "move", "describe", "stored"} :
       Transitions(step) = 2
  /\ Transitions("answer") = 3
BY DEF Transitions, Early, ReadSteps

(* The record after each of the three writes of an ingestion.              *)
LEMMA WrittenTable ==
  ASSUME NEW c
  PROVE  /\ Written(0, c) = [status |-> "none", version |-> 0, artifact |-> Unknown]
         /\ Written(1, c) = [status |-> "received", version |-> 1, artifact |-> Unknown]
         /\ Written(2, c) = [status |-> "validated", version |-> 2, artifact |-> Unknown]
         /\ Written(3, c) = [status |-> "stored", version |-> 3, artifact |-> c]
BY DEF Written, NoRecord

(* One more line of the log; and what a log that follows the path is.      *)
LEMMA LoggedMore ==
  ASSUME NEW v \in 0 .. 2, NEW h, Logged(h, v)
  PROVE  Logged(Append(h, Path[v + 1]), v + 1)
<1> DEFINE S == {"received", "validated", "stored"}
<1>1. Path[1] \in S /\ Path[2] \in S /\ Path[3] \in S
  BY DEF Path
<1>2. Path[v + 1] \in S
  BY <1>1
<1>3. h \in Seq(S) /\ Len(h) = v /\ \A k \in 1 .. v : h[k] = Path[k]
  BY DEF Logged
<1>4. /\ Append(h, Path[v + 1]) \in Seq(S)
      /\ Len(Append(h, Path[v + 1])) = v + 1
      /\ \A k \in 1 .. v : Append(h, Path[v + 1])[k] = h[k]
      /\ Append(h, Path[v + 1])[v + 1] = Path[v + 1]
  BY <1>2, <1>3, AppendProperties
<1> QED
  BY <1>3, <1>4 DEF Logged

(* The log of a record is as much of the path as its version says.         *)
LEMMA LoggedIsPrefix ==
  ASSUME NEW v \in 0 .. 3, NEW h, Logged(h, v)
  PROVE  h = SubSeq(Path, 1, v)
<1> DEFINE S == {"received", "validated", "stored"}
<1>1. Path \in Seq(S) /\ Len(Path) = 3
  BY DEF Path
<1>2. /\ SubSeq(Path, 1, v) \in Seq(S)
      /\ Len(SubSeq(Path, 1, v)) = v
      /\ \A k \in 1 .. v : SubSeq(Path, 1, v)[k] = Path[k]
  <2>1. \A k \in 1 .. v : Path[k] \in S
    BY <1>1
  <2>2. /\ SubSeq(Path, 1, v) \in Seq(S)
        /\ Len(SubSeq(Path, 1, v)) = IF 1 <= v THEN v - 1 + 1 ELSE 0
        /\ \A k \in 1 .. v - 1 + 1 : SubSeq(Path, 1, v)[k] = Path[1 + k - 1]
    BY <2>1, SubSeqProperties
  <2> QED
    BY <2>2
<1>3. h \in Seq(S) /\ Len(h) = v /\ \A k \in 1 .. v : h[k] = Path[k]
  BY DEF Logged
<1> QED
  BY <1>2, <1>3, SeqEqual

(* The types of the initial states, which come from the episodes.          *)
LEMMA InitialTypes == Init => TypeOK
<1> SUFFICES ASSUME Init PROVE TypeOK
  OBVIOUS
<1>1. PICK e \in Episodes : policy = e.policy /\ source = e.source /\ file = e.file
  BY DEF Init
<1>2. /\ policy \in Policies
      /\ source \in [Ingestions -> Sources \cup {NoSource}]
      /\ file \in [Ingestions -> Contents]
  BY <1>1, StorageAssumption
<1> QED
  BY <1>2 DEF Init, TypeOK, NoRecord, Undeclared, Outcomes, ReadSteps, WriteSteps

(* A length is an integer, declared or counted.                            *)
LEMMA LengthType ==
  ASSUME NEW s \in Sources, NEW c \in Contents
  PROVE  ContentLength(s, c) \in Int
BY StorageAssumption DEF ContentLength, SizeKnown

(* Answers of the checks are outcomes. *)
(* How the control state moves: on to a step, or to an answer. *)
ControlTypes ==
  /\ pc     \in [Ingestions -> ReadSteps \cup WriteSteps \cup
                 {"open", "log", "lookup", "reuse", "spool", "move", "answer"}]
  /\ fate   \in [Ingestions -> {"new", "running", "answered", "crashed"}]
  /\ answer \in [Ingestions -> Outcomes]
  /\ caller \in [Ingestions -> {"original", "rewound", "consumed", "closed", "adrift"}]

(* Going on, ending, and either of the two keep the types of the control   *)
(* state.                                                                  *)
LEMMA GotoTypes ==
  ASSUME TypeOK, NEW i \in Ingestions, NEW step, Goto(i, step),
         step \in ReadSteps \cup WriteSteps \cup
                 {"open", "log", "lookup", "reuse", "spool", "move", "answer"}
  PROVE  ControlTypes'
BY DEF TypeOK, Goto, ControlTypes

(* An ingestion that ends keeps the types of what controls it.             *)
LEMMA EndTypes ==
  ASSUME TypeOK, NEW i \in Ingestions, NEW e \in Outcomes, End(i, e)
  PROVE  ControlTypes'
BY DEF TypeOK, End, Released, ControlTypes

(* So does one that goes on, to whatever step.                             *)
LEMMA ContinueTypes ==
  ASSUME TypeOK, NEW i \in Ingestions, NEW e \in Errors \cup {"ok"}, NEW step,
         Continue(i, e, step),
         step \in ReadSteps \cup WriteSteps \cup
                 {"open", "log", "lookup", "reuse", "spool", "move", "answer"}
  PROVE  ControlTypes'
<1>1. CASE e = "ok"
  BY <1>1, GotoTypes DEF Continue
<1>2. CASE e # "ok"
  <2>1. End(i, e) /\ e \in Outcomes
    BY <1>2, ErrorsAreOutcomes DEF Continue
  <2> QED
    BY <2>1, EndTypes
<1> QED
  BY <1>1, <1>2

(* Every step keeps the types; the version of a record stays within three  *)
(* because WalkInv says what is written where an ingestion stands.         *)
LEMMA TypesStep ==
  ASSUME TypeOK, WalkInv, NEW i \in Ingestions, Steps(i)
  PROVE  TypeOK'
<1> DEFINE error == DeclaredError(policy, source[i], file[i], length[i], format[i])
           fault == StructureError(policy, source[i], file[i], format[i])
<1>0. /\ OpenError(policy, source[i], file[i]) \in Errors \cup {"ok"}
      /\ error \in Errors \cup {"ok"} /\ fault \in Errors \cup {"ok"}
      /\ Detect(source[i], file[i]) \in Formats \cup {"unknown"}
  BY OpenErrorMeaning, DeclaredErrorMeaning, StructureErrorMeaning, DetectType
<1>1. CASE Open(i)
  BY <1>1, <1>0, ErrorsAreOutcomes, LengthType, StorageAssumption
     DEF Open, TypeOK, ReadSteps, WriteSteps, inputs, documents, artifacts, removal
<1>2. CASE Change(i)
  BY <1>2, StorageAssumption
     DEF Change, TypeOK, ReadSteps, WriteSteps, control, facts, documents, artifacts,
         removal
<1>3. CASE DetectFormat(i)
  BY <1>3, <1>0, ErrorsAreOutcomes
     DEF DetectFormat, TypeOK, ReadSteps, WriteSteps, inputs, documents, artifacts,
         removal, Goto
<1>4. CASE ValidateDeclared(i)
  <2>1. ControlTypes'
    BY <1>0, <1>4, ContinueTypes DEF ValidateDeclared, ReadSteps
  <2> QED
    BY <1>4, <2>1
       DEF ValidateDeclared, ControlTypes, TypeOK, inputs, facts, documents, artifacts,
           removal
<1>5. CASE ValidateStructure(i)
  <2>1. ControlTypes'
    BY <1>0, <1>5, ContinueTypes DEF ValidateStructure, ReadSteps
  <2> QED
    BY <1>5, <2>1
       DEF ValidateStructure, ControlTypes, TypeOK, inputs, documents, artifacts,
           removal
<1>6. CASE Identify(i)
  <2>1. ControlTypes'
    BY <1>6, GotoTypes, EndTypes, ErrorsAreOutcomes DEF Identify, WriteSteps
  <2>2. identity' \in [Ingestions -> Contents \cup {Unknown}]
    <3>1. CASE file[i].size > policy.maxSize
      BY <1>6, <3>1 DEF Identify, TypeOK
    <3>2. CASE ~(file[i].size > policy.maxSize)
      <4>1. identity' = [identity EXCEPT ![i] = file[i]]
        BY <1>6, <3>2 DEF Identify
      <4> QED
        BY <4>1 DEF TypeOK
    <3> QED
      BY <3>1, <3>2
  <2> QED
    BY <1>6, <2>1, <2>2
       DEF Identify, ControlTypes, TypeOK, inputs, documents, artifacts, removal
<1>7. CASE Interrupt(i)
  BY <1>7, <1>0, ErrorsAreOutcomes
     DEF Interrupt, TypeOK, ReadSteps, WriteSteps, inputs, facts, documents, artifacts,
         removal, End, Released
<1>8. CASE LateRead(i)
  BY <1>8, <1>0, ErrorsAreOutcomes
     DEF LateRead, TypeOK, ReadSteps, WriteSteps, inputs, facts, documents, artifacts,
         removal
<1>9. CASE CreateRecord(i)
  BY <1>9, <1>0, ErrorsAreOutcomes
     DEF CreateRecord, TypeOK, ReadSteps, WriteSteps, inputs, facts, artifacts, removal,
         Goto
<1>10. CASE AppendTransition(i)
  <2>0. PICK v \in 1 .. 3 : record[i] = Written(v, identity[i])
    BY <1>10 DEF AppendTransition, At, WalkInv, WalkOf
  <2>1. /\ record[i].status \in {"received", "validated", "stored"}
        /\ NextStep(record[i].status) \in {"validated", "lookup", "answer"}
    <3>1. record[i].status \in {"received", "validated", "stored"}
      BY <2>0, WrittenTable
    <3> QED
      BY <3>1 DEF NextStep
  <2>2. ControlTypes'
    BY <1>10, <2>1, GotoTypes DEF AppendTransition, WriteSteps
  <2>3. log' \in [Ingestions -> Seq({"received", "validated", "stored"})]
    <3> DEFINE S == {"received", "validated", "stored"}
    <3>1. log[i] \in Seq(S) /\ log \in [Ingestions -> Seq(S)] /\ record[i].status \in S
      BY <2>1 DEF TypeOK
    <3>2. Append(log[i], record[i].status) \in Seq(S)
      BY <3>1, AppendProperties
    <3> QED
      BY <1>10, <3>1, <3>2 DEF AppendTransition
  <2> QED
    BY <1>10, <2>2, <2>3
       DEF AppendTransition, ControlTypes, TypeOK, inputs, facts, artifacts, removal
<1>11. CASE MarkValidated(i)
  <2>1. /\ record' = [record EXCEPT ![i] = [status   |-> "validated",
                                            version  |-> record[i].version + 1,
                                            artifact |-> Unknown]]
        /\ Goto(i, "log")
    BY <1>11 DEF MarkValidated, UpdateRecord, TypeOK
  <2>2. record[i].version = 1
    <3>1. pc[i] = "validated" /\ record[i] = Written(1, identity[i])
      BY <1>11, TransitionTable DEF MarkValidated, At, WalkInv, WalkOf
    <3> QED
      BY <3>1, WrittenTable
  <2>3. ControlTypes'
    BY <2>1, GotoTypes
  <2>4. record' \in [Ingestions -> [status : {"none", "received", "validated", "stored"},
                                   version : 0..3, artifact : Contents \cup {Unknown}]]
    BY <2>1, <2>2 DEF TypeOK
  <2> QED
    BY <1>11, <2>3, <2>4
       DEF MarkValidated, UpdateRecord, ControlTypes, TypeOK, inputs, facts, artifacts,
           removal
<1>12. CASE MarkStored(i)
  <2>1. /\ record' = [record EXCEPT ![i] = [status   |-> "stored",
                                            version  |-> record[i].version + 1,
                                            artifact |-> identity[i]]]
        /\ Goto(i, "log")
    BY <1>12 DEF MarkStored, UpdateRecord, TypeOK
  <2>2. record[i].version = 2
    <3>1. pc[i] = "stored" /\ record[i] = Written(2, identity[i])
      BY <1>12, TransitionTable DEF MarkStored, At, WalkInv, WalkOf
    <3> QED
      BY <3>1, WrittenTable
  <2>3. ControlTypes'
    BY <2>1, GotoTypes
  <2>4. record' \in [Ingestions -> [status : {"none", "received", "validated", "stored"},
                                   version : 0..3, artifact : Contents \cup {Unknown}]]
    BY <2>1, <2>2 DEF TypeOK
  <2> QED
    BY <1>12, <2>3, <2>4
       DEF MarkStored, UpdateRecord, ControlTypes, TypeOK, inputs, facts, artifacts,
           removal
<1>13. CASE Answer(i)
  BY <1>13, <1>0, ErrorsAreOutcomes
     DEF Answer, TypeOK, ReadSteps, WriteSteps, inputs, facts, documents, artifacts,
         removal, End, Released
<1>14. CASE PutLookup(i)
  BY <1>14, <1>0, ErrorsAreOutcomes
     DEF PutLookup, TypeOK, ReadSteps, WriteSteps, inputs, facts, documents, artifacts,
         removal, Goto
<1>15. CASE PutReuse(i)
  <2>1. ReuseError(identity[i]) \in Errors \cup {"ok"}
    BY DEF ReuseError, Errors, Outcomes
  <2>2. ControlTypes'
    BY <1>15, <2>1, ContinueTypes DEF PutReuse, WriteSteps
  <2> QED
    BY <1>15, <2>2
       DEF PutReuse, ControlTypes, TypeOK, inputs, facts, documents, artifacts, removal
<1>16. CASE PutSpool(i)
  <2>1. ControlTypes'
    BY <1>16, GotoTypes, EndTypes, ErrorsAreOutcomes DEF PutSpool
  <2>2. /\ temps' \subseteq Ingestions \X {"content", "json"}
        /\ spool' \in [Ingestions -> Contents \cup {Unknown}]
    <3>1. CASE file[i] # identity[i]
      BY <1>16, <3>1 DEF PutSpool, TypeOK
    <3>2. CASE file[i] = identity[i]
      <4>1. temps' = temps \cup {<<i, "content">>} /\ spool' = [spool EXCEPT ![i] = file[i]]
        BY <1>16, <3>2 DEF PutSpool
      <4> QED
        BY <4>1 DEF TypeOK
    <3> QED
      BY <3>1, <3>2
  <2> QED
    BY <1>16, <2>1, <2>2
       DEF PutSpool, ControlTypes, TypeOK, inputs, facts, documents, removal
<1>17. CASE PutMove(i)
  <2>1. ControlTypes'
    BY <1>17, GotoTypes DEF PutMove, WriteSteps
  <2>2. /\ temps' \subseteq Ingestions \X {"content", "json"}
        /\ content' \in [Contents -> Contents \cup {Unknown}]
    <3>1. CASE content[identity[i]] = Unknown
      <4>1. /\ content' = [content EXCEPT ![identity[i]] = spool[i]]
            /\ temps' = temps \ {<<i, "content">>}
        BY <1>17, <3>1 DEF PutMove
      <4> QED
        BY <4>1 DEF TypeOK
    <3>2. CASE content[identity[i]] # Unknown
      BY <1>17, <3>2 DEF PutMove, TypeOK
    <3> QED
      BY <3>1, <3>2
  <2> QED
    BY <1>17, <2>1, <2>2
       DEF PutMove, ControlTypes, TypeOK, inputs, facts, documents, removal
<1>18. CASE PutDescribe(i)
  BY <1>18, <1>0, ErrorsAreOutcomes
     DEF PutDescribe, TypeOK, ReadSteps, WriteSteps, inputs, facts, documents, removal,
         Goto
<1>19. CASE Fault(i)
  BY <1>19, <1>0, ErrorsAreOutcomes
     DEF Fault, TypeOK, ReadSteps, WriteSteps, inputs, facts, documents, removal, End,
         Released
<1>20. CASE Crash(i)
  BY <1>20, <1>0, ErrorsAreOutcomes
     DEF Crash, TypeOK, ReadSteps, WriteSteps, inputs, facts, documents, removal
<1> QED
  BY <1>1, <1>2, <1>3, <1>4, <1>5, <1>6, <1>7, <1>8, <1>9, <1>10, <1>11, <1>12, <1>13,
     <1>14, <1>15, <1>16, <1>17, <1>18, <1>19, <1>20
     DEF Steps, Read, Write, Put
-----------------------------------------------------------------------------
(* What a step leaves alone                                                 *)

(* Nobody changes what was passed, and an ingestion deletes nothing.       *)
LEMMA PassedStays ==
  ASSUME NEW j \in Ingestions, Steps(j)
  PROVE  policy' = policy /\ source' = source /\ deleting' = deleting /\ deleted' = deleted
<1>1. CASE Open(j)
  BY <1>1 DEF Open, inputs, documents, artifacts, removal
<1>2. CASE Change(j)
  BY <1>2 DEF Change, control, facts, documents, artifacts, removal
<1>3. CASE DetectFormat(j)
  BY <1>3 DEF DetectFormat, Goto, inputs, documents, artifacts, removal
<1>4. CASE ValidateDeclared(j)
  BY <1>4
     DEF ValidateDeclared, Continue, Goto, End, inputs, facts, documents, artifacts,
         removal
<1>5. CASE ValidateStructure(j)
  BY <1>5
     DEF ValidateStructure, Continue, Goto, End, inputs, documents, artifacts, removal
<1>6. CASE Identify(j)
  BY <1>6 DEF Identify, Goto, End, inputs, documents, artifacts, removal
<1>7. CASE Interrupt(j)
  BY <1>7 DEF Interrupt, End, inputs, facts, documents, artifacts, removal
<1>8. CASE LateRead(j)
  BY <1>8 DEF LateRead, inputs, facts, documents, artifacts, removal
<1>9. CASE CreateRecord(j)
  BY <1>9 DEF CreateRecord, Goto, inputs, facts, artifacts, removal
<1>10. CASE AppendTransition(j)
  BY <1>10 DEF AppendTransition, Goto, inputs, facts, artifacts, removal
<1>11. CASE MarkValidated(j)
  BY <1>11 DEF MarkValidated, UpdateRecord, Goto, inputs, facts, artifacts, removal
<1>12. CASE MarkStored(j)
  BY <1>12 DEF MarkStored, UpdateRecord, Goto, inputs, facts, artifacts, removal
<1>13. CASE Answer(j)
  BY <1>13 DEF Answer, End, inputs, facts, documents, artifacts, removal
<1>14. CASE PutLookup(j)
  BY <1>14 DEF PutLookup, Goto, inputs, facts, documents, artifacts, removal
<1>15. CASE PutReuse(j)
  BY <1>15 DEF PutReuse, Continue, Goto, End, inputs, facts, documents, artifacts, removal
<1>16. CASE PutSpool(j)
  BY <1>16 DEF PutSpool, Goto, End, inputs, facts, documents, removal
<1>17. CASE PutMove(j)
  BY <1>17 DEF PutMove, Goto, inputs, facts, documents, removal
<1>18. CASE PutDescribe(j)
  BY <1>18 DEF PutDescribe, Goto, inputs, facts, documents, removal
<1>19. CASE Fault(j)
  BY <1>19 DEF Fault, End, inputs, facts, documents, removal
<1>20. CASE Crash(j)
  BY <1>20 DEF Crash, inputs, facts, documents, removal
<1> QED
  BY <1>1, <1>2, <1>3, <1>4, <1>5, <1>6, <1>7, <1>8, <1>9, <1>10, <1>11, <1>12, <1>13,
     <1>14, <1>15, <1>16, <1>17, <1>18, <1>19, <1>20
     DEF Steps, Read, Write, Put

(* A step of one ingestion leaves everything alone that belongs to         *)
(* another: what they share is the shelf.                                  *)
LEMMA OthersUntouched ==
  ASSUME TypeOK, NEW j \in Ingestions, Steps(j), NEW i \in Ingestions, i # j
  PROVE  /\ file'[i] = file[i] /\ pc'[i] = pc[i] /\ fate'[i] = fate[i]
         /\ answer'[i] = answer[i] /\ length'[i] = length[i] /\ format'[i] = format[i]
         /\ identity'[i] = identity[i] /\ examined'[i] = examined[i]
         /\ caller'[i] = caller[i] /\ record'[i] = record[i] /\ log'[i] = log[i]
         /\ spool'[i] = spool[i]
         /\ \A k : <<i, k>> \in temps' <=> <<i, k>> \in temps
<1>1. CASE Open(j)
  BY <1>1 DEF Open, TypeOK, inputs, documents, artifacts, removal
<1>2. CASE Change(j)
  BY <1>2 DEF Change, TypeOK, control, facts, documents, artifacts, removal
<1>3. CASE DetectFormat(j)
  BY <1>3 DEF DetectFormat, Goto, TypeOK, inputs, documents, artifacts, removal
<1>4. CASE ValidateDeclared(j)
  BY <1>4
     DEF ValidateDeclared, Continue, Goto, End, TypeOK, inputs, facts, documents,
         artifacts, removal
<1>5. CASE ValidateStructure(j)
  BY <1>5
     DEF ValidateStructure, Continue, Goto, End, TypeOK, inputs, documents, artifacts,
         removal
<1>6. CASE Identify(j)
  BY <1>6 DEF Identify, Goto, End, TypeOK, inputs, documents, artifacts, removal
<1>7. CASE Interrupt(j)
  BY <1>7 DEF Interrupt, End, TypeOK, inputs, facts, documents, artifacts, removal
<1>8. CASE LateRead(j)
  BY <1>8 DEF LateRead, TypeOK, inputs, facts, documents, artifacts, removal
<1>9. CASE CreateRecord(j)
  BY <1>9 DEF CreateRecord, Goto, TypeOK, inputs, facts, artifacts, removal
<1>10. CASE AppendTransition(j)
  BY <1>10 DEF AppendTransition, Goto, TypeOK, inputs, facts, artifacts, removal
<1>11. CASE MarkValidated(j)
  BY <1>11
     DEF MarkValidated, UpdateRecord, Goto, TypeOK, inputs, facts, artifacts, removal
<1>12. CASE MarkStored(j)
  BY <1>12 DEF MarkStored, UpdateRecord, Goto, TypeOK, inputs, facts, artifacts, removal
<1>13. CASE Answer(j)
  BY <1>13 DEF Answer, End, TypeOK, inputs, facts, documents, artifacts, removal
<1>14. CASE PutLookup(j)
  BY <1>14 DEF PutLookup, Goto, TypeOK, inputs, facts, documents, artifacts, removal
<1>15. CASE PutReuse(j)
  BY <1>15
     DEF PutReuse, Continue, Goto, End, TypeOK, inputs, facts, documents, artifacts,
         removal
<1>16. CASE PutSpool(j)
  BY <1>16 DEF PutSpool, Goto, End, TypeOK, inputs, facts, documents, removal
<1>17. CASE PutMove(j)
  BY <1>17 DEF PutMove, Goto, TypeOK, inputs, facts, documents, removal
<1>18. CASE PutDescribe(j)
  BY <1>18 DEF PutDescribe, Goto, TypeOK, inputs, facts, documents, removal
<1>19. CASE Fault(j)
  BY <1>19 DEF Fault, End, TypeOK, inputs, facts, documents, removal
<1>20. CASE Crash(j)
  BY <1>20 DEF Crash, TypeOK, inputs, facts, documents, removal
<1> QED
  BY <1>1, <1>2, <1>3, <1>4, <1>5, <1>6, <1>7, <1>8, <1>9, <1>10, <1>11, <1>12, <1>13,
     <1>14, <1>15, <1>16, <1>17, <1>18, <1>19, <1>20
     DEF Steps, Read, Write, Put

(* What becomes of the control state of the ingestion that takes the step. *)
LEMMA GotoEffect ==
  ASSUME TypeOK, NEW i \in Ingestions, NEW step, Goto(i, step)
  PROVE  /\ pc'[i] = step /\ fate'[i] = fate[i] /\ answer'[i] = answer[i]
         /\ caller'[i] = caller[i]
BY DEF TypeOK, Goto

(* An ingestion that ends has answered, and its stream is released.        *)
LEMMA EndEffect ==
  ASSUME TypeOK, NEW i \in Ingestions, NEW e, End(i, e)
  PROVE  /\ pc'[i] = pc[i] /\ fate'[i] = "answered" /\ answer'[i] = e
         /\ caller'[i] = Released(i)
BY DEF TypeOK, End

(* A step of an ingestion goes on, or ends with the error it met.          *)
LEMMA ContinueEffect ==
  ASSUME TypeOK, NEW i \in Ingestions, NEW e, NEW step, Continue(i, e, step)
  PROVE  \/ /\ e = "ok" /\ pc'[i] = step /\ fate'[i] = fate[i]
            /\ answer'[i] = answer[i] /\ caller'[i] = caller[i]
         \/ /\ e # "ok" /\ pc'[i] = pc[i] /\ fate'[i] = "answered"
            /\ answer'[i] = e /\ caller'[i] = Released(i)
BY GotoEffect, EndEffect DEF Continue

-----------------------------------------------------------------------------
(* The parts of the invariant, step by step                                 *)

(* The errors of the checks an ingestion makes.                            *)
LEMMA CheckAnswers ==
  ASSUME NEW i
  PROVE  /\ OpenError(policy, source[i], file[i]) \in Errors \cup {"ok"}
         /\ DeclaredError(policy, source[i], file[i], length[i], format[i]) \in Errors \cup {"ok"}
         /\ StructureError(policy, source[i], file[i], format[i]) \in Errors \cup {"ok"}
         /\ \A c : ReuseError(c) \in Errors \cup {"ok"}
<1>1. \A c : ReuseError(c) \in Errors \cup {"ok"}
  BY DEF ReuseError, Errors, Outcomes
<1> QED
  BY <1>1, OpenErrorMeaning, DeclaredErrorMeaning, StructureErrorMeaning

(* Opening: on to the detection, or an answer while the ingestion is still *)
(* at its first step.                                                      *)
LEMMA OpenEffect ==
  ASSUME TypeOK, NEW i \in Ingestions, Open(i)
  PROVE  /\ fate[i] = "new" /\ length'[i] = ContentLength(source[i], file[i])
         /\ caller'[i] \in {"rewound", "consumed", caller[i]}
         /\ \E e \in {OpenError(policy, source[i], file[i]), "read_timeout"} :
              \/ /\ e = "ok" /\ pc'[i] = "detect" /\ fate'[i] = "running"
                 /\ answer'[i] = answer[i]
              \/ /\ e # "ok" /\ pc'[i] = pc[i] /\ fate'[i] = "answered"
                 /\ answer'[i] = e
<1>1. PICK e \in {OpenError(policy, source[i], file[i]), "read_timeout"} :
        /\ fate'   = [fate EXCEPT ![i] = IF e = "ok" THEN "running" ELSE "answered"]
        /\ answer' = [answer EXCEPT ![i] = IF e = "ok" THEN answer[i] ELSE e]
        /\ pc'     = [pc EXCEPT ![i] = IF e = "ok" THEN "detect" ELSE pc[i]]
  BY DEF Open, TypeOK
<1>2. /\ fate[i] = "new" /\ length'[i] = ContentLength(source[i], file[i])
      /\ caller'[i] \in {"rewound", "consumed", caller[i]}
  BY DEF Open, TypeOK
<1> QED
  BY <1>1, <1>2 DEF TypeOK

(* An ingestion answers once, and stored only from its last step.          *)
LEMMA FateStep ==
  ASSUME TypeOK, WalkInv, FateInv, NEW j \in Ingestions, Steps(j)
  PROVE  FateInv'
<1>0. FateOf(j) /\ WalkOf(j)
  BY DEF FateInv, WalkInv
<1>1. FateOf(j)'
  <2>1. CASE Open(j)
    <3>1. source[j] # NoSource /\ source' = source
      BY <2>1 DEF Open, inputs
    <3> QED
      BY <2>1, <1>0, <3>1, OpenEffect, CheckAnswers, ErrorsAreOutcomes DEF FateOf
  <2>2. CASE Change(j)
    BY <2>2, <1>0, CheckAnswers, ErrorsAreOutcomes
       DEF Change, TypeOK, FateOf, ReadSteps, WriteSteps, Running, control, facts,
           documents, artifacts, removal
  <2>3. CASE DetectFormat(j)
    BY <2>3, <1>0, CheckAnswers, ErrorsAreOutcomes
       DEF DetectFormat, Goto, TypeOK, FateOf, ReadSteps, WriteSteps, At, Running,
           inputs, documents, artifacts, removal
  <2>4. CASE ValidateDeclared(j)
    <3>1. fate[j] = "running" /\ pc[j] = "declared" /\ source' = source
      BY <2>4 DEF ValidateDeclared, At, Running, inputs
    <3>2. PICK e \in Errors \cup {"ok"} : Continue(j, e, "structure")
      BY <2>4, CheckAnswers DEF ValidateDeclared
    <3> QED
      BY <1>0, <3>1, <3>2, ContinueEffect, ErrorsAreOutcomes DEF FateOf
  <2>5. CASE ValidateStructure(j)
    <3>1. fate[j] = "running" /\ pc[j] = "structure" /\ source' = source
      BY <2>5 DEF ValidateStructure, At, Running, inputs
    <3>2. PICK e \in Errors \cup {"ok"} : Continue(j, e, "identify")
      BY <2>5, CheckAnswers DEF ValidateStructure
    <3> QED
      BY <1>0, <3>1, <3>2, ContinueEffect, ErrorsAreOutcomes DEF FateOf
  <2>6. CASE Identify(j)
    BY <2>6, <1>0, CheckAnswers, ErrorsAreOutcomes
       DEF Identify, Goto, End, TypeOK, FateOf, ReadSteps, WriteSteps, At, Running,
           inputs, documents, artifacts, removal
  <2>7. CASE Interrupt(j)
    BY <2>7, <1>0, CheckAnswers, ErrorsAreOutcomes
       DEF Interrupt, End, TypeOK, FateOf, ReadSteps, WriteSteps, Running, inputs,
           facts, documents, artifacts, removal
  <2>8. CASE LateRead(j)
    BY <2>8, <1>0, CheckAnswers, ErrorsAreOutcomes
       DEF LateRead, TypeOK, FateOf, ReadSteps, WriteSteps, inputs, facts, documents,
           artifacts, removal
  <2>9. CASE CreateRecord(j)
    BY <2>9, <1>0, CheckAnswers, ErrorsAreOutcomes
       DEF CreateRecord, Goto, TypeOK, FateOf, ReadSteps, WriteSteps, At, Running,
           inputs, facts, artifacts, removal
  <2>10. CASE AppendTransition(j)
    <3>1. /\ fate[j] = "running" /\ source' = source
          /\ NextStep(record[j].status) # "open"
      BY <2>10 DEF AppendTransition, At, Running, inputs, NextStep
    <3> QED
      BY <2>10, <1>0, <3>1, GotoEffect DEF AppendTransition, FateOf
  <2>11. CASE MarkValidated(j)
    BY <2>11, <1>0, CheckAnswers, ErrorsAreOutcomes
       DEF MarkValidated, UpdateRecord, Goto, TypeOK, FateOf, ReadSteps, WriteSteps, At,
           Running, inputs, facts, artifacts, removal
  <2>12. CASE MarkStored(j)
    BY <2>12, <1>0, CheckAnswers, ErrorsAreOutcomes
       DEF MarkStored, UpdateRecord, Goto, TypeOK, FateOf, ReadSteps, WriteSteps, At,
           Running, inputs, facts, artifacts, removal
  <2>13. CASE Answer(j)
    BY <2>13, <1>0, CheckAnswers, ErrorsAreOutcomes
       DEF Answer, End, TypeOK, FateOf, ReadSteps, WriteSteps, At, Running, inputs,
           facts, documents, artifacts, removal
  <2>14. CASE PutLookup(j)
    BY <2>14, <1>0, CheckAnswers, ErrorsAreOutcomes
       DEF PutLookup, Goto, TypeOK, FateOf, ReadSteps, WriteSteps, At, Running, inputs,
           facts, documents, artifacts, removal
  <2>15. CASE PutReuse(j)
    BY <2>15, <1>0, CheckAnswers, ErrorsAreOutcomes
       DEF PutReuse, Continue, Goto, End, TypeOK, FateOf, ReadSteps, WriteSteps, At,
           Running, inputs, facts, documents, artifacts, removal
  <2>16. CASE PutSpool(j)
    BY <2>16, <1>0, CheckAnswers, ErrorsAreOutcomes
       DEF PutSpool, Goto, End, TypeOK, FateOf, ReadSteps, WriteSteps, At, Running,
           inputs, facts, documents, removal
  <2>17. CASE PutMove(j)
    BY <2>17, <1>0, CheckAnswers, ErrorsAreOutcomes
       DEF PutMove, Goto, TypeOK, FateOf, ReadSteps, WriteSteps, At, Running, inputs,
           facts, documents, removal
  <2>18. CASE PutDescribe(j)
    BY <2>18, <1>0, CheckAnswers, ErrorsAreOutcomes
       DEF PutDescribe, Goto, TypeOK, FateOf, ReadSteps, WriteSteps, At, Running,
           inputs, facts, documents, removal
  <2>19. CASE Fault(j)
    BY <2>19, <1>0, CheckAnswers, ErrorsAreOutcomes
       DEF Fault, End, TypeOK, FateOf, ReadSteps, WriteSteps, Running, inputs, facts,
           documents, removal
  <2>20. CASE Crash(j)
    BY <2>20, <1>0, CheckAnswers, ErrorsAreOutcomes
       DEF Crash, TypeOK, FateOf, ReadSteps, WriteSteps, Running, inputs, facts,
           documents, removal
  <2> QED
    BY <2>1, <2>2, <2>3, <2>4, <2>5, <2>6, <2>7, <2>8, <2>9, <2>10, <2>11, <2>12, <2>13,
       <2>14, <2>15, <2>16, <2>17, <2>18, <2>19, <2>20
       DEF Steps, Read, Write, Put
<1>2. ASSUME NEW i \in Ingestions, i # j PROVE FateOf(i)'
  BY <1>2, OthersUntouched, PassedStays DEF FateInv, FateOf
<1> QED
  BY <1>1, <1>2 DEF FateInv

(* Where an ingestion stands says what is in its record and its log.       *)
LEMMA WalkStep ==
  ASSUME TypeOK, WalkInv, FateInv, ReadingInv, NEW j \in Ingestions, Steps(j)
  PROVE  WalkInv'
<1>0. WalkOf(j) /\ FateOf(j) /\ ReadingOf(j)
  BY DEF WalkInv, FateInv, ReadingInv
<1>1. WalkOf(j)'
  <2>1. CASE Open(j)
    <3>1. pc[j] = "open" /\ pc'[j] \in {"open", "detect"}
      BY <2>1, <1>0 DEF Open, FateOf, TypeOK
    <3>2. record' = record /\ log' = log /\ identity' = identity
      BY <2>1 DEF Open, documents
    <3> QED
      BY <1>0, <3>1, <3>2, TransitionTable DEF WalkOf, Early, ReadSteps
  <2>2. CASE Change(j)
    BY <2>2, <1>0, TransitionTable, WrittenTable
       DEF Change, TypeOK, WalkOf, ReadSteps, WriteSteps, Early, Running, control,
           facts, documents, artifacts, removal
  <2>3. CASE DetectFormat(j)
    BY <2>3, <1>0, TransitionTable, WrittenTable
       DEF DetectFormat, Goto, TypeOK, WalkOf, ReadSteps, WriteSteps, Early, At,
           Running, inputs, documents, artifacts, removal
  <2>4. CASE ValidateDeclared(j)
    BY <2>4, <1>0, TransitionTable, WrittenTable
       DEF ValidateDeclared, Continue, Goto, End, TypeOK, WalkOf, ReadSteps, WriteSteps,
           Early, At, Running, inputs, facts, documents, artifacts, removal
  <2>5. CASE ValidateStructure(j)
    BY <2>5, <1>0, TransitionTable, WrittenTable
       DEF ValidateStructure, Continue, Goto, End, TypeOK, WalkOf, ReadSteps,
           WriteSteps, Early, At, Running, inputs, documents, artifacts, removal
  <2>6. CASE Identify(j)
    <3>1. pc[j] = "identify" /\ pc'[j] \in {"identify", "create"}
      BY <2>6, GotoEffect, EndEffect DEF Identify, At
    <3>2. record' = record /\ log' = log
      BY <2>6 DEF Identify, documents
    <3>3. Transitions(pc[j]) = 0 /\ Transitions(pc'[j]) = 0
      BY <3>1, TransitionTable DEF Early, ReadSteps
    <3>4. Written(0, identity[j]) = Written(0, identity'[j])
      BY WrittenTable
    <3> QED
      BY <1>0, <3>1, <3>2, <3>3, <3>4 DEF WalkOf
  <2>7. CASE Interrupt(j)
    BY <2>7, <1>0, TransitionTable, WrittenTable
       DEF Interrupt, End, TypeOK, WalkOf, ReadSteps, WriteSteps, Early, Running,
           inputs, facts, documents, artifacts, removal
  <2>8. CASE LateRead(j)
    BY <2>8, <1>0, TransitionTable, WrittenTable
       DEF LateRead, TypeOK, WalkOf, ReadSteps, WriteSteps, Early, inputs, facts,
           documents, artifacts, removal
  <2>9. CASE CreateRecord(j)
    BY <2>9, <1>0, TransitionTable, WrittenTable
       DEF CreateRecord, Goto, TypeOK, WalkOf, ReadSteps, WriteSteps, Early, At,
           Running, inputs, facts, artifacts, removal
  <2>10. CASE AppendTransition(j)
    <3>1. PICK v \in 1 .. 3 : record[j] = Written(v, identity[j]) /\ Logged(log[j], v - 1)
      BY <2>10, <1>0 DEF AppendTransition, At, WalkOf
    <3>2. record[j].status = Path[v]
      BY <3>1, WrittenTable DEF Path
    <3>3. /\ log'[j] = Append(log[j], Path[v])
          /\ pc'[j] = NextStep(Path[v])
          /\ record' = record /\ identity' = identity
      BY <2>10, <3>2, GotoEffect DEF AppendTransition, TypeOK, facts
    <3>4. Logged(log'[j], v)
      <4>1. v - 1 \in 0 .. 2 /\ (v - 1) + 1 = v
        OBVIOUS
      <4> QED
        BY <3>1, <3>3, <4>1, LoggedMore
    <3>5. pc'[j] # "log" /\ Transitions(pc'[j]) = v
      <4>1. /\ NextStep(Path[1]) = "validated" /\ NextStep(Path[2]) = "lookup"
            /\ NextStep(Path[3]) = "answer"
        BY DEF NextStep, Path
      <4> QED
        BY <3>3, <4>1, TransitionTable
    <3> QED
      BY <3>1, <3>3, <3>4, <3>5 DEF WalkOf
  <2>11. CASE MarkValidated(j)
    BY <2>11, <1>0, TransitionTable, WrittenTable
       DEF MarkValidated, UpdateRecord, Goto, TypeOK, WalkOf, ReadSteps, WriteSteps,
           Early, At, Running, inputs, facts, artifacts, removal
  <2>12. CASE MarkStored(j)
    BY <2>12, <1>0, TransitionTable, WrittenTable
       DEF MarkStored, UpdateRecord, Goto, TypeOK, WalkOf, ReadSteps, WriteSteps, Early,
           At, Running, inputs, facts, artifacts, removal
  <2>13. CASE Answer(j)
    BY <2>13, <1>0, TransitionTable, WrittenTable
       DEF Answer, End, TypeOK, WalkOf, ReadSteps, WriteSteps, Early, At, Running,
           inputs, facts, documents, artifacts, removal
  <2>14. CASE PutLookup(j)
    BY <2>14, <1>0, TransitionTable, WrittenTable
       DEF PutLookup, Goto, TypeOK, WalkOf, ReadSteps, WriteSteps, Early, At, Running,
           inputs, facts, documents, artifacts, removal
  <2>15. CASE PutReuse(j)
    BY <2>15, <1>0, TransitionTable, WrittenTable
       DEF PutReuse, Continue, Goto, End, TypeOK, WalkOf, ReadSteps, WriteSteps, Early,
           At, Running, inputs, facts, documents, artifacts, removal
  <2>16. CASE PutSpool(j)
    BY <2>16, <1>0, TransitionTable, WrittenTable
       DEF PutSpool, Goto, End, TypeOK, WalkOf, ReadSteps, WriteSteps, Early, At,
           Running, inputs, facts, documents, removal
  <2>17. CASE PutMove(j)
    BY <2>17, <1>0, TransitionTable, WrittenTable
       DEF PutMove, Goto, TypeOK, WalkOf, ReadSteps, WriteSteps, Early, At, Running,
           inputs, facts, documents, removal
  <2>18. CASE PutDescribe(j)
    BY <2>18, <1>0, TransitionTable, WrittenTable
       DEF PutDescribe, Goto, TypeOK, WalkOf, ReadSteps, WriteSteps, Early, At, Running,
           inputs, facts, documents, removal
  <2>19. CASE Fault(j)
    BY <2>19, <1>0, TransitionTable, WrittenTable
       DEF Fault, End, TypeOK, WalkOf, ReadSteps, WriteSteps, Early, Running, inputs,
           facts, documents, removal
  <2>20. CASE Crash(j)
    BY <2>20, <1>0, TransitionTable, WrittenTable
       DEF Crash, TypeOK, WalkOf, ReadSteps, WriteSteps, Early, Running, inputs, facts,
           documents, removal
  <2> QED
    BY <2>1, <2>2, <2>3, <2>4, <2>5, <2>6, <2>7, <2>8, <2>9, <2>10, <2>11, <2>12, <2>13,
       <2>14, <2>15, <2>16, <2>17, <2>18, <2>19, <2>20
       DEF Steps, Read, Write, Put
<1>2. ASSUME NEW i \in Ingestions, i # j PROVE WalkOf(i)'
  BY <1>2, OthersUntouched DEF WalkInv, WalkOf
<1> QED
  BY <1>1, <1>2 DEF WalkInv

(* The identity is within the limit and examined; a spooled file is the    *)
(* identity.                                                               *)
LEMMA ReadingStep ==
  ASSUME TypeOK, FateInv, ReadingInv, NEW j \in Ingestions, Steps(j)
  PROVE  ReadingInv'
<1>0. /\ FateOf(j) /\ ReadingOf(j) /\ Unknown \notin Contents
      /\ file[j] \in Contents /\ file[j].size \in Nat /\ policy.maxSize \in Nat
  BY StorageAssumption DEF FateInv, ReadingInv, TypeOK
<1>1. ReadingOf(j)'
  <2>1. CASE Open(j)
    <3>1. /\ pc[j] = "open" /\ pc'[j] \in {"open", "detect"}
      BY <2>1, <1>0, OpenEffect DEF FateOf
    <3> QED
      BY <2>1, <1>0, <3>1 DEF Open, ReadingOf, ReadSteps, inputs, artifacts
  <2>2. CASE Change(j)
    BY <2>2, <1>0
       DEF Change, TypeOK, ReadingOf, ReadSteps, WriteSteps, Running, control, facts,
           documents, artifacts, removal
  <2>3. CASE DetectFormat(j)
    BY <2>3, <1>0
       DEF DetectFormat, Goto, TypeOK, ReadingOf, ReadSteps, WriteSteps, At, Running,
           inputs, documents, artifacts, removal
  <2>4. CASE ValidateDeclared(j)
    BY <2>4, <1>0
       DEF ValidateDeclared, Continue, Goto, End, TypeOK, ReadingOf, ReadSteps,
           WriteSteps, At, Running, inputs, facts, documents, artifacts, removal
  <2>5. CASE ValidateStructure(j)
    <3>1. /\ pc[j] = "structure" /\ examined'[j] = file[j]
          /\ policy' = policy /\ source' = source /\ format' = format
          /\ identity' = identity /\ spool' = spool
      BY <2>5 DEF ValidateStructure, At, TypeOK, inputs, artifacts
    <3>2. CASE StructureError(policy, source[j], file[j], format[j]) = "ok"
      <4>1. pc'[j] = "identify"
        BY <2>5, <3>2, ContinueEffect DEF ValidateStructure
      <4> QED
        BY <1>0, <3>1, <3>2, <4>1 DEF ReadingOf, ReadSteps
    <3>3. CASE StructureError(policy, source[j], file[j], format[j]) # "ok"
      <4>1. pc'[j] = "structure"
        BY <2>5, <3>1, <3>3, ContinueEffect DEF ValidateStructure
      <4> QED
        BY <1>0, <3>1, <4>1 DEF ReadingOf, ReadSteps
    <3> QED
      BY <3>2, <3>3
  <2>6. CASE Identify(j)
    BY <2>6, <1>0
       DEF Identify, Goto, End, TypeOK, ReadingOf, ReadSteps, WriteSteps, At, Running,
           inputs, documents, artifacts, removal
  <2>7. CASE Interrupt(j)
    BY <2>7, <1>0
       DEF Interrupt, End, TypeOK, ReadingOf, ReadSteps, WriteSteps, Running, inputs,
           facts, documents, artifacts, removal
  <2>8. CASE LateRead(j)
    BY <2>8, <1>0
       DEF LateRead, TypeOK, ReadingOf, ReadSteps, WriteSteps, inputs, facts, documents,
           artifacts, removal
  <2>9. CASE CreateRecord(j)
    BY <2>9, <1>0
       DEF CreateRecord, Goto, TypeOK, ReadingOf, ReadSteps, WriteSteps, At, Running,
           inputs, facts, artifacts, removal
  <2>10. CASE AppendTransition(j)
    <3>1. /\ pc[j] = "log" /\ pc'[j] \in {"validated", "lookup", "answer"}
      BY <2>10, GotoEffect DEF AppendTransition, At, NextStep
    <3> QED
      BY <2>10, <1>0, <3>1
         DEF AppendTransition, ReadingOf, ReadSteps, inputs, facts, artifacts
  <2>11. CASE MarkValidated(j)
    BY <2>11, <1>0
       DEF MarkValidated, UpdateRecord, Goto, TypeOK, ReadingOf, ReadSteps, WriteSteps,
           At, Running, inputs, facts, artifacts, removal
  <2>12. CASE MarkStored(j)
    BY <2>12, <1>0
       DEF MarkStored, UpdateRecord, Goto, TypeOK, ReadingOf, ReadSteps, WriteSteps, At,
           Running, inputs, facts, artifacts, removal
  <2>13. CASE Answer(j)
    BY <2>13, <1>0
       DEF Answer, End, TypeOK, ReadingOf, ReadSteps, WriteSteps, At, Running, inputs,
           facts, documents, artifacts, removal
  <2>14. CASE PutLookup(j)
    BY <2>14, <1>0
       DEF PutLookup, Goto, TypeOK, ReadingOf, ReadSteps, WriteSteps, At, Running,
           inputs, facts, documents, artifacts, removal
  <2>15. CASE PutReuse(j)
    BY <2>15, <1>0
       DEF PutReuse, Continue, Goto, End, TypeOK, ReadingOf, ReadSteps, WriteSteps, At,
           Running, inputs, facts, documents, artifacts, removal
  <2>16. CASE PutSpool(j)
    BY <2>16, <1>0
       DEF PutSpool, Goto, End, TypeOK, ReadingOf, ReadSteps, WriteSteps, At, Running,
           inputs, facts, documents, removal
  <2>17. CASE PutMove(j)
    BY <2>17, <1>0
       DEF PutMove, Goto, TypeOK, ReadingOf, ReadSteps, WriteSteps, At, Running, inputs,
           facts, documents, removal
  <2>18. CASE PutDescribe(j)
    BY <2>18, <1>0
       DEF PutDescribe, Goto, TypeOK, ReadingOf, ReadSteps, WriteSteps, At, Running,
           inputs, facts, documents, removal
  <2>19. CASE Fault(j)
    BY <2>19, <1>0
       DEF Fault, End, TypeOK, ReadingOf, ReadSteps, WriteSteps, Running, inputs, facts,
           documents, removal
  <2>20. CASE Crash(j)
    BY <2>20, <1>0
       DEF Crash, TypeOK, ReadingOf, ReadSteps, WriteSteps, Running, inputs, facts,
           documents, removal
  <2> QED
    BY <2>1, <2>2, <2>3, <2>4, <2>5, <2>6, <2>7, <2>8, <2>9, <2>10, <2>11, <2>12, <2>13,
       <2>14, <2>15, <2>16, <2>17, <2>18, <2>19, <2>20
       DEF Steps, Read, Write, Put
<1>2. ASSUME NEW i \in Ingestions, i # j PROVE ReadingOf(i)'
  BY <1>2, OthersUntouched, PassedStays DEF ReadingInv, ReadingOf
<1> QED
  BY <1>1, <1>2 DEF ReadingInv

(* A source that cannot change: everything read of it was read of one      *)
(* content.                                                                *)
LEMMA SteadyStep ==
  ASSUME TypeOK, FateInv, ReadingInv, SteadyInv, NEW j \in Ingestions, Steps(j)
  PROVE  SteadyInv'
<1>0. /\ FateOf(j) /\ ReadingOf(j) /\ SteadyOf(j) /\ file[j] \in Contents
  BY DEF FateInv, ReadingInv, SteadyInv, TypeOK
<1>1. SteadyOf(j)'
  <2>1. CASE Open(j)
    <3>1. /\ pc[j] = "open" /\ pc'[j] \in {"open", "detect"}
          /\ length'[j] = ContentLength(source[j], file[j])
      BY <2>1, <1>0, OpenEffect DEF FateOf
    <3>2. identity[j] = Unknown
      BY <1>0, <3>1 DEF ReadingOf
    <3> QED
      BY <2>1, <1>0, <3>1, <3>2 DEF Open, SteadyOf, inputs
  <2>2. CASE Change(j)
    BY <2>2, <1>0
       DEF Change, TypeOK, SteadyOf, ReadSteps, WriteSteps, Running, control, facts,
           documents, artifacts, removal
  <2>3. CASE DetectFormat(j)
    BY <2>3, <1>0
       DEF DetectFormat, Goto, TypeOK, SteadyOf, ReadSteps, WriteSteps, At, Running,
           inputs, documents, artifacts, removal
  <2>4. CASE ValidateDeclared(j)
    <3>1. /\ pc[j] = "declared" /\ source' = source /\ file' = file /\ policy' = policy
          /\ length' = length /\ format' = format /\ identity' = identity
          /\ examined' = examined
      BY <2>4 DEF ValidateDeclared, At, inputs, facts
    <3> QED
      BY <2>4, <1>0, <3>1, ContinueEffect DEF ValidateDeclared, SteadyOf
  <2>5. CASE ValidateStructure(j)
    <3>1. /\ pc[j] = "structure" /\ examined'[j] = file[j]
          /\ source' = source /\ file' = file /\ policy' = policy
          /\ length' = length /\ format' = format /\ identity' = identity
      BY <2>5 DEF ValidateStructure, At, TypeOK, inputs
    <3>2. pc'[j] \in {"structure", "identify"}
      BY <2>5, <3>1, ContinueEffect DEF ValidateStructure
    <3> QED
      BY <1>0, <3>1, <3>2 DEF SteadyOf
  <2>6. CASE Identify(j)
    BY <2>6, <1>0
       DEF Identify, Goto, End, TypeOK, SteadyOf, ReadSteps, WriteSteps, At, Running,
           inputs, documents, artifacts, removal
  <2>7. CASE Interrupt(j)
    BY <2>7, <1>0
       DEF Interrupt, End, TypeOK, SteadyOf, ReadSteps, WriteSteps, Running, inputs,
           facts, documents, artifacts, removal
  <2>8. CASE LateRead(j)
    BY <2>8, <1>0
       DEF LateRead, TypeOK, SteadyOf, ReadSteps, WriteSteps, inputs, facts, documents,
           artifacts, removal
  <2>9. CASE CreateRecord(j)
    BY <2>9, <1>0
       DEF CreateRecord, Goto, TypeOK, SteadyOf, ReadSteps, WriteSteps, At, Running,
           inputs, facts, artifacts, removal
  <2>10. CASE AppendTransition(j)
    <3>1. /\ pc[j] = "log" /\ pc'[j] \in {"validated", "lookup", "answer"}
      BY <2>10, GotoEffect DEF AppendTransition, At, NextStep
    <3> QED
      BY <2>10, <1>0, <3>1 DEF AppendTransition, SteadyOf, inputs, facts
  <2>11. CASE MarkValidated(j)
    BY <2>11, <1>0
       DEF MarkValidated, UpdateRecord, Goto, TypeOK, SteadyOf, ReadSteps, WriteSteps,
           At, Running, inputs, facts, artifacts, removal
  <2>12. CASE MarkStored(j)
    BY <2>12, <1>0
       DEF MarkStored, UpdateRecord, Goto, TypeOK, SteadyOf, ReadSteps, WriteSteps, At,
           Running, inputs, facts, artifacts, removal
  <2>13. CASE Answer(j)
    BY <2>13, <1>0
       DEF Answer, End, TypeOK, SteadyOf, ReadSteps, WriteSteps, At, Running, inputs,
           facts, documents, artifacts, removal
  <2>14. CASE PutLookup(j)
    BY <2>14, <1>0
       DEF PutLookup, Goto, TypeOK, SteadyOf, ReadSteps, WriteSteps, At, Running,
           inputs, facts, documents, artifacts, removal
  <2>15. CASE PutReuse(j)
    BY <2>15, <1>0
       DEF PutReuse, Continue, Goto, End, TypeOK, SteadyOf, ReadSteps, WriteSteps, At,
           Running, inputs, facts, documents, artifacts, removal
  <2>16. CASE PutSpool(j)
    BY <2>16, <1>0
       DEF PutSpool, Goto, End, TypeOK, SteadyOf, ReadSteps, WriteSteps, At, Running,
           inputs, facts, documents, removal
  <2>17. CASE PutMove(j)
    BY <2>17, <1>0
       DEF PutMove, Goto, TypeOK, SteadyOf, ReadSteps, WriteSteps, At, Running, inputs,
           facts, documents, removal
  <2>18. CASE PutDescribe(j)
    BY <2>18, <1>0
       DEF PutDescribe, Goto, TypeOK, SteadyOf, ReadSteps, WriteSteps, At, Running,
           inputs, facts, documents, removal
  <2>19. CASE Fault(j)
    BY <2>19, <1>0
       DEF Fault, End, TypeOK, SteadyOf, ReadSteps, WriteSteps, Running, inputs, facts,
           documents, removal
  <2>20. CASE Crash(j)
    BY <2>20, <1>0
       DEF Crash, TypeOK, SteadyOf, ReadSteps, WriteSteps, Running, inputs, facts,
           documents, removal
  <2> QED
    BY <2>1, <2>2, <2>3, <2>4, <2>5, <2>6, <2>7, <2>8, <2>9, <2>10, <2>11, <2>12, <2>13,
       <2>14, <2>15, <2>16, <2>17, <2>18, <2>19, <2>20
       DEF Steps, Read, Write, Put
<1>2. ASSUME NEW i \in Ingestions, i # j PROVE SteadyOf(i)'
  BY <1>2, OthersUntouched, PassedStays DEF SteadyInv, SteadyOf
<1> QED
  BY <1>1, <1>2 DEF SteadyInv

(* An ingestion has temporary files between spooling and describing only,  *)
(* or has crashed.                                                         *)
LEMMA TemporariesStep ==
  ASSUME TypeOK, FateInv, TemporariesInv, NEW j \in Ingestions, Steps(j)
  PROVE  TemporariesInv'
<1>0. FateOf(j) /\ TemporariesOf(j)
  BY DEF FateInv, TemporariesInv
<1>1. TemporariesOf(j)'
  <2>1. CASE Open(j)
    <3>1. fate[j] = "new" /\ temps' = temps
      BY <2>1 DEF Open, artifacts
    <3> QED
      BY <1>0, <3>1 DEF TemporariesOf
  <2>2. CASE Change(j)
    BY <2>2, <1>0
       DEF Change, TypeOK, TemporariesOf, ReadSteps, WriteSteps, Running, control,
           facts, documents, artifacts, removal
  <2>3. CASE DetectFormat(j)
    BY <2>3, <1>0
       DEF DetectFormat, Goto, TypeOK, TemporariesOf, ReadSteps, WriteSteps, At,
           Running, inputs, documents, artifacts, removal
  <2>4. CASE ValidateDeclared(j)
    BY <2>4, <1>0
       DEF ValidateDeclared, Continue, Goto, End, TypeOK, TemporariesOf, ReadSteps,
           WriteSteps, At, Running, inputs, facts, documents, artifacts, removal
  <2>5. CASE ValidateStructure(j)
    BY <2>5, <1>0
       DEF ValidateStructure, Continue, Goto, End, TypeOK, TemporariesOf, ReadSteps,
           WriteSteps, At, Running, inputs, documents, artifacts, removal
  <2>6. CASE Identify(j)
    BY <2>6, <1>0
       DEF Identify, Goto, End, TypeOK, TemporariesOf, ReadSteps, WriteSteps, At,
           Running, inputs, documents, artifacts, removal
  <2>7. CASE Interrupt(j)
    BY <2>7, <1>0
       DEF Interrupt, End, TypeOK, TemporariesOf, ReadSteps, WriteSteps, Running,
           inputs, facts, documents, artifacts, removal
  <2>8. CASE LateRead(j)
    BY <2>8, <1>0
       DEF LateRead, TypeOK, TemporariesOf, ReadSteps, WriteSteps, inputs, facts,
           documents, artifacts, removal
  <2>9. CASE CreateRecord(j)
    BY <2>9, <1>0
       DEF CreateRecord, Goto, TypeOK, TemporariesOf, ReadSteps, WriteSteps, At,
           Running, inputs, facts, artifacts, removal
  <2>10. CASE AppendTransition(j)
    BY <2>10, <1>0
       DEF AppendTransition, Goto, TypeOK, TemporariesOf, ReadSteps, WriteSteps, At,
           Running, inputs, facts, artifacts, removal
  <2>11. CASE MarkValidated(j)
    BY <2>11, <1>0
       DEF MarkValidated, UpdateRecord, Goto, TypeOK, TemporariesOf, ReadSteps,
           WriteSteps, At, Running, inputs, facts, artifacts, removal
  <2>12. CASE MarkStored(j)
    BY <2>12, <1>0
       DEF MarkStored, UpdateRecord, Goto, TypeOK, TemporariesOf, ReadSteps, WriteSteps,
           At, Running, inputs, facts, artifacts, removal
  <2>13. CASE Answer(j)
    BY <2>13, <1>0
       DEF Answer, End, TypeOK, TemporariesOf, ReadSteps, WriteSteps, At, Running,
           inputs, facts, documents, artifacts, removal
  <2>14. CASE PutLookup(j)
    BY <2>14, <1>0
       DEF PutLookup, Goto, TypeOK, TemporariesOf, ReadSteps, WriteSteps, At, Running,
           inputs, facts, documents, artifacts, removal
  <2>15. CASE PutReuse(j)
    BY <2>15, <1>0
       DEF PutReuse, Continue, Goto, End, TypeOK, TemporariesOf, ReadSteps, WriteSteps,
           At, Running, inputs, facts, documents, artifacts, removal
  <2>16. CASE PutSpool(j)
    <3>1. fate[j] = "running" /\ pc[j] = "spool"
      BY <2>16 DEF PutSpool, At, Running
    <3>2. \A k \in {"content", "json"} : <<j, k>> \notin temps
      BY <1>0, <3>1 DEF TemporariesOf
    <3>3. CASE file[j] # identity[j]
      BY <2>16, <3>2, <3>3 DEF PutSpool, TemporariesOf
    <3>4. CASE file[j] = identity[j]
      <4>1. temps' = temps \cup {<<j, "content">>} /\ Goto(j, "move")
        BY <2>16, <3>4 DEF PutSpool
      <4>2. pc'[j] = "move" /\ fate'[j] = "running"
        BY <3>1, <4>1, GotoEffect
      <4> QED
        BY <3>2, <4>1, <4>2 DEF TemporariesOf
    <3> QED
      BY <3>3, <3>4
  <2>17. CASE PutMove(j)
    BY <2>17, <1>0
       DEF PutMove, Goto, TypeOK, TemporariesOf, ReadSteps, WriteSteps, At, Running,
           inputs, facts, documents, removal
  <2>18. CASE PutDescribe(j)
    BY <2>18, <1>0
       DEF PutDescribe, Goto, TypeOK, TemporariesOf, ReadSteps, WriteSteps, At, Running,
           inputs, facts, documents, removal
  <2>19. CASE Fault(j)
    BY <2>19, <1>0
       DEF Fault, End, TypeOK, TemporariesOf, ReadSteps, WriteSteps, Running, inputs,
           facts, documents, removal
  <2>20. CASE Crash(j)
    BY <2>20, <1>0
       DEF Crash, TypeOK, TemporariesOf, ReadSteps, WriteSteps, Running, inputs, facts,
           documents, removal
  <2> QED
    BY <2>1, <2>2, <2>3, <2>4, <2>5, <2>6, <2>7, <2>8, <2>9, <2>10, <2>11, <2>12, <2>13,
       <2>14, <2>15, <2>16, <2>17, <2>18, <2>19, <2>20
       DEF Steps, Read, Write, Put
<1>2. ASSUME NEW i \in Ingestions, i # j PROVE TemporariesOf(i)'
  BY <1>2, OthersUntouched DEF TemporariesInv, TemporariesOf
<1> QED
  BY <1>1, <1>2 DEF TemporariesInv

(* The stream of one caller. *)
ReturnedOf(i) ==
  fate[i] = "answered" /\ source[i].kind = "stream" /\ pc[i] # "open" =>
    IF source[i].closes THEN caller[i] = "closed"
    ELSE IF answer[i] \in {"read_timeout", "cancelled"} THEN caller[i] \in {"original", "adrift"}
    ELSE caller[i] = "original"

(* The promise to callers is one promise to each.                          *)
LEMMA ReturnedOfAll == CallerStreamReturned <=> \A i \in Ingestions : ReturnedOf(i)
BY DEF CallerStreamReturned, ReturnedOf

(* The same after a step.                                                  *)
LEMMA ReturnedOfAllNext ==
  CallerStreamReturned' <=> \A i \in Ingestions : ReturnedOf(i)'
BY DEF CallerStreamReturned, ReturnedOf

(* The caller's stream is what close() made of it, or what a late read did *)
(* to it afterwards.                                                       *)
LEMMA CallerStep ==
  ASSUME TypeOK, FateInv, CallerStreamReturned, NEW j \in Ingestions, Steps(j)
  PROVE  CallerStreamReturned'
<1>0. FateOf(j) /\ ReturnedOf(j)
  BY ReturnedOfAll DEF FateInv
<1>1. ReturnedOf(j)'
  <2>1. CASE Open(j)
    <3>1. pc[j] = "open" /\ (pc'[j] = "open" \/ fate'[j] = "running")
      BY <2>1, <1>0, OpenEffect DEF FateOf
    <3> QED
      BY <3>1 DEF ReturnedOf
  <2>2. CASE Change(j)
    BY <2>2, <1>0
       DEF Change, TypeOK, ReturnedOf, ReadSteps, WriteSteps, Running, control, facts,
           documents, artifacts, removal
  <2>3. CASE DetectFormat(j)
    BY <2>3, <1>0
       DEF DetectFormat, Goto, TypeOK, ReturnedOf, ReadSteps, WriteSteps, At, Running,
           inputs, documents, artifacts, removal
  <2>4. CASE ValidateDeclared(j)
    <3>1. fate[j] = "running" /\ source' = source
      BY <2>4 DEF ValidateDeclared, At, Running, inputs
    <3>2. fate'[j] = "running" \/ caller'[j] = Released(j)
      BY <2>4, <3>1, ContinueEffect DEF ValidateDeclared
    <3> QED
      BY <3>1, <3>2 DEF ReturnedOf, Released
  <2>5. CASE ValidateStructure(j)
    <3>1. fate[j] = "running" /\ source' = source
      BY <2>5 DEF ValidateStructure, At, Running, inputs
    <3>2. fate'[j] = "running" \/ caller'[j] = Released(j)
      BY <2>5, <3>1, ContinueEffect DEF ValidateStructure
    <3> QED
      BY <3>1, <3>2 DEF ReturnedOf, Released
  <2>6. CASE Identify(j)
    BY <2>6, <1>0
       DEF Identify, Goto, End, TypeOK, ReturnedOf, Released, ReadSteps, WriteSteps, At,
           Running, inputs, documents, artifacts, removal
  <2>7. CASE Interrupt(j)
    BY <2>7, <1>0
       DEF Interrupt, End, TypeOK, ReturnedOf, Released, ReadSteps, WriteSteps, Running,
           inputs, facts, documents, artifacts, removal
  <2>8. CASE LateRead(j)
    BY <2>8, <1>0
       DEF LateRead, TypeOK, ReturnedOf, ReadSteps, WriteSteps, inputs, facts,
           documents, artifacts, removal
  <2>9. CASE CreateRecord(j)
    BY <2>9, <1>0
       DEF CreateRecord, Goto, TypeOK, ReturnedOf, ReadSteps, WriteSteps, At, Running,
           inputs, facts, artifacts, removal
  <2>10. CASE AppendTransition(j)
    BY <2>10, <1>0
       DEF AppendTransition, Goto, TypeOK, ReturnedOf, ReadSteps, WriteSteps, At,
           Running, inputs, facts, artifacts, removal
  <2>11. CASE MarkValidated(j)
    BY <2>11, <1>0
       DEF MarkValidated, UpdateRecord, Goto, TypeOK, ReturnedOf, ReadSteps, WriteSteps,
           At, Running, inputs, facts, artifacts, removal
  <2>12. CASE MarkStored(j)
    BY <2>12, <1>0
       DEF MarkStored, UpdateRecord, Goto, TypeOK, ReturnedOf, ReadSteps, WriteSteps,
           At, Running, inputs, facts, artifacts, removal
  <2>13. CASE Answer(j)
    BY <2>13, <1>0
       DEF Answer, End, TypeOK, ReturnedOf, Released, ReadSteps, WriteSteps, At,
           Running, inputs, facts, documents, artifacts, removal
  <2>14. CASE PutLookup(j)
    BY <2>14, <1>0
       DEF PutLookup, Goto, TypeOK, ReturnedOf, ReadSteps, WriteSteps, At, Running,
           inputs, facts, documents, artifacts, removal
  <2>15. CASE PutReuse(j)
    BY <2>15, <1>0
       DEF PutReuse, Continue, Goto, End, TypeOK, ReturnedOf, Released, ReadSteps,
           WriteSteps, At, Running, inputs, facts, documents, artifacts, removal
  <2>16. CASE PutSpool(j)
    BY <2>16, <1>0
       DEF PutSpool, Goto, End, TypeOK, ReturnedOf, Released, ReadSteps, WriteSteps, At,
           Running, inputs, facts, documents, removal
  <2>17. CASE PutMove(j)
    BY <2>17, <1>0
       DEF PutMove, Goto, TypeOK, ReturnedOf, ReadSteps, WriteSteps, At, Running,
           inputs, facts, documents, removal
  <2>18. CASE PutDescribe(j)
    BY <2>18, <1>0
       DEF PutDescribe, Goto, TypeOK, ReturnedOf, ReadSteps, WriteSteps, At, Running,
           inputs, facts, documents, removal
  <2>19. CASE Fault(j)
    BY <2>19, <1>0
       DEF Fault, End, TypeOK, ReturnedOf, Released, ReadSteps, WriteSteps, Running,
           inputs, facts, documents, removal
  <2>20. CASE Crash(j)
    BY <2>20, <1>0
       DEF Crash, TypeOK, ReturnedOf, ReadSteps, WriteSteps, Running, inputs, facts,
           documents, removal
  <2> QED
    BY <2>1, <2>2, <2>3, <2>4, <2>5, <2>6, <2>7, <2>8, <2>9, <2>10, <2>11, <2>12, <2>13,
       <2>14, <2>15, <2>16, <2>17, <2>18, <2>19, <2>20
       DEF Steps, Read, Write, Put
<1>2. ASSUME NEW i \in Ingestions, i # j PROVE ReturnedOf(i)'
  BY <1>2, OthersUntouched, PassedStays, ReturnedOfAll DEF ReturnedOf
<1> QED
  BY <1>1, <1>2, ReturnedOfAllNext

(* What an ingestion answers about a source that cannot change. *)
AcceptedOf(i) ==
  /\ fate[i] = "answered" /\ ~Mutable(source[i])
  /\ Acceptable(policy, source[i], file[i])
  /\ source[i].size \in {Undeclared, file[i].size}
  => answer[i] \in {"stored", "read_timeout", "cancelled", "storage_error",
                    "metadata_missing", "artifact_not_found"}

(* No check refuses an acceptable source that cannot change: it would have *)
(* to fail on the content AcceptablePassesChecks speaks of.                *)
LEMMA AcceptedStep ==
  ASSUME TypeOK, FateInv, ReadingInv, SteadyInv, ContentMatchesHash, AcceptedNotRefused,
         NEW j \in Ingestions, Steps(j)
  PROVE  AcceptedNotRefused'
<1> DEFINE Sound == /\ ~Mutable(source[j]) /\ Acceptable(policy, source[j], file[j])
                    /\ source[j].size \in {Undeclared, file[j].size}
<1>0. /\ FateOf(j) /\ ReadingOf(j) /\ SteadyOf(j) /\ AcceptedOf(j)
      /\ file[j] \in Contents /\ policy \in Policies
      /\ source[j] \in Sources \cup {NoSource}
  BY DEF FateInv, ReadingInv, SteadyInv, AcceptedNotRefused, AcceptedOf, TypeOK
<1>a. source[j] # NoSource /\ Sound =>
        /\ OpenError(policy, source[j], file[j]) = "ok"
        /\ DeclaredError(policy, source[j], file[j], ContentLength(source[j], file[j]),
                         Detect(source[j], file[j])) = "ok"
        /\ StructureError(policy, source[j], file[j], Detect(source[j], file[j])) = "ok"
  BY <1>0, AcceptablePassesChecks
<1>b. fate[j] # "new" => source[j] # NoSource
  BY <1>0 DEF FateOf
<1>c. Sound => ~(file[j].size > policy.maxSize)
  BY <1>0, StorageAssumption DEF Acceptable
<1>1. AcceptedOf(j)'
  <2>1. CASE Open(j)
    <3>1. source[j] # NoSource /\ source' = source /\ file' = file /\ policy' = policy
      BY <2>1 DEF Open, inputs
    <3>2. Sound => answer'[j] = "read_timeout" \/ fate'[j] = "running"
      BY <2>1, <1>a, <3>1, OpenEffect
    <3> QED
      BY <3>1, <3>2 DEF AcceptedOf
  <2>2. CASE Change(j)
    BY <2>2, <1>0
       DEF Change, TypeOK, AcceptedOf, ReadSteps, WriteSteps, Running, control, facts,
           documents, artifacts, removal
  <2>3. CASE DetectFormat(j)
    BY <2>3, <1>0
       DEF DetectFormat, Goto, TypeOK, AcceptedOf, ReadSteps, WriteSteps, At, Running,
           inputs, documents, artifacts, removal
  <2>4. CASE ValidateDeclared(j)
    <3>1. /\ pc[j] = "declared" /\ fate[j] = "running"
          /\ source' = source /\ file' = file /\ policy' = policy
      BY <2>4 DEF ValidateDeclared, At, Running, inputs
    <3>2. Sound => DeclaredError(policy, source[j], file[j], length[j], format[j]) = "ok"
      BY <1>0, <1>a, <1>b, <3>1 DEF SteadyOf
    <3>3. Sound => fate'[j] = "running"
      BY <2>4, <3>1, <3>2, ContinueEffect DEF ValidateDeclared
    <3> QED
      BY <3>1, <3>3 DEF AcceptedOf
  <2>5. CASE ValidateStructure(j)
    <3>1. /\ pc[j] = "structure" /\ fate[j] = "running"
          /\ source' = source /\ file' = file /\ policy' = policy
      BY <2>5 DEF ValidateStructure, At, Running, inputs
    <3>2. Sound => StructureError(policy, source[j], file[j], format[j]) = "ok"
      BY <1>0, <1>a, <1>b, <3>1 DEF SteadyOf
    <3>3. Sound => fate'[j] = "running"
      BY <2>5, <3>1, <3>2, ContinueEffect DEF ValidateStructure
    <3> QED
      BY <3>1, <3>3 DEF AcceptedOf
  <2>6. CASE Identify(j)
    <3>1. /\ fate[j] = "running"
          /\ source' = source /\ file' = file /\ policy' = policy
      BY <2>6 DEF Identify, At, Running, inputs
    <3>2. Sound => Goto(j, "create")
      BY <2>6, <1>c DEF Identify
    <3> QED
      BY <3>1, <3>2, GotoEffect DEF AcceptedOf
  <2>7. CASE Interrupt(j)
    <3>1. source' = source /\ file' = file /\ policy' = policy
      BY <2>7 DEF Interrupt, inputs
    <3>2. answer'[j] \in {"read_timeout", "cancelled"}
      BY <2>7, EndEffect DEF Interrupt
    <3> QED
      BY <3>1, <3>2 DEF AcceptedOf
  <2>8. CASE LateRead(j)
    BY <2>8, <1>0
       DEF LateRead, TypeOK, AcceptedOf, ReadSteps, WriteSteps, inputs, facts,
           documents, artifacts, removal
  <2>9. CASE CreateRecord(j)
    BY <2>9, <1>0
       DEF CreateRecord, Goto, TypeOK, AcceptedOf, ReadSteps, WriteSteps, At, Running,
           inputs, facts, artifacts, removal
  <2>10. CASE AppendTransition(j)
    BY <2>10, <1>0
       DEF AppendTransition, Goto, TypeOK, AcceptedOf, ReadSteps, WriteSteps, At,
           Running, inputs, facts, artifacts, removal
  <2>11. CASE MarkValidated(j)
    BY <2>11, <1>0
       DEF MarkValidated, UpdateRecord, Goto, TypeOK, AcceptedOf, ReadSteps, WriteSteps,
           At, Running, inputs, facts, artifacts, removal
  <2>12. CASE MarkStored(j)
    BY <2>12, <1>0
       DEF MarkStored, UpdateRecord, Goto, TypeOK, AcceptedOf, ReadSteps, WriteSteps,
           At, Running, inputs, facts, artifacts, removal
  <2>13. CASE Answer(j)
    BY <2>13, <1>0
       DEF Answer, End, TypeOK, AcceptedOf, ReadSteps, WriteSteps, At, Running, inputs,
           facts, documents, artifacts, removal
  <2>14. CASE PutLookup(j)
    BY <2>14, <1>0
       DEF PutLookup, Goto, TypeOK, AcceptedOf, ReadSteps, WriteSteps, At, Running,
           inputs, facts, documents, artifacts, removal
  <2>15. CASE PutReuse(j)
    <3>1. /\ pc[j] = "reuse" /\ fate[j] = "running"
          /\ source' = source /\ file' = file /\ policy' = policy
      BY <2>15 DEF PutReuse, At, Running, inputs
    <3>2. identity[j] \in Contents
      BY <1>0, <3>1 DEF ReadingOf, TypeOK, ReadSteps
    <3>3. ReuseError(identity[j]) \in {"metadata_missing", "artifact_not_found", "ok"}
      BY <3>2, StorageAssumption DEF ReuseError, ContentMatchesHash
    <3>4. fate'[j] = "running" \/ answer'[j] \in {"metadata_missing", "artifact_not_found"}
      BY <2>15, <3>1, <3>3, ContinueEffect DEF PutReuse
    <3> QED
      BY <3>1, <3>4 DEF AcceptedOf
  <2>16. CASE PutSpool(j)
    <3>1. /\ pc[j] = "spool" /\ fate[j] = "running"
          /\ source' = source /\ file' = file /\ policy' = policy
      BY <2>16 DEF PutSpool, At, Running, inputs
    <3>2. Sound => file[j] = identity[j]
      BY <1>0, <1>b, <3>1 DEF SteadyOf, ReadingOf, ReadSteps
    <3>3. Sound => Goto(j, "move")
      BY <2>16, <3>2 DEF PutSpool
    <3> QED
      BY <3>1, <3>3, GotoEffect DEF AcceptedOf
  <2>17. CASE PutMove(j)
    BY <2>17, <1>0
       DEF PutMove, Goto, TypeOK, AcceptedOf, ReadSteps, WriteSteps, At, Running,
           inputs, facts, documents, removal
  <2>18. CASE PutDescribe(j)
    BY <2>18, <1>0
       DEF PutDescribe, Goto, TypeOK, AcceptedOf, ReadSteps, WriteSteps, At, Running,
           inputs, facts, documents, removal
  <2>19. CASE Fault(j)
    BY <2>19, <1>0
       DEF Fault, End, TypeOK, AcceptedOf, ReadSteps, WriteSteps, Running, inputs,
           facts, documents, removal
  <2>20. CASE Crash(j)
    BY <2>20, <1>0
       DEF Crash, TypeOK, AcceptedOf, ReadSteps, WriteSteps, Running, inputs, facts,
           documents, removal
  <2> QED
    BY <2>1, <2>2, <2>3, <2>4, <2>5, <2>6, <2>7, <2>8, <2>9, <2>10, <2>11, <2>12, <2>13,
       <2>14, <2>15, <2>16, <2>17, <2>18, <2>19, <2>20
       DEF Steps, Read, Write, Put
<1>2. ASSUME NEW i \in Ingestions, i # j PROVE AcceptedOf(i)'
  <2>1. AcceptedOf(i)
    BY <1>2 DEF AcceptedNotRefused, AcceptedOf
  <2> QED
    BY <1>2, <2>1, OthersUntouched, PassedStays DEF AcceptedOf
<1> QED
  BY <1>1, <1>2 DEF AcceptedNotRefused, AcceptedOf
-----------------------------------------------------------------------------
(* The shelf of artifacts                                                   *)

(* From the lookup on there is an identity.                                *)
LEMMA OnShelf ==
  ASSUME TypeOK, ReadingInv, NEW i \in Ingestions,
         pc[i] \in {"lookup", "reuse", "spool", "move", "describe", "stored"}
  PROVE  identity[i] \in Contents /\ identity[i] # Unknown
<1>1. ReadingOf(i) /\ identity[i] \in Contents \cup {Unknown}
  BY DEF ReadingInv, TypeOK
<1>2. pc[i] \notin {"open"} \cup ReadSteps
  BY DEF ReadSteps
<1> QED
  BY <1>1, <1>2 DEF ReadingOf

(* A put adds to the shelf and replaces nothing on it; content it adds is  *)
(* described by the next step.                                             *)
LEMMA ShelfGrows ==
  ASSUME TypeOK, FateInv, ReadingInv, ContentMatchesHash, NEW j \in Ingestions, Steps(j)
  PROVE  /\ \A c \in Contents :
              /\ content'[c] \in {content[c], c} /\ meta'[c] \in {meta[c], c}
              /\ content[c] = c => content'[c] = c
              /\ meta[c] = c => meta'[c] = c
              /\ content'[c] = content[c] \/ (pc'[j] = "describe" /\ identity'[j] = c)
         /\ pc[j] = "describe" =>
              /\ identity'[j] = identity[j]
              /\ pc'[j] = "describe" \/ meta'[identity[j]] = identity[j]
<1>0. ReadingOf(j) /\ FateOf(j)
  BY DEF ReadingInv, FateInv
<1>1. CASE Open(j)
  <2>1. content' = content /\ meta' = meta /\ identity' = identity
    BY <1>1 DEF Open, artifacts
  <2>2. pc[j] = "open"
    BY <1>1, <1>0 DEF Open, FateOf
  <2> QED
    BY <2>1, <2>2
<1>2. CASE Change(j)
  BY <1>2
     DEF Change, TypeOK, ReadSteps, WriteSteps, Running, control, facts, documents,
         artifacts, removal
<1>3. CASE DetectFormat(j)
  BY <1>3
     DEF DetectFormat, Goto, TypeOK, ReadSteps, WriteSteps, At, Running, inputs,
         documents, artifacts, removal
<1>4. CASE ValidateDeclared(j)
  BY <1>4
     DEF ValidateDeclared, Continue, Goto, End, TypeOK, ReadSteps, WriteSteps, At,
         Running, inputs, facts, documents, artifacts, removal
<1>5. CASE ValidateStructure(j)
  BY <1>5
     DEF ValidateStructure, Continue, Goto, End, TypeOK, ReadSteps, WriteSteps, At,
         Running, inputs, documents, artifacts, removal
<1>6. CASE Identify(j)
  BY <1>6
     DEF Identify, Goto, End, TypeOK, ReadSteps, WriteSteps, At, Running, inputs,
         documents, artifacts, removal
<1>7. CASE Interrupt(j)
  BY <1>7
     DEF Interrupt, End, TypeOK, ReadSteps, WriteSteps, Running, inputs, facts,
         documents, artifacts, removal
<1>8. CASE LateRead(j)
  BY <1>8
     DEF LateRead, TypeOK, ReadSteps, WriteSteps, inputs, facts, documents, artifacts,
         removal
<1>9. CASE CreateRecord(j)
  BY <1>9
     DEF CreateRecord, Goto, TypeOK, ReadSteps, WriteSteps, At, Running, inputs, facts,
         artifacts, removal
<1>10. CASE AppendTransition(j)
  BY <1>10
     DEF AppendTransition, Goto, TypeOK, ReadSteps, WriteSteps, At, Running, inputs,
         facts, artifacts, removal
<1>11. CASE MarkValidated(j)
  BY <1>11
     DEF MarkValidated, UpdateRecord, Goto, TypeOK, ReadSteps, WriteSteps, At, Running,
         inputs, facts, artifacts, removal
<1>12. CASE MarkStored(j)
  BY <1>12
     DEF MarkStored, UpdateRecord, Goto, TypeOK, ReadSteps, WriteSteps, At, Running,
         inputs, facts, artifacts, removal
<1>13. CASE Answer(j)
  BY <1>13
     DEF Answer, End, TypeOK, ReadSteps, WriteSteps, At, Running, inputs, facts,
         documents, artifacts, removal
<1>14. CASE PutLookup(j)
  BY <1>14
     DEF PutLookup, Goto, TypeOK, ReadSteps, WriteSteps, At, Running, inputs, facts,
         documents, artifacts, removal
<1>15. CASE PutReuse(j)
  BY <1>15
     DEF PutReuse, Continue, Goto, End, TypeOK, ReadSteps, WriteSteps, At, Running,
         inputs, facts, documents, artifacts, removal
<1>16. CASE PutSpool(j)
  BY <1>16
     DEF PutSpool, Goto, End, TypeOK, ReadSteps, WriteSteps, At, Running, inputs, facts,
         documents, removal
<1>17. CASE PutMove(j)
  <2>1. identity[j] \in Contents /\ identity[j] # Unknown /\ spool[j] = identity[j]
    BY <1>17, <1>0, OnShelf DEF PutMove, At, ReadingOf
  <2>2. pc[j] = "move" /\ pc'[j] = "describe" /\ identity' = identity /\ meta' = meta
    BY <1>17, GotoEffect DEF PutMove, At, facts
  <2>3. CASE content[identity[j]] = Unknown
    <3>1. content' = [content EXCEPT ![identity[j]] = identity[j]]
      BY <1>17, <2>1, <2>3 DEF PutMove
    <3> QED
      BY <2>1, <2>2, <3>1 DEF TypeOK
  <2>4. CASE content[identity[j]] # Unknown
    <3>1. content' = content
      BY <1>17, <2>4 DEF PutMove
    <3> QED
      BY <2>2, <3>1
  <2> QED
    BY <2>3, <2>4
<1>18. CASE PutDescribe(j)
  <2>1. identity[j] \in Contents /\ pc[j] = "describe"
    BY <1>18, OnShelf DEF PutDescribe, At
  <2>2. /\ content' = content /\ identity' = identity
        /\ meta' = [meta EXCEPT ![identity[j]] = identity[j]]
    BY <1>18 DEF PutDescribe, facts
  <2> QED
    BY <2>1, <2>2 DEF TypeOK
<1>19. CASE Fault(j)
  BY <1>19
     DEF Fault, End, TypeOK, ReadSteps, WriteSteps, Running, inputs, facts, documents,
         removal
<1>20. CASE Crash(j)
  BY <1>20
     DEF Crash, TypeOK, ReadSteps, WriteSteps, Running, inputs, facts, documents,
         removal
<1> QED
  BY <1>1, <1>2, <1>3, <1>4, <1>5, <1>6, <1>7, <1>8, <1>9, <1>10, <1>11, <1>12, <1>13,
     <1>14, <1>15, <1>16, <1>17, <1>18, <1>19, <1>20
     DEF Steps, Read, Write, Put

(* Hence what is on the shelf is what its hash says,                       *)
LEMMA ContentStep ==
  ASSUME TypeOK, FateInv, ReadingInv, ContentMatchesHash, NEW j \in Ingestions, Steps(j)
  PROVE  ContentMatchesHash'
BY ShelfGrows DEF ContentMatchesHash

(* content without metadata is somebody's who is about to write it,        *)
LEMMA IncompleteStep ==
  ASSUME TypeOK, FateInv, ReadingInv, ContentMatchesHash, IncompleteExplained,
         NEW j \in Ingestions, Steps(j)
  PROVE  IncompleteExplained'
<1> SUFFICES ASSUME NEW c \in Contents \ deleted, content'[c] # Unknown, meta'[c] = Unknown
             PROVE  \E i \in Ingestions : identity'[i] = c /\ pc'[i] = "describe"
  BY PassedStays DEF IncompleteExplained
<1>1. c # Unknown /\ meta[c] = Unknown
  BY ShelfGrows, StorageAssumption
<1>2. CASE content'[c] # content[c]
  BY <1>2, ShelfGrows
<1>3. CASE content'[c] = content[c]
  <2>1. PICK i \in Ingestions : identity[i] = c /\ pc[i] = "describe"
    BY <1>1, <1>3 DEF IncompleteExplained
  <2>2. CASE i # j
    BY <2>1, <2>2, OthersUntouched
  <2>3. CASE i = j
    BY <1>1, <2>1, <2>3, ShelfGrows
  <2> QED
    BY <2>2, <2>3
<1> QED
  BY <1>2, <1>3

(* and what an ingestion has put stays, whatever others put.               *)
LEMMA ShelvedStep ==
  ASSUME TypeOK, WalkInv, FateInv, ReadingInv, ShelvedInv, ContentMatchesHash,
         NEW j \in Ingestions, Steps(j)
  PROVE  ShelvedInv'
<1>0. WalkOf(j) /\ FateOf(j) /\ ReadingOf(j) /\ ShelvedOf(j)
  BY DEF WalkInv, FateInv, ReadingInv, ShelvedInv
<1>a. ASSUME NEW i \in Ingestions, identity'[i] = identity[i], ShelvedOf(i),
             pc'[i] = pc[i] \/ pc'[i] \notin {"describe", "stored"},
             record'[i].status = record[i].status \/ record'[i].status # "stored"
      PROVE  ShelvedOf(i)'
  <2>1. deleted' = deleted
    BY PassedStays
  <2>2. record[i].status = "stored" => identity[i] \in Contents
    <3>1. record[i].status = "stored" => pc[i] \in {"log", "answer"}
      BY WrittenTable DEF WalkInv, WalkOf, Transitions
    <3>2. ReadingOf(i)
      BY DEF ReadingInv
    <3>3. pc[i] \in {"log", "answer"} => identity[i] \in Contents
      BY <3>2, SMTT(30) DEF ReadingOf, TypeOK, ReadSteps
    <3> QED
      BY <3>1, <3>3
  <2>3. pc[i] \in {"describe", "stored"} => identity[i] \in Contents
    BY OnShelf
  <2> QED
    BY <1>a, <2>1, <2>2, <2>3, ShelfGrows DEF ShelvedOf
<1>1. ShelvedOf(j)'
  <2>1. CASE Open(j)
    BY <2>1, <1>0, <1>a
       DEF Open, TypeOK, ShelvedOf, ReadSteps, WriteSteps, inputs, documents, artifacts,
           removal
  <2>2. CASE Change(j)
    BY <2>2, <1>0, <1>a
       DEF Change, TypeOK, ShelvedOf, ReadSteps, WriteSteps, Running, control, facts,
           documents, artifacts, removal
  <2>3. CASE DetectFormat(j)
    BY <2>3, <1>0, <1>a
       DEF DetectFormat, Goto, TypeOK, ShelvedOf, ReadSteps, WriteSteps, At, Running,
           inputs, documents, artifacts, removal
  <2>4. CASE ValidateDeclared(j)
    BY <2>4, <1>0, <1>a
       DEF ValidateDeclared, Continue, Goto, End, TypeOK, ShelvedOf, ReadSteps,
           WriteSteps, At, Running, inputs, facts, documents, artifacts, removal
  <2>5. CASE ValidateStructure(j)
    BY <2>5, <1>0, <1>a
       DEF ValidateStructure, Continue, Goto, End, TypeOK, ShelvedOf, ReadSteps,
           WriteSteps, At, Running, inputs, documents, artifacts, removal
  <2>6. CASE Identify(j)
    <3>1. pc'[j] \in {"identify", "create"} /\ record' = record
      BY <2>6, GotoEffect, EndEffect DEF Identify, At, documents
    <3>2. record[j].status # "stored"
      BY <2>6, <1>0, TransitionTable, WrittenTable
         DEF Identify, At, WalkOf, Early, ReadSteps
    <3> QED
      BY <3>1, <3>2 DEF ShelvedOf
  <2>7. CASE Interrupt(j)
    BY <2>7, <1>0, <1>a
       DEF Interrupt, End, TypeOK, ShelvedOf, ReadSteps, WriteSteps, Running, inputs,
           facts, documents, artifacts, removal
  <2>8. CASE LateRead(j)
    BY <2>8, <1>0, <1>a
       DEF LateRead, TypeOK, ShelvedOf, ReadSteps, WriteSteps, inputs, facts, documents,
           artifacts, removal
  <2>9. CASE CreateRecord(j)
    BY <2>9, <1>0, <1>a
       DEF CreateRecord, Goto, TypeOK, ShelvedOf, ReadSteps, WriteSteps, At, Running,
           inputs, facts, artifacts, removal
  <2>10. CASE AppendTransition(j)
    <3>1. /\ pc'[j] \in {"validated", "lookup", "answer"}
          /\ record' = record /\ identity' = identity
      BY <2>10, GotoEffect DEF AppendTransition, NextStep, facts
    <3> QED
      BY <1>0, <1>a, <3>1
  <2>11. CASE MarkValidated(j)
    BY <2>11, <1>0, <1>a
       DEF MarkValidated, UpdateRecord, Goto, TypeOK, ShelvedOf, ReadSteps, WriteSteps,
           At, Running, inputs, facts, artifacts, removal
  <2>12. CASE MarkStored(j)
    BY <2>12, <1>0, <1>a
       DEF MarkStored, UpdateRecord, Goto, TypeOK, ShelvedOf, ReadSteps, WriteSteps, At,
           Running, inputs, facts, artifacts, removal
  <2>13. CASE Answer(j)
    BY <2>13, <1>0, <1>a
       DEF Answer, End, TypeOK, ShelvedOf, ReadSteps, WriteSteps, At, Running, inputs,
           facts, documents, artifacts, removal
  <2>14. CASE PutLookup(j)
    BY <2>14, <1>0, <1>a
       DEF PutLookup, Goto, TypeOK, ShelvedOf, ReadSteps, WriteSteps, At, Running,
           inputs, facts, documents, artifacts, removal
  <2>15. CASE PutReuse(j)
    <3>1. /\ pc[j] = "reuse" /\ identity[j] \in Contents
          /\ record' = record /\ identity' = identity
          /\ content' = content /\ meta' = meta
      BY <2>15, OnShelf DEF PutReuse, At, documents, facts, artifacts
    <3>2. CASE ReuseError(identity[j]) = "ok"
      <4>1. content[identity[j]] = identity[j] /\ meta[identity[j]] = identity[j]
        BY <3>2 DEF ReuseError
      <4>2. pc'[j] = "stored"
        BY <2>15, <3>2, ContinueEffect DEF PutReuse
      <4> QED
        BY <3>1, <4>1, <4>2 DEF ShelvedOf
    <3>3. CASE ReuseError(identity[j]) # "ok"
      <4>1. pc'[j] = pc[j]
        BY <2>15, <3>3, ContinueEffect DEF PutReuse
      <4> QED
        BY <1>0, <1>a, <3>1, <4>1
    <3> QED
      BY <3>2, <3>3
  <2>16. CASE PutSpool(j)
    BY <2>16, <1>0, <1>a
       DEF PutSpool, Goto, End, TypeOK, ShelvedOf, ReadSteps, WriteSteps, At, Running,
           inputs, facts, documents, removal
  <2>17. CASE PutMove(j)
    <3>1. /\ pc[j] = "move" /\ identity[j] \in Contents /\ identity[j] # Unknown
          /\ spool[j] = identity[j] /\ pc'[j] = "describe"
          /\ record' = record /\ identity' = identity
      BY <2>17, <1>0, OnShelf, GotoEffect DEF PutMove, At, ReadingOf, documents, facts
    <3>2. record[j].status # "stored"
      BY <1>0, <3>1, TransitionTable, WrittenTable DEF WalkOf
    <3>3. content'[identity[j]] = identity[j]
      <4>1. CASE content[identity[j]] = Unknown
        <5>1. content' = [content EXCEPT ![identity[j]] = identity[j]]
          BY <2>17, <3>1, <4>1 DEF PutMove
        <5> QED
          BY <3>1, <5>1 DEF TypeOK
      <4>2. CASE content[identity[j]] # Unknown
        BY <2>17, <3>1, <4>2 DEF PutMove, ContentMatchesHash
      <4> QED
        BY <4>1, <4>2
    <3> QED
      BY <3>1, <3>2, <3>3 DEF ShelvedOf
  <2>18. CASE PutDescribe(j)
    <3>1. /\ pc[j] = "describe" /\ identity[j] \in Contents /\ pc'[j] = "stored"
          /\ record' = record /\ identity' = identity /\ deleted' = deleted
          /\ content' = content
          /\ meta' = [meta EXCEPT ![identity[j]] = identity[j]]
      BY <2>18, OnShelf, GotoEffect DEF PutDescribe, At, documents, facts, removal
    <3>2. meta'[identity[j]] = identity[j]
      BY <3>1 DEF TypeOK
    <3> QED
      BY <1>0, <3>1, <3>2 DEF ShelvedOf
  <2>19. CASE Fault(j)
    BY <2>19, <1>0, <1>a
       DEF Fault, End, TypeOK, ShelvedOf, ReadSteps, WriteSteps, Running, inputs, facts,
           documents, removal
  <2>20. CASE Crash(j)
    BY <2>20, <1>0, <1>a
       DEF Crash, TypeOK, ShelvedOf, ReadSteps, WriteSteps, Running, inputs, facts,
           documents, removal
  <2> QED
    BY <2>1, <2>2, <2>3, <2>4, <2>5, <2>6, <2>7, <2>8, <2>9, <2>10, <2>11, <2>12, <2>13,
       <2>14, <2>15, <2>16, <2>17, <2>18, <2>19, <2>20
       DEF Steps, Read, Write, Put
<1>2. ASSUME NEW i \in Ingestions, i # j PROVE ShelvedOf(i)'
  BY <1>2, <1>a, OthersUntouched DEF ShelvedInv
<1> QED
  BY <1>1, <1>2 DEF ShelvedInv
-----------------------------------------------------------------------------
(* The invariant                                                            *)

(* The invariant holds initially, and no step breaks it.                   *)
LEMMA InitialInvariant == Init => StorageInv
<1> SUFFICES ASSUME Init PROVE StorageInv
  OBVIOUS
<1>1. TypeOK
  BY InitialTypes
<1>2. WalkInv
  <2>1. ASSUME NEW i \in Ingestions PROVE WalkOf(i)
    <3>1. /\ pc[i] = "open" /\ log[i] = << >> /\ record[i] = NoRecord
      BY DEF Init
    <3>2. Written(0, identity[i]) = NoRecord /\ Transitions("open") = 0
      BY WrittenTable, TransitionTable DEF NoRecord, Early
    <3>3. Logged(<< >>, 0)
      BY DEF Logged
    <3> QED
      BY <3>1, <3>2, <3>3 DEF WalkOf
  <2> QED
    BY <2>1 DEF WalkInv
<1>3. FateInv
  BY DEF Init, FateInv, FateOf
<1>4. ReadingInv
  BY DEF Init, ReadingInv, ReadingOf
<1>5. SteadyInv
  BY DEF Init, SteadyInv, SteadyOf
<1>6. ShelvedInv
  BY DEF Init, ShelvedInv, ShelvedOf, NoRecord
<1>7. TemporariesInv
  BY DEF Init, TemporariesInv, TemporariesOf
<1>8. ContentMatchesHash /\ IncompleteExplained
  BY DEF Init, ContentMatchesHash, IncompleteExplained
<1>9. AcceptedNotRefused /\ CallerStreamReturned
  BY DEF Init, AcceptedNotRefused, CallerStreamReturned
<1> QED
  BY <1>1, <1>2, <1>3, <1>4, <1>5, <1>6, <1>7, <1>8, <1>9 DEF StorageInv

(* Every step of an ingestion keeps the invariant.                         *)
LEMMA StepKeepsInvariant ==
  ASSUME StorageInv, NEW j \in Ingestions, Steps(j)
  PROVE  StorageInv'
<1>1. /\ TypeOK /\ WalkInv /\ FateInv /\ ReadingInv /\ SteadyInv /\ ShelvedInv
      /\ TemporariesInv /\ ContentMatchesHash /\ IncompleteExplained
      /\ AcceptedNotRefused /\ CallerStreamReturned
  BY DEF StorageInv
<1>2. TypeOK'
  BY <1>1, TypesStep
<1>3. WalkInv' /\ FateInv' /\ ReadingInv'
  BY <1>1, WalkStep, FateStep, ReadingStep
<1>4. SteadyInv' /\ ShelvedInv' /\ TemporariesInv'
  BY <1>1, SteadyStep, ShelvedStep, TemporariesStep
<1>5. ContentMatchesHash' /\ IncompleteExplained'
  BY <1>1, ContentStep, IncompleteStep
<1>6. AcceptedNotRefused' /\ CallerStreamReturned'
  BY <1>1, AcceptedStep, CallerStep
<1> QED
  BY <1>2, <1>3, <1>4, <1>5, <1>6 DEF StorageInv

(* A delete touches the shelf and nothing else. *)
LEMMA DeleteKeepsInvariant ==
  ASSUME StorageInv, NEW c \in Removable, DeleteContent(c) \/ DeleteMetadata(c)
  PROVE  StorageInv'
<1>0. c \in Contents /\ Unknown \notin Contents
  BY StorageAssumption
<1>1. /\ policy' = policy /\ source' = source /\ file' = file
      /\ pc' = pc /\ fate' = fate /\ answer' = answer /\ caller' = caller
      /\ length' = length /\ format' = format /\ identity' = identity
      /\ examined' = examined /\ record' = record /\ log' = log
      /\ temps' = temps /\ spool' = spool
  BY DEF DeleteContent, DeleteMetadata, inputs, control, facts, documents
<1>2. /\ deleted \subseteq deleted' /\ c \in deleted'
      /\ \A d \in Contents \ {c} : content'[d] = content[d] /\ meta'[d] = meta[d]
      /\ content'[c] \in {content[c], Unknown} /\ meta'[c] \in {meta[c], Unknown}
  BY <1>0 DEF StorageInv, TypeOK, DeleteContent, DeleteMetadata
<1>3. TypeOK'
  BY <1>0, <1>1, ZenonT(60) DEF StorageInv, TypeOK, DeleteContent, DeleteMetadata
<1>4. WalkInv'
  BY <1>1 DEF StorageInv, WalkInv, WalkOf
<1>5. FateInv'
  BY <1>1 DEF StorageInv, FateInv, FateOf
<1>6. ReadingInv'
  BY <1>1 DEF StorageInv, ReadingInv, ReadingOf
<1>7. SteadyInv'
  BY <1>1 DEF StorageInv, SteadyInv, SteadyOf
<1>8. TemporariesInv'
  BY <1>1 DEF StorageInv, TemporariesInv, TemporariesOf
<1>9. ShelvedInv'
  <2>1. ASSUME NEW i \in Ingestions PROVE ShelvedOf(i)'
    <3>1. ShelvedOf(i) /\ ReadingOf(i) /\ identity[i] \in Contents \cup {Unknown}
      BY DEF StorageInv, ShelvedInv, ReadingInv, TypeOK
    <3>2. pc[i] \in {"describe", "stored"} \/ record[i].status = "stored"
            => identity[i] \in Contents
      <4>1. record[i].status = "stored" => pc[i] \in {"log", "answer"}
        BY WrittenTable DEF StorageInv, WalkInv, WalkOf, Transitions
      <4> QED
        BY <3>1, <4>1 DEF ReadingOf, ReadSteps
    <3>3. CASE identity[i] = c
      BY <1>1, <1>2, <3>3 DEF ShelvedOf
    <3>4. CASE identity[i] # c
      BY <1>1, <1>2, <3>1, <3>2, <3>4 DEF ShelvedOf
    <3> QED
      BY <3>3, <3>4
  <2> QED
    BY <2>1 DEF ShelvedInv
<1>10. ContentMatchesHash'
  BY <1>0, <1>2 DEF StorageInv, ContentMatchesHash
<1>11. IncompleteExplained'
  BY <1>0, <1>1, <1>2 DEF StorageInv, IncompleteExplained
<1>12. AcceptedNotRefused'
  BY <1>1 DEF StorageInv, AcceptedNotRefused
<1>13. CallerStreamReturned'
  BY <1>1 DEF StorageInv, CallerStreamReturned
<1> QED
  BY <1>3, <1>4, <1>5, <1>6, <1>7, <1>8, <1>9, <1>10, <1>11, <1>12, <1>13 DEF StorageInv

(* Nor does a step of somebody else's.                                     *)
LEMMA StutterKeepsInvariant ==
  ASSUME StorageInv, UNCHANGED vars
  PROVE  StorageInv'
<1>1. /\ policy' = policy /\ source' = source /\ file' = file
      /\ pc' = pc /\ fate' = fate /\ answer' = answer /\ caller' = caller
      /\ length' = length /\ format' = format /\ identity' = identity
      /\ examined' = examined /\ record' = record /\ log' = log
      /\ content' = content /\ meta' = meta /\ temps' = temps /\ spool' = spool
      /\ deleting' = deleting /\ deleted' = deleted
  BY DEF vars
<1>2. TypeOK'
  BY <1>1 DEF StorageInv, TypeOK
<1>3. WalkInv'
  BY <1>1 DEF StorageInv, WalkInv, WalkOf
<1>4. FateInv'
  BY <1>1 DEF StorageInv, FateInv, FateOf
<1>5. ReadingInv'
  BY <1>1 DEF StorageInv, ReadingInv, ReadingOf
<1>6. SteadyInv'
  BY <1>1 DEF StorageInv, SteadyInv, SteadyOf
<1>7. ShelvedInv'
  BY <1>1 DEF StorageInv, ShelvedInv, ShelvedOf
<1>8. TemporariesInv'
  BY <1>1 DEF StorageInv, TemporariesInv, TemporariesOf
<1>9. ContentMatchesHash'
  BY <1>1 DEF StorageInv, ContentMatchesHash
<1>10. IncompleteExplained'
  BY <1>1 DEF StorageInv, IncompleteExplained
<1>11. AcceptedNotRefused'
  BY <1>1 DEF StorageInv, AcceptedNotRefused
<1>12. CallerStreamReturned'
  BY <1>1 DEF StorageInv, CallerStreamReturned
<1> QED
  BY <1>2, <1>3, <1>4, <1>5, <1>6, <1>7, <1>8, <1>9, <1>10, <1>11, <1>12 DEF StorageInv

(* Everything above, in every state that ingestions, deletes, faults and   *)
(* crashes can reach, for any number of ingestions and any contents,       *)
(* sources and policies.                                                   *)
THEOREM StorageInvariant == Spec => []StorageInv
<1>1. Init => StorageInv
  BY InitialInvariant
<1>2. StorageInv /\ [Next]_vars => StorageInv'
  <2> SUFFICES ASSUME StorageInv, [Next]_vars PROVE StorageInv'
    OBVIOUS
  <2>1. ASSUME NEW j \in Ingestions, Steps(j) PROVE StorageInv'
    BY <2>1, StepKeepsInvariant
  <2>2. ASSUME NEW c \in Removable, DeleteContent(c) \/ DeleteMetadata(c) PROVE StorageInv'
    BY <2>2, DeleteKeepsInvariant
  <2>3. CASE UNCHANGED vars
    BY <2>3, StutterKeepsInvariant
  <2> QED
    BY <2>1, <2>2, <2>3 DEF Next, Steps
<1> QED
  BY <1>1, <1>2, PTL DEF Spec

(* Every variable keeps its type.                                          *)
THEOREM StorageTypes == Spec => []TypeOK
<1>1. StorageInv => TypeOK
  BY DEF StorageInv
<1> QED
  BY <1>1, StorageInvariant, PTL

(* The bytes under a hash are the bytes with that hash and the metadata    *)
(* says so, although the source is read three times and may change between *)
(* any two, and others may put the same content meanwhile: put() compares  *)
(* its temporary file with the identity before it moves it.                *)
THEOREM ContentUnderItsHash == Spec => []ContentMatchesHash
<1>1. StorageInv => ContentMatchesHash
  BY DEF StorageInv
<1> QED
  BY <1>1, StorageInvariant, PTL

(* A document whose record says stored has an artifact with both its       *)
(* files, unless somebody deleted that content: update() with status       *)
(* stored comes after put(), and nothing but delete() takes a file from    *)
(* the shelf.                                                              *)
THEOREM StoredDocumentsHaveArtifacts == Spec => []StoredHasArtifact
<1>1. ASSUME StorageInv PROVE StoredHasArtifact
  <2>1. ASSUME NEW i \in Ingestions, record[i].status = "stored"
        PROVE  record[i].artifact = identity[i]
    BY <1>1, <2>1, WrittenTable DEF StorageInv, WalkInv, WalkOf, Transitions
  <2> QED
    BY <1>1, <2>1 DEF StorageInv, ShelvedInv, ShelvedOf, StoredHasArtifact
<1> QED
  BY <1>1, StorageInvariant, PTL

(* transitions.jsonl is the history of document.json, at most one line     *)
(* short, and that only between the two files.                             *)
THEOREM LogsFollowRecords == Spec => []LogFollowsRecord
<1>1. ASSUME StorageInv PROVE LogFollowsRecord
  <2> SUFFICES ASSUME NEW i \in Ingestions
               PROVE  LET walk == <<"received", "validated", "stored">>
                          done == record[i].version
                      IN  /\ done > 0 => record[i].status = walk[done]
                          /\ log[i] = SubSeq(walk, 1, Len(log[i]))
                          /\ \/ Len(log[i]) = done
                             \/ Len(log[i]) + 1 = done /\ pc[i] = "log"
                          /\ answer[i] = "stored" => Len(log[i]) = 3
    BY DEF LogFollowsRecord
  <2>0. WalkOf(i) /\ FateOf(i)
    BY <1>1 DEF StorageInv, WalkInv, FateInv
  <2>1. PICK v \in 0 .. 3 :
          /\ record[i] = Written(v, identity[i])
          /\ \/ pc[i] # "log" /\ Logged(log[i], v) /\ v = Transitions(pc[i])
             \/ pc[i] = "log" /\ v > 0 /\ Logged(log[i], v - 1)
    <3>1. Transitions(pc[i]) \in 0 .. 3
      BY DEF Transitions
    <3> QED
      BY <2>0, <3>1 DEF WalkOf
  <2>2. record[i].version = v /\ (v > 0 => record[i].status = Path[v])
    BY <2>1, WrittenTable DEF Path
  <2>3. Len(log[i]) = v \/ (Len(log[i]) + 1 = v /\ pc[i] = "log")
    BY <2>1 DEF Logged
  <2>4. log[i] = SubSeq(Path, 1, Len(log[i]))
    <3>1. PICK u \in 0 .. 3 : Logged(log[i], u)
      BY <2>1
    <3> QED
      BY <3>1, LoggedIsPrefix DEF Logged
  <2>5. answer[i] = "stored" => Len(log[i]) = 3
    BY <2>0, <2>1, TransitionTable DEF FateOf, Logged
  <2> QED
    BY <2>2, <2>3, <2>4, <2>5 DEF Path
<1> QED
  BY <1>1, StorageInvariant, PTL

(* What gets a record is within the size limit and passed the structure    *)
(* check; a source that could not change meets every condition of the      *)
(* policy, in whatever order the code checks them.                         *)
THEOREM RecordedDocumentsWereAccepted == Spec => []RecordedWasAccepted
<1>1. ASSUME StorageInv PROVE RecordedWasAccepted
  <2> SUFFICES ASSUME NEW i \in Ingestions, record[i] # NoRecord
               PROVE  /\ identity[i].size <= policy.maxSize
                      /\ StructureError(policy, source[i], examined[i], format[i]) = "ok"
                      /\ ~Mutable(source[i]) => Acceptable(policy, source[i], identity[i])
    BY DEF RecordedWasAccepted
  <2>1. /\ WalkOf(i) /\ FateOf(i) /\ ReadingOf(i) /\ SteadyOf(i)
        /\ policy \in Policies /\ source[i] \in Sources \cup {NoSource}
        /\ file[i] \in Contents
    BY <1>1 DEF StorageInv, TypeOK, WalkInv, FateInv, ReadingInv, SteadyInv
  <2>2. pc[i] \notin Early
    BY <2>1, TransitionTable, WrittenTable DEF WalkOf, NoRecord, Early, ReadSteps
  <2>3. /\ identity[i] # Unknown /\ source[i] # NoSource
        /\ identity[i].size <= policy.maxSize
        /\ StructureError(policy, source[i], examined[i], format[i]) = "ok"
    BY <2>1, <2>2 DEF FateOf, ReadingOf, Early, ReadSteps
  <2>4. ASSUME ~Mutable(source[i]) PROVE Acceptable(policy, source[i], identity[i])
    <3>1. /\ identity[i] = file[i] /\ examined[i] = file[i]
          /\ format[i] = Detect(source[i], file[i])
          /\ DeclaredError(policy, source[i], file[i], length[i], format[i]) = "ok"
      BY <2>1, <2>2, <2>3, <2>4 DEF SteadyOf, Early, ReadSteps
    <3> QED
      BY <2>1, <2>3, <3>1, CheckedIsAcceptable
  <2> QED
    BY <2>3, <2>4
<1> QED
  BY <1>1, StorageInvariant, PTL

(* A source that cannot change, meets every condition and is as large as   *)
(* it declares is refused by no check of resolver, validator or artifact   *)
(* store.                                                                  *)
THEOREM AcceptableIsNotRefused == Spec => []AcceptedNotRefused
<1>1. StorageInv => AcceptedNotRefused
  BY DEF StorageInv
<1> QED
  BY <1>1, StorageInvariant, PTL

(* Content without metadata is the work of an ingestion between the two    *)
(* files, or stopped there, or of a delete.                                *)
THEOREM IncompleteArtifactsExplained == Spec => []IncompleteExplained
<1>1. StorageInv => IncompleteExplained
  BY DEF StorageInv
<1> QED
  BY <1>1, StorageInvariant, PTL

(* An ingestion that answered left no temporary file, and the caller's     *)
(* stream as close() should leave it.                                      *)
THEOREM IngestionsEndCleanly == Spec => []EndsCleanly
<1>1. ASSUME StorageInv PROVE EndsCleanly
  <2>1. TemporariesRemoved
    <3>1. ASSUME NEW t \in temps PROVE fate[t[1]] \in {"running", "crashed"}
      <4>1. PICK i \in Ingestions, k \in {"content", "json"} : t = <<i, k>>
        BY <1>1, <3>1 DEF StorageInv, TypeOK
      <4> QED
        BY <1>1, <3>1, <4>1 DEF StorageInv, TemporariesInv, TemporariesOf
    <3> QED
      BY <3>1 DEF TemporariesRemoved
  <2> QED
    BY <1>1, <2>1 DEF StorageInv, EndsCleanly
<1> QED
  BY <1>1, StorageInvariant, PTL
-----------------------------------------------------------------------------
(* Storage implements DocumentStore                                         *)

StatusView == [i \in Ingestions |-> record[i].status]
WholeView  == {c \in Contents : content[c] = c /\ meta[c] = c}
ToldView   == {i \in Ingestions : answer[i] = "stored"}

(* What a step shows outside when it writes no record and no artifact. *)
LEMMA NothingShown ==
  ASSUME record' = record, identity' = identity, content' = content, meta' = meta,
         deleted' = deleted,
         \A i \in Ingestions : answer'[i] = "stored" <=> answer[i] = "stored"
  PROVE  UNCHANGED Abstract!storage
<1>1. StatusView' = StatusView /\ WholeView' = WholeView /\ ToldView' = ToldView
  BY DEF StatusView, WholeView, ToldView
<1> QED
  BY <1>1 DEF Abstract!storage, StatusView, WholeView, ToldView

(* Nothing is stored, whole or told at the beginning.                      *)
LEMMA InitMapsToInit == Init => Abstract!Init
<1> SUFFICES ASSUME Init PROVE Abstract!Init
  OBVIOUS
<1>1. StatusView = [i \in Ingestions |-> "none"]
  BY DEF Init, StatusView, NoRecord
<1>2. WholeView = {} /\ ToldView = {}
  BY StorageAssumption DEF Init, WholeView, ToldView
<1> QED
  BY <1>1, <1>2 DEF Init, Abstract!Init, StatusView, WholeView, ToldView

(* What others have been told does not change, and whether the one that    *)
(* takes the step is told is in its own answer.                            *)
LEMMA OwnAnswer ==
  ASSUME TypeOK, NEW j \in Ingestions, Steps(j), answer'[j] = "stored" <=> answer[j] = "stored"
  PROVE  \A i \in Ingestions : answer'[i] = "stored" <=> answer[i] = "stored"
BY OthersUntouched

(* A step of an ingestion is one step of the abstract store, or does not   *)
(* show there: it is an identity, a record, the second of the two files of *)
(* an artifact, or the answer.                                             *)
LEMMA StepMapsToStep ==
  ASSUME StorageInv, NEW j \in Ingestions, Steps(j)
  PROVE  [Abstract!Next]_Abstract!storage
<1>0. /\ TypeOK /\ WalkOf(j) /\ FateOf(j) /\ ReadingOf(j) /\ ShelvedOf(j)
      /\ ReadingInv /\ ContentMatchesHash /\ deleted' = deleted
  BY PassedStays DEF StorageInv, WalkInv, FateInv, ReadingInv, ShelvedInv
<1>1. CASE Open(j)
  <2>1. /\ record' = record /\ identity' = identity /\ content' = content /\ meta' = meta
    BY <1>1 DEF Open, documents, artifacts
  <2>2. answer'[j] = "stored" <=> answer[j] = "stored"
    BY <1>1, <1>0, OpenEffect, CheckAnswers, ErrorsAreOutcomes DEF FateOf
  <2> QED
    BY <1>0, <2>1, <2>2, OwnAnswer, NothingShown
<1>2. CASE Change(j)
  <2>1. /\ record' = record /\ identity' = identity /\ content' = content /\ meta' = meta
    BY <1>2 DEF Change, documents, facts, artifacts
  <2>2. answer'[j] = "stored" <=> answer[j] = "stored"
    BY <1>2, <1>0, GotoEffect, EndEffect DEF Change, FateOf, Running, control, TypeOK
  <2> QED
    BY <1>0, <2>1, <2>2, OwnAnswer, NothingShown
<1>3. CASE DetectFormat(j)
  <2>1. /\ record' = record /\ identity' = identity /\ content' = content /\ meta' = meta
    BY <1>3 DEF DetectFormat, documents, artifacts
  <2>2. answer'[j] = "stored" <=> answer[j] = "stored"
    BY <1>3, <1>0, GotoEffect, EndEffect DEF DetectFormat, FateOf, At, Running, TypeOK
  <2> QED
    BY <1>0, <2>1, <2>2, OwnAnswer, NothingShown
<1>4. CASE ValidateDeclared(j)
  <2>1. /\ record' = record /\ identity' = identity /\ content' = content /\ meta' = meta
    BY <1>4 DEF ValidateDeclared, documents, facts, artifacts
  <2>2. answer'[j] = "stored" <=> answer[j] = "stored"
    <3>1. fate[j] = "running"
      BY <1>4 DEF ValidateDeclared, At, Running
    <3> QED
      BY <1>4, <1>0, <3>1, ContinueEffect, CheckAnswers, ErrorsAreOutcomes
         DEF ValidateDeclared, FateOf
  <2> QED
    BY <1>0, <2>1, <2>2, OwnAnswer, NothingShown
<1>5. CASE ValidateStructure(j)
  <2>1. /\ record' = record /\ identity' = identity /\ content' = content /\ meta' = meta
    BY <1>5 DEF ValidateStructure, documents, artifacts
  <2>2. answer'[j] = "stored" <=> answer[j] = "stored"
    <3>1. fate[j] = "running"
      BY <1>5 DEF ValidateStructure, At, Running
    <3> QED
      BY <1>5, <1>0, <3>1, ContinueEffect, CheckAnswers, ErrorsAreOutcomes
         DEF ValidateStructure, FateOf
  <2> QED
    BY <1>0, <2>1, <2>2, OwnAnswer, NothingShown
<1>6. CASE Identify(j)
  <2>1. /\ record' = record /\ content' = content /\ meta' = meta /\ pc[j] = "identify"
        /\ fate[j] = "running"
    BY <1>6 DEF Identify, At, Running, documents, artifacts
  <2>2. CASE file[j].size > policy.maxSize
    <3>1. identity' = identity /\ End(j, "too_large")
      BY <1>6, <2>2 DEF Identify
    <3>2. answer'[j] = "stored" <=> answer[j] = "stored"
      BY <1>0, <2>1, <3>1, EndEffect DEF FateOf
    <3> QED
      BY <1>0, <2>1, <3>1, <3>2, OwnAnswer, NothingShown
  <2>3. CASE ~(file[j].size > policy.maxSize)
    <3>1. identity' = [identity EXCEPT ![j] = file[j]] /\ Goto(j, "create")
      BY <1>6, <2>3 DEF Identify
    <3>2. answer' = answer
      BY <3>1 DEF Goto
    <3>3. identity[j] = Unknown /\ file[j] \in Contents /\ StatusView[j] = "none"
      BY <1>0, <2>1, TransitionTable, WrittenTable
         DEF ReadingOf, ReadSteps, WalkOf, Early, TypeOK, StatusView
    <3>4. StatusView' = StatusView /\ WholeView' = WholeView /\ ToldView' = ToldView
      BY <2>1, <3>2 DEF StatusView, WholeView, ToldView
    <3>5. Abstract!Identify(j)
      BY <1>0, <3>1, <3>3, <3>4 DEF Abstract!Identify, StatusView, WholeView, ToldView
    <3> QED
      BY <3>5 DEF Abstract!Next
  <2> QED
    BY <2>2, <2>3
<1>7. CASE Interrupt(j)
  <2>1. /\ record' = record /\ identity' = identity /\ content' = content /\ meta' = meta
    BY <1>7 DEF Interrupt, documents, facts, artifacts
  <2>2. answer'[j] = "stored" <=> answer[j] = "stored"
    BY <1>7, <1>0, GotoEffect, EndEffect DEF Interrupt, FateOf, Running, TypeOK
  <2> QED
    BY <1>0, <2>1, <2>2, OwnAnswer, NothingShown
<1>8. CASE LateRead(j)
  <2>1. /\ record' = record /\ identity' = identity /\ content' = content /\ meta' = meta
    BY <1>8 DEF LateRead, documents, facts, artifacts
  <2>2. answer'[j] = "stored" <=> answer[j] = "stored"
    BY <1>8, <1>0, GotoEffect, EndEffect DEF LateRead, FateOf, TypeOK
  <2> QED
    BY <1>0, <2>1, <2>2, OwnAnswer, NothingShown
<1>9. CASE CreateRecord(j)
  <2>1. /\ identity' = identity /\ content' = content /\ meta' = meta /\ answer' = answer
        /\ pc[j] = "create" /\ record'[j].status = "received"
        /\ \A i \in Ingestions \ {j} : record'[i] = record[i]
    BY <1>9, <1>0 DEF CreateRecord, At, Goto, facts, artifacts, TypeOK
  <2>2. StatusView[j] = "none"
    BY <1>0, <2>1, TransitionTable, WrittenTable DEF WalkOf, Early, StatusView
  <2>3. StatusView' = [StatusView EXCEPT ![j] = "received"]
    BY <2>1 DEF StatusView
  <2>4. WholeView' = WholeView /\ ToldView' = ToldView
    BY <2>1 DEF WholeView, ToldView
  <2>5. identity[j] # Unknown
    BY <1>0, <2>1 DEF ReadingOf, ReadSteps
  <2>6. Abstract!Register(j)
    BY <1>0, <2>1, <2>2, <2>3, <2>4, <2>5
       DEF Abstract!Register, StatusView, WholeView, ToldView
  <2> QED
    BY <2>6 DEF Abstract!Next
<1>10. CASE AppendTransition(j)
  <2>1. /\ record' = record /\ identity' = identity /\ content' = content /\ meta' = meta
    BY <1>10 DEF AppendTransition, facts, artifacts
  <2>2. answer'[j] = "stored" <=> answer[j] = "stored"
    BY <1>10, <1>0, GotoEffect, EndEffect
       DEF AppendTransition, FateOf, At, Running, TypeOK
  <2> QED
    BY <1>0, <2>1, <2>2, OwnAnswer, NothingShown
<1>11. CASE MarkValidated(j)
  <2>1. /\ identity' = identity /\ content' = content /\ meta' = meta /\ answer' = answer
        /\ pc[j] = "validated" /\ record'[j].status = "validated"
        /\ \A i \in Ingestions \ {j} : record'[i] = record[i]
    BY <1>11, <1>0 DEF MarkValidated, UpdateRecord, At, Goto, facts, artifacts, TypeOK
  <2>2. StatusView[j] = "received"
    BY <1>0, <2>1, TransitionTable, WrittenTable DEF WalkOf, Early, StatusView
  <2>3. StatusView' = [StatusView EXCEPT ![j] = "validated"]
    BY <2>1 DEF StatusView
  <2>4. WholeView' = WholeView /\ ToldView' = ToldView
    BY <2>1 DEF WholeView, ToldView
  <2>6. Abstract!Validate(j)
    BY <1>0, <2>1, <2>2, <2>3, <2>4 DEF Abstract!Validate, StatusView, WholeView, ToldView
  <2> QED
    BY <2>6 DEF Abstract!Next
<1>12. CASE MarkStored(j)
  <2>1. /\ identity' = identity /\ content' = content /\ meta' = meta /\ answer' = answer
        /\ pc[j] = "stored" /\ record'[j].status = "stored"
        /\ \A i \in Ingestions \ {j} : record'[i] = record[i]
    BY <1>12, <1>0 DEF MarkStored, UpdateRecord, At, Goto, facts, artifacts, TypeOK
  <2>2. StatusView[j] = "validated"
    BY <1>0, <2>1, TransitionTable, WrittenTable DEF WalkOf, Early, StatusView
  <2>3. StatusView' = [StatusView EXCEPT ![j] = "stored"]
    BY <2>1 DEF StatusView
  <2>4. WholeView' = WholeView /\ ToldView' = ToldView
    BY <2>1 DEF WholeView, ToldView
  <2>5. identity[j] \in WholeView \cup deleted
    BY <1>0, <2>1, OnShelf DEF ShelvedOf, WholeView
  <2>6. Abstract!Store(j)
    BY <1>0, <2>1, <2>2, <2>3, <2>4, <2>5
       DEF Abstract!Store, StatusView, WholeView, ToldView
  <2> QED
    BY <2>6 DEF Abstract!Next
<1>13. CASE Answer(j)
  <2>1. /\ record' = record /\ identity' = identity /\ content' = content /\ meta' = meta
        /\ pc[j] = "answer" /\ fate[j] = "running" /\ End(j, "stored")
    BY <1>13 DEF Answer, At, Running, documents, facts, artifacts
  <2>2. StatusView[j] = "stored" /\ j \notin ToldView
    BY <1>0, <2>1, TransitionTable, WrittenTable DEF WalkOf, FateOf, StatusView, ToldView
  <2>3. ToldView' = ToldView \cup {j}
    BY <1>0, <2>1, EndEffect, OthersUntouched DEF ToldView
  <2>4. StatusView' = StatusView /\ WholeView' = WholeView
    BY <2>1 DEF StatusView, WholeView
  <2>5. Abstract!Tell(j)
    BY <1>0, <2>1, <2>2, <2>3, <2>4 DEF Abstract!Tell, StatusView, WholeView, ToldView
  <2> QED
    BY <2>5 DEF Abstract!Next
<1>14. CASE PutLookup(j)
  <2>1. /\ record' = record /\ identity' = identity /\ content' = content /\ meta' = meta
    BY <1>14 DEF PutLookup, documents, facts, artifacts
  <2>2. answer'[j] = "stored" <=> answer[j] = "stored"
    BY <1>14, <1>0, GotoEffect, EndEffect DEF PutLookup, FateOf, At, Running, TypeOK
  <2> QED
    BY <1>0, <2>1, <2>2, OwnAnswer, NothingShown
<1>15. CASE PutReuse(j)
  <2>1. /\ record' = record /\ identity' = identity /\ content' = content /\ meta' = meta
    BY <1>15 DEF PutReuse, documents, facts, artifacts
  <2>2. answer'[j] = "stored" <=> answer[j] = "stored"
    <3>1. fate[j] = "running"
      BY <1>15 DEF PutReuse, At, Running
    <3> QED
      BY <1>15, <1>0, <3>1, ContinueEffect, CheckAnswers, ErrorsAreOutcomes
         DEF PutReuse, FateOf
  <2> QED
    BY <1>0, <2>1, <2>2, OwnAnswer, NothingShown
<1>16. CASE PutSpool(j)
  <2>1. /\ record' = record /\ identity' = identity /\ content' = content /\ meta' = meta
    BY <1>16 DEF PutSpool, documents, facts
  <2>2. answer'[j] = "stored" <=> answer[j] = "stored"
    BY <1>16, <1>0, GotoEffect, EndEffect DEF PutSpool, FateOf, At, Running, TypeOK
  <2> QED
    BY <1>0, <2>1, <2>2, OwnAnswer, NothingShown
<1>17. CASE PutMove(j)
  <2>1. /\ record' = record /\ identity' = identity /\ meta' = meta /\ answer' = answer
        /\ pc[j] = "move" /\ identity[j] \in Contents /\ spool[j] = identity[j]
    BY <1>17, <1>0, OnShelf DEF PutMove, At, ReadingOf, documents, facts, Goto
  <2>2. CASE content[identity[j]] # Unknown
    <3>1. content' = content
      BY <1>17, <2>2 DEF PutMove
    <3> QED
      BY <1>0, <2>1, <3>1, NothingShown
  <2>3. CASE content[identity[j]] = Unknown
    <3>1. content' = [content EXCEPT ![identity[j]] = identity[j]]
      BY <1>17, <2>1, <2>3 DEF PutMove
    <3>2. StatusView[j] = "validated"
      BY <1>0, <2>1, TransitionTable, WrittenTable DEF WalkOf, StatusView
    <3>3. StatusView' = StatusView /\ ToldView' = ToldView
      BY <2>1 DEF StatusView, ToldView
    <3>4. CASE meta[identity[j]] = identity[j]
      <4>1. WholeView' = WholeView \cup {identity[j]}
        BY <1>0, <2>1, <3>1, <3>4 DEF WholeView, TypeOK
      <4>2. Abstract!Complete(j)
        BY <1>0, <2>1, <3>2, <3>3, <4>1
           DEF Abstract!Complete, StatusView, WholeView, ToldView
      <4> QED
        BY <4>2 DEF Abstract!Next
    <3>5. CASE meta[identity[j]] # identity[j]
      <4>1. WholeView' = WholeView
        BY <1>0, <2>1, <3>1, <3>5 DEF WholeView, TypeOK
      <4> QED
        BY <1>0, <2>1, <3>3, <4>1 DEF Abstract!storage, StatusView, WholeView, ToldView
    <3> QED
      BY <3>4, <3>5
  <2> QED
    BY <2>2, <2>3
<1>18. CASE PutDescribe(j)
  <2>1. /\ record' = record /\ identity' = identity /\ content' = content /\ answer' = answer
        /\ pc[j] = "describe" /\ identity[j] \in Contents
        /\ meta' = [meta EXCEPT ![identity[j]] = identity[j]]
    BY <1>18, <1>0, OnShelf DEF PutDescribe, At, documents, facts, Goto
  <2>2. StatusView[j] = "validated"
    BY <1>0, <2>1, TransitionTable, WrittenTable DEF WalkOf, StatusView
  <2>3. StatusView' = StatusView /\ ToldView' = ToldView
    BY <2>1 DEF StatusView, ToldView
  <2>4. CASE content[identity[j]] = identity[j]
    <3>1. WholeView' = WholeView \cup {identity[j]}
      BY <1>0, <2>1, <2>4 DEF WholeView, TypeOK
    <3>2. Abstract!Complete(j)
      BY <1>0, <2>1, <2>2, <2>3, <3>1
         DEF Abstract!Complete, StatusView, WholeView, ToldView
    <3> QED
      BY <3>2 DEF Abstract!Next
  <2>5. CASE content[identity[j]] # identity[j]
    <3>1. WholeView' = WholeView
      BY <1>0, <2>1, <2>5 DEF WholeView, TypeOK
    <3> QED
      BY <1>0, <2>1, <2>3, <3>1 DEF Abstract!storage, StatusView, WholeView, ToldView
  <2> QED
    BY <2>4, <2>5
<1>19. CASE Fault(j)
  <2>1. /\ record' = record /\ identity' = identity /\ content' = content /\ meta' = meta
    BY <1>19 DEF Fault, documents, facts
  <2>2. answer'[j] = "stored" <=> answer[j] = "stored"
    BY <1>19, <1>0, GotoEffect, EndEffect DEF Fault, FateOf, Running, TypeOK
  <2> QED
    BY <1>0, <2>1, <2>2, OwnAnswer, NothingShown
<1>20. CASE Crash(j)
  <2>1. /\ record' = record /\ identity' = identity /\ content' = content /\ meta' = meta
    BY <1>20 DEF Crash, documents, facts
  <2>2. answer'[j] = "stored" <=> answer[j] = "stored"
    BY <1>20, <1>0, GotoEffect, EndEffect DEF Crash, FateOf, Running, TypeOK
  <2> QED
    BY <1>0, <2>1, <2>2, OwnAnswer, NothingShown
<1> QED
  BY <1>1, <1>2, <1>3, <1>4, <1>5, <1>6, <1>7, <1>8, <1>9, <1>10, <1>11, <1>12, <1>13,
     <1>14, <1>15, <1>16, <1>17, <1>18, <1>19, <1>20
     DEF Steps, Read, Write, Put

(* Either half of a delete is a Delete: the artifact is not whole after    *)
(* the first.                                                              *)
LEMMA DeleteMapsToDelete ==
  ASSUME StorageInv, NEW c \in Removable, DeleteContent(c) \/ DeleteMetadata(c)
  PROVE  [Abstract!Next]_Abstract!storage
<1>0. c \in Contents /\ c # Unknown /\ TypeOK
  BY StorageAssumption DEF StorageInv
<1>1. record' = record /\ identity' = identity /\ answer' = answer
  BY DEF DeleteContent, DeleteMetadata, control, facts, documents
<1>2. StatusView' = StatusView /\ ToldView' = ToldView
  BY <1>1 DEF StatusView, ToldView
<1>3. deleted' = deleted \cup {c}
  BY <1>0 DEF DeleteContent, DeleteMetadata, TypeOK
<1>4. WholeView' = WholeView \ {c}
  BY <1>0 DEF DeleteContent, DeleteMetadata, TypeOK, WholeView
<1>5. Abstract!Delete(c)
  BY <1>1, <1>2, <1>3, <1>4 DEF Abstract!Delete, StatusView, WholeView, ToldView
<1> QED
  BY <1>0, <1>5 DEF Abstract!Next

(* The files on disk implement the abstract document store.                *)
THEOREM StorageImplementsDocumentStore == Spec => ImplementsDocumentStore
<1>1. Init => Abstract!Init
  BY InitMapsToInit
<1>2. StorageInv /\ [Next]_vars => [Abstract!Next]_Abstract!storage
  <2> SUFFICES ASSUME StorageInv, [Next]_vars PROVE [Abstract!Next]_Abstract!storage
    OBVIOUS
  <2>1. ASSUME NEW j \in Ingestions, Steps(j) PROVE [Abstract!Next]_Abstract!storage
    BY <2>1, StepMapsToStep
  <2>2. ASSUME NEW c \in Removable, DeleteContent(c) \/ DeleteMetadata(c)
        PROVE  [Abstract!Next]_Abstract!storage
    BY <2>2, DeleteMapsToDelete
  <2>3. CASE UNCHANGED vars
    <3>1. /\ record' = record /\ identity' = identity /\ content' = content
          /\ meta' = meta /\ deleted' = deleted /\ answer' = answer
      BY <2>3 DEF vars
    <3> QED
      BY <3>1, NothingShown
  <2> QED
    BY <2>1, <2>2, <2>3 DEF Next, Steps
<1> QED
  BY <1>1, <1>2, StorageInvariant, PTL DEF Spec, Abstract!Spec, ImplementsDocumentStore
=============================================================================
