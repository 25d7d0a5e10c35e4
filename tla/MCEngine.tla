------------------------------ MODULE MCEngine ------------------------------
(***************************************************************************)
(* An instance of Engine for TLC: two engines over one runtime with one    *)
(* slot, a job of the first one, a request and a direct call of the second. *)
(***************************************************************************)
EXTENDS Engine

CONSTANTS e1, e2, j1, n1, r1, d1, mine, public, process, own, twin, pages, mupdf, other, task

TwoEngines   == {e1, e2}
OneJob       == {j1}
TwoTasks     == {n1, r1}
NestedOf     == [j \in OneJob |-> n1]
DirectOnly   == {d1}
Owner        == [c \in {j1, r1, d1} |-> IF c = j1 THEN e1 ELSE e2]

OwnerOf(id)  == [id |-> id, status |-> "active"]
Capability(id, provider, priority) ==
  [id |-> id, provider |-> provider, status |-> "active", priority |-> priority,
   input |-> task, output |-> task, formats |-> {pages}, media |-> {}]
Public       == OwnerOf(public)
BothOwners      == {Public, OwnerOf(mine)}
PublicOne    == {Capability(process, public, 200)}
Own          == Capability(own, mine, 100)
Twin         == Capability(twin, public, 200)
Known        == PublicOne \cup {Own, Twin}

(* The second engine brings a capability of a provider that the first one  *)
(* brings: it is refused if it comes first.                                *)
ProvidersOf    == [e \in TwoEngines |-> IF e = e1 THEN <<OwnerOf(mine)>> ELSE <<>>]
CapabilitiesOf == [e \in TwoEngines |-> IF e = e1 THEN <<>> ELSE <<Own>>]
PdfOf          == [e \in TwoEngines |-> IF e = e1 THEN {} ELSE {other}]
BothPdf        == {mupdf, other}
AnyTask        == [id |-> None, input |-> task, output |-> task, format |-> pages, media |-> None]
=============================================================================
