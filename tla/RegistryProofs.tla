--------------------------- MODULE RegistryProofs ---------------------------
(***************************************************************************)
(* What the registry keeps, and what a resolution means.                   *)
(***************************************************************************)
EXTENDS Registry, TLAPS

(* Every step of the registry keeps it consistent. *)
LEMMA StepConsistent == Consistent /\ [Next]_catalogue => Consistent'
<1> SUFFICES ASSUME Consistent, [Next]_catalogue PROVE Consistent'
  OBVIOUS
<1>1. CASE UNCHANGED catalogue
  BY <1>1 DEF Consistent, catalogue, ProviderIds
<1>2. ASSUME NEW p \in ProviderDescriptors, RegisterProvider(p) PROVE Consistent'
  BY <1>2 DEF Consistent, RegisterProvider, ProviderIds
<1>3. ASSUME NEW c \in CapabilityDescriptors, Register(c) PROVE Consistent'
  BY <1>3 DEF Consistent, Register, Registrable, ProviderIds, CapabilityIds
<1>4. ASSUME NEW id, UnregisterProvider(id) PROVE Consistent'
  BY <1>4 DEF Consistent, UnregisterProvider, ProviderIds
<1>5. ASSUME NEW id, Unregister(id) PROVE Consistent'
  BY <1>5 DEF Consistent, Unregister, ProviderIds
<1> QED
  BY <1>1, <1>2, <1>3, <1>4, <1>5 DEF Next

(* Whatever is registered and unregistered in whatever order, identifiers  *)
(* stay unique and no capability is left without its provider              *)
(* (unregister_provider refuses, register requires it).                    *)
THEOREM RegistryConsistent == Spec => []Consistent
<1>1. Init => Consistent
  BY DEF Init, Consistent, ProviderIds
<1> QED
  BY <1>1, StepConsistent, PTL DEF Spec

(* resolve() never picks one of several equals: what it returns is a       *)
(* candidate that comes strictly before every other one.                   *)
THEOREM ResolvedIsFirst ==
  ASSUME Consistent, \A k \in CapabilityDescriptors : k.priority \in Nat,
         NEW ask, NEW c, Resolves(ask, c)
  PROVE  c \in Candidates(ask) /\ \A d \in Candidates(ask) \ {c} : c.priority < d.priority
<1>1. c \in Best(ask) /\ c \in Candidates(ask)
  BY DEF Resolves, Best
<1>2. ASSUME NEW d \in Candidates(ask) \ {c} PROVE c.priority < d.priority
  <2>1. c.priority \in Nat /\ \A e \in Candidates(ask) : e.priority \in Nat
    BY <1>1 DEF Consistent, Candidates
  <2>2. c.priority <= d.priority /\ d \notin Best(ask)
    BY <1>1, <1>2 DEF Resolves, Best
  <2>3. PICK e \in Candidates(ask) : ~(d.priority <= e.priority)
    BY <1>2, <2>2 DEF Best
  <2>4. c.priority <= e.priority
    BY <1>1 DEF Best
  <2> QED
    BY <1>2, <2>1, <2>3, <2>4
<1> QED
  BY <1>1, <1>2

(* A capability registered for other contracts, formats or media types     *)
(* does not change what a request resolves to.                             *)
THEOREM OthersDoNotInterfere ==
  ASSUME NEW ask, NEW c, Register(c), ~Supports(c, ask)
  PROVE  Best(ask)' = Best(ask)
<1>1. Candidates(ask)' = Candidates(ask)
  BY DEF Candidates, Register, Supports
<1> QED
  BY <1>1 DEF Best
=============================================================================
