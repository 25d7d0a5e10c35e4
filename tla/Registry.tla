------------------------------ MODULE Registry ------------------------------
(***************************************************************************)
(* CapabilityRegistry (packages/plugins): providers, the capabilities they *)
(* own, and the choice of one for a request.  Every method holds the lock  *)
(* from its first line to its last, so each is one step.                   *)
(***************************************************************************)
EXTENDS Naturals

CONSTANTS
  ProviderDescriptors,     (* [id, status]                                  *)
  CapabilityDescriptors,   (* [id, provider, status, priority, input,       *)
                           (*  output, formats, media]                      *)
  None                     (* an optional value that is absent              *)

VARIABLES providers, capabilities

catalogue == <<providers, capabilities>>

ProviderIds   == {p.id : p \in providers}
CapabilityIds == {c.id : c \in capabilities}

Init == providers = {} /\ capabilities = {}

-----------------------------------------------------------------------------
RegisterProvider(p) ==
  /\ p.id \notin ProviderIds
  /\ providers' = providers \cup {p}
  /\ UNCHANGED capabilities

(* A provider that still has capabilities stays. *)
UnregisterProvider(id) ==
  /\ \A c \in capabilities : c.provider # id
  /\ providers' = {p \in providers : p.id # id}
  /\ UNCHANGED capabilities

Registrable(c, owners, taken) ==
  c.provider # None /\ c.provider \in owners /\ c.id \notin taken /\ c.status = "active"

Register(c) ==
  /\ Registrable(c, ProviderIds, CapabilityIds)
  /\ capabilities' = capabilities \cup {c}
  /\ UNCHANGED providers

Unregister(id) ==
  /\ capabilities' = {c \in capabilities : c.id # id}
  /\ UNCHANGED providers

Next ==
  \/ \E p \in ProviderDescriptors : RegisterProvider(p)
  \/ \E c \in CapabilityDescriptors : Register(c)
  \/ \E id \in {p.id : p \in ProviderDescriptors} : UnregisterProvider(id)
  \/ \E id \in {c.id : c \in CapabilityDescriptors} : Unregister(id)

Spec == Init /\ [][Next]_catalogue

-----------------------------------------------------------------------------
(* CapabilityDescriptor.supports: no formats or media types means any. *)
Supports(c, ask) ==
  /\ ask.input  # None => c.input = ask.input
  /\ ask.output # None => c.output = ask.output
  /\ ask.format # None /\ c.formats # {} => ask.format \in c.formats
  /\ ask.media  # None /\ c.media # {} => ask.media \in c.media

Candidates(ask) ==
  {c \in capabilities :
     /\ ask.id # None => c.id = ask.id
     /\ Supports(c, ask)
     /\ c.status = "active"
     /\ \E p \in providers : p.id = c.provider /\ p.status = "active"}

Best(ask) ==
  {c \in Candidates(ask) : \A d \in Candidates(ask) : c.priority <= d.priority}

(* resolve(): the one with the least priority; with none, or with two of   *)
(* the same least priority, it raises.                                     *)
Resolves(ask, c) == Best(ask) = {c}

-----------------------------------------------------------------------------
(* Identifiers are unique, and every capability is active and its provider *)
(* registered, whatever was registered and unregistered in between.        *)
Consistent ==
  /\ providers \subseteq ProviderDescriptors /\ capabilities \subseteq CapabilityDescriptors
  /\ \A p, q \in providers : p.id = q.id => p = q
  /\ \A c, d \in capabilities : c.id = d.id => c = d
  /\ \A c \in capabilities : c.status = "active" /\ c.provider \in ProviderIds
=============================================================================
