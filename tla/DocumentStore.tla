---------------------------- MODULE DocumentStore ----------------------------
(***************************************************************************)
(* What the local storage promises to whoever ingests documents, with the  *)
(* files left out: every ingestion creates a document of its own that goes *)
(* from received through validated to stored and never back; it is stored  *)
(* only when its artifact is whole; a whole artifact stays whole until     *)
(* somebody deletes it; and the caller is told "stored" only of a document *)
(* that is.  Deleting is not coordinated with storing: once an artifact    *)
(* was deleted, documents with the same content have no promise.           *)
(***************************************************************************)
CONSTANTS Ingestions, Contents, Unknown

VARIABLES
  status,    (* of each ingestion's document                               *)
  identity,  (* content each document stands for, Unknown before it is set *)
  whole,     (* contents whose artifact can be opened and verified         *)
  deleted,   (* contents that were ever deleted                            *)
  told       (* ingestions that answered with a stored document            *)

storage == <<status, identity, whole, deleted, told>>

Init ==
  /\ status   = [i \in Ingestions |-> "none"]
  /\ identity = [i \in Ingestions |-> Unknown]
  /\ whole    = {}
  /\ deleted  = {}
  /\ told     = {}

Identify(i) ==
  /\ status[i] = "none" /\ identity[i] = Unknown
  /\ \E c \in Contents : identity' = [identity EXCEPT ![i] = c]
  /\ UNCHANGED <<status, whole, deleted, told>>

Register(i) ==
  /\ status[i] = "none" /\ identity[i] # Unknown
  /\ status' = [status EXCEPT ![i] = "received"]
  /\ UNCHANGED <<identity, whole, deleted, told>>

Validate(i) ==
  /\ status[i] = "received"
  /\ status' = [status EXCEPT ![i] = "validated"]
  /\ UNCHANGED <<identity, whole, deleted, told>>

(* Somebody put the artifact of a validated document into place. *)
Complete(i) ==
  /\ status[i] = "validated"
  /\ whole' = whole \cup {identity[i]}
  /\ UNCHANGED <<status, identity, deleted, told>>

Store(i) ==
  /\ status[i] = "validated"
  /\ identity[i] \in whole \cup deleted
  /\ status' = [status EXCEPT ![i] = "stored"]
  /\ UNCHANGED <<identity, whole, deleted, told>>

Tell(i) ==
  /\ status[i] = "stored" /\ i \notin told
  /\ told' = told \cup {i}
  /\ UNCHANGED <<status, identity, whole, deleted>>

(* The content and the metadata go one after the other. *)
Delete(c) ==
  /\ deleted' = deleted \cup {c}
  /\ whole'   = whole \ {c}
  /\ UNCHANGED <<status, identity, told>>

Next ==
  \/ \E i \in Ingestions : \/ Identify(i) \/ Register(i) \/ Validate(i)
                           \/ Complete(i) \/ Store(i) \/ Tell(i)
  \/ \E c \in Contents : Delete(c)

Spec == Init /\ [][Next]_storage
=============================================================================
