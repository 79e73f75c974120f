--------------------------- MODULE ResponsesEvents ---------------------------
(***************************************************************************)
(* The Responses events of the wire between a transport and the gateway,   *)
(* as the gateway's validator reads them: the kinds it knows and the shape *)
(* it asks of each (crates/muse-codex-gateway/src/sse.rs).                 *)
(***************************************************************************)
EXTENDS Integers

CONSTANTS
  Ids,    \* safe protocol identifiers (response ids and models)
  MaxSeq  \* u64::MAX

Absent == "absent"             \* a field the event does not have
Unsafe == "unsafe"             \* a field that fails safe_protocol_identifier
NoSeq == -1                    \* no sequence_number field
BadSeq == -2                   \* a sequence_number that is not a u64

IdFields == Ids \cup {Absent, Unsafe}

(* is_known_event: the kinds, one per shape that validate_event_shape asks *)
(* for; "plain" stands for the known kinds it asks nothing of.             *)
KnownKinds == {"error", "created", "completed", "failed", "incomplete",
               "cancelled", "delta", "item", "plain"}
MetadataKinds == {"metadata"}
TerminalKinds == {"completed", "failed", "incomplete", "cancelled"}
FailureKinds == {"error", "failed", "cancelled"}
(* Kinds a data line may have besides: not JSON, [DONE], no string type,   *)
(* a type on no list.                                                      *)
OtherKinds == {"malformed", "done", "untyped", "unknown"}
Kinds == KnownKinds \cup MetadataKinds \cup OtherKinds

Events == [kind : Kinds,
           seq : 0..MaxSeq \cup {NoSeq, BadSeq},
           respId : IdFields, topId : IdFields,         \* response.id, response_id
           respModel : IdFields, headerModel : IdFields,
           shaped : BOOLEAN]   \* delta is a string, item an object, message non-empty

Safe(x) == x \in Ids

(* validate_event_shape                                                    *)
WellShaped(e) ==
  /\ e.kind \in {"created", "completed", "failed", "incomplete"} => Safe(e.respId)
  /\ e.kind = "cancelled" => Safe(IF e.respId # Absent THEN e.respId ELSE e.topId)
  /\ e.kind \in {"delta", "item", "error"} => e.shaped

ValidEvent(e) ==
  /\ e.kind \in KnownKinds \cup MetadataKinds
  /\ e.seq # BadSeq
  /\ WellShaped(e)
=============================================================================
