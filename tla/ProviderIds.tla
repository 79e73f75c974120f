---------------------------- MODULE ProviderIds ----------------------------
(***************************************************************************)
(* The identifiers Z.ai chooses, of responses and of tool calls, as the    *)
(* adapter hands them on (sanitize_identifier in zai/stream.rs).  An       *)
(* identifier is a sequence of characters, since the code filters and cuts *)
(* it.                                                                     *)
(***************************************************************************)
EXTENDS Naturals, Sequences

CONSTANTS
  SafeChars,           \* ASCII letters, digits, "_" and "-"
  MaxIdentifierBytes   \* MAX_IDENTIFIER_BYTES

ASSUME ProviderIdsAssumption == MaxIdentifierBytes \in Nat

UnknownId == <<"unknown">>

(* The safe characters, as many as an identifier may have.                 *)
SanitizeIdentifier(raw) ==
  LET kept[n \in 0..Len(raw)] ==
        IF n = 0 THEN <<>>
        ELSE IF raw[n] \in SafeChars /\ Len(kept[n - 1]) < MaxIdentifierBytes
             THEN Append(kept[n - 1], raw[n])
             ELSE kept[n - 1]
  IN IF kept[Len(raw)] = <<>> THEN UnknownId ELSE kept[Len(raw)]

(* An identifier there is nothing to filter or to cut.                     *)
SafeIdentifier(id) ==
  /\ id # <<>> /\ Len(id) <= MaxIdentifierBytes
  /\ \A i \in 1..Len(id) : id[i] \in SafeChars
=============================================================================
