----------------------------- MODULE ToolNames -----------------------------
(***************************************************************************)
(* The names of tools: Muse's dotted form of a namespaced tool, Z.ai's     *)
(* wire-safe encoding of it, and the map that turns a name the model used  *)
(* back into Muse's.  A name is a sequence of atoms: a letter stands for a *)
(* run of characters Z.ai accepts, "." is the namespace separator, "__"    *)
(* its encoding (a tool's own name may hold one too).                      *)
(***************************************************************************)
EXTENDS Naturals, Sequences, FiniteSets

CONSTANTS
  Letters,              \* atoms Z.ai's grammar accepts, one byte each
  Foreign,              \* atoms it does not accept
  MaxFunctionNameBytes  \* 64 in the code

ASSUME NamesAssumption ==
  /\ MaxFunctionNameBytes \in Nat
  /\ {".", "__"} \cap (Letters \cup Foreign) = {}
  /\ Letters \cap Foreign = {}

Names == Seq(Letters \cup Foreign \cup {".", "__"})

(* Muse's name of a tool of a namespace.                                   *)
Flatten(namespace, name) == namespace \o <<".">> \o name
-----------------------------------------------------------------------------
EncodedName(name) ==
  [i \in 1..Len(name) |-> IF name[i] = "." THEN "__" ELSE name[i]]

NameBytes(name) == Len(name) + Cardinality({i \in 1..Len(name) : name[i] = "__"})

(* Z.ai's grammar of a function name.                                      *)
WireSafe(name) ==
  /\ name # <<>> /\ NameBytes(name) <= MaxFunctionNameBytes
  /\ \A i \in 1..Len(name) : name[i] \in Letters \cup {"__"}

(* encode_function_name refuses a name whose encoding is not one.          *)
Encodable(name) == WireSafe(EncodedName(name))

Collide_Mutant(names) == FALSE  \* ToolsReachable: a second tool takes the wire name

(* Whether ToolNames::record refuses the second of two of these names.     *)
Collide(names) == \E a, b \in names : a # b /\ EncodedName(a) = EncodedName(b)

(* Every name of a request is recorded, in any order.                      *)
Recordable(names) == (\A name \in names : Encodable(name)) /\ ~Collide(names)

Decode(names, encoded) ==
  IF \E name \in names : EncodedName(name) = encoded
  THEN CHOOSE name \in names : EncodedName(name) = encoded
  ELSE encoded
=============================================================================
