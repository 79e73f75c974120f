----------------------------- MODULE MCMspRelay -----------------------------
(***************************************************************************)
(* Instances of MspRelay for TLC.                                          *)
(***************************************************************************)
EXTENDS MspRelay

Call(id, method, provider) ==
  [kind |-> "call", id |-> id, method |-> method, provider |-> provider]
Opaque == [Call(NoId, "other", "absent") EXCEPT !.kind = "opaque"]
Oversized == [Call(NoId, "other", "absent") EXCEPT !.kind = "oversized"]

(* A client that reuses ids, names every kind of provider and sends lines  *)
(* that are no calls.                                                      *)
AllFrames ==
  {Call("a", "start", "public"), Call("a", "other", "absent"), Call("b", "read", "absent"),
   Call("b", "setModel", "other"), Call(NoId, "setModel", "other"), Opaque, Oversized}

Response(id, body, provider) ==
  [NoFrame EXCEPT !.kind = "response", !.id = id, !.body = body, !.provider = provider]

(* A host that answers twice, answers what nobody asked, or breaks the     *)
(* envelope or the provider fields.                                        *)
Rogue ==
  {Response("a", "result", "other"), Response("b", "both", "none"), Response(BadId, "result", "none"),
   [Notice EXCEPT !.provider = "other"]}
=============================================================================
