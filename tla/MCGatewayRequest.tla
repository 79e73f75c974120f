-------------------------- MODULE MCGatewayRequest --------------------------
(* A small instance of GatewayRequest: two listed models and one that is   *)
(* hidden, requests that differ from a good one in one or two fields.      *)
EXTENDS GatewayRequest

MCCatalog ==
  LET row(visible, codeModeOnly, lite, image, fast, efforts) ==
        [visible |-> visible, codeModeOnly |-> codeModeOnly, lite |-> lite, image |-> image,
         fast |-> fast, efforts |-> efforts]
  IN ("large" :> row(TRUE, FALSE, FALSE, TRUE, TRUE, {"low", "high"}))
     @@ ("small" :> row(TRUE, TRUE, TRUE, FALSE, FALSE, {}))
     @@ ("code" :> row(TRUE, TRUE, FALSE, TRUE, TRUE, {}))
     @@ ("hidden" :> row(FALSE, FALSE, FALSE, TRUE, TRUE, {}))

Good(route) ==
  [route |-> route, authorized |-> TRUE, payload |-> "json", object |-> TRUE, stream |-> "absent",
   background |-> FALSE, model |-> "large", image |-> FALSE, effort |-> None, wellFormed |-> TRUE]

MCRequests ==
  LET turn == Good("responses")
      routed == {Good(route) : route \in {"responses", "search", "browser_open", "models",
                                          "feedback", "healthz"}}
  IN routed
     \cup {[r EXCEPT !.authorized = FALSE] : r \in routed}
     \cup {[r EXCEPT !.payload = p] : r \in routed, p \in {"tooLarge", "wrongType", "malformed"}}
     \cup {[r EXCEPT !.wellFormed = FALSE] : r \in routed}
     \cup {[turn EXCEPT !.object = FALSE], [turn EXCEPT !.stream = "false"],
           [turn EXCEPT !.background = TRUE]}
     \cup {[turn EXCEPT !.model = m, !.image = i, !.effort = e] :
             m \in {"large", "small", "code", "hidden", "unlisted", None}, i \in BOOLEAN,
             e \in {None, "low", "xhigh"}}

MCDocuments ==
  LET doc(code, param, context) == [code |-> code, param |-> param, contextMessage |-> context]
      named == [length |-> 5, plain |-> TRUE]
  IN {None, doc("context_length_exceeded", None, FALSE), doc("usage_limit_reached", None, FALSE),
      doc("model_not_found", None, FALSE), doc("private", None, TRUE),
      doc("1113", None, FALSE), doc("1302", None, TRUE)}
     \cup {doc("private", p, FALSE) :
             p \in {named, [named EXCEPT !.length = 0], [named EXCEPT !.length = 129],
                    [named EXCEPT !.plain = FALSE]}}
=============================================================================
