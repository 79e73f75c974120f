--------------------------- MODULE TerminalStream ---------------------------
(***************************************************************************)
(* What the gateway promises the client about one Responses stream:        *)
(* events, then exactly one terminal event, then the end of the stream.    *)
(* The client may leave at any time; the stream never ends for any other   *)
(* reason before its terminal event.                                       *)
(***************************************************************************)
LOCAL INSTANCE Sequences

CONSTANT Terminal(_)  \* whether a frame is a terminal event

VARIABLES
  seen,    \* the frames given to the client, in order
  status   \* "open" | "complete" | "closed" | "cancelled"

Init == seen = <<>> /\ status = "open"

Give ==
  /\ status = "open" /\ seen' # <<>>
  /\ LET f == seen'[Len(seen')] IN
       /\ seen' = Append(seen, f)
       /\ status' = IF Terminal(f) THEN "complete" ELSE "open"

Close == status = "complete" /\ status' = "closed" /\ UNCHANGED seen

Leave == status \in {"open", "complete"} /\ status' = "cancelled" /\ UNCHANGED seen

Next == Give \/ Close \/ Leave

Spec == Init /\ [][Next]_<<seen, status>>
=============================================================================
