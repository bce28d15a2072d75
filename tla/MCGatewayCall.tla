--------------------------- MODULE MCGatewayCall ---------------------------
(* Instances of GatewayCall for TLC. *)
EXTENDS GatewayCall

Bot == [tier |-> "bot", mutates |-> TRUE, disabled |-> FALSE, parses |-> TRUE,
        reason |-> FALSE, cost |-> 1, stream |-> FALSE]

\* Every refusal, both kinds of human call, a read, a mutation, a stream.
AllKinds ==
    {Bot,
     [Bot EXCEPT !.mutates = FALSE, !.stream = TRUE],
     [Bot EXCEPT !.parses = FALSE],
     [Bot EXCEPT !.disabled = TRUE],
     [Bot EXCEPT !.tier = "write"],
     [Bot EXCEPT !.tier = "write", !.reason = TRUE],
     [Bot EXCEPT !.tier = "read", !.mutates = FALSE],
     [Bot EXCEPT !.tier = "read", !.mutates = FALSE, !.cost = 0]}
=============================================================================
