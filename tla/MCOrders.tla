------------------------------ MODULE MCOrders ------------------------------
(* An instance for TLC of the placement of equity orders and of the           *)
(* conversions. They share nothing: in a behaviour one of the two moves and   *)
(* the other stays where it began.                                            *)
EXTENDS OrderPlacement, ConversionPoll

VARIABLE part   \* which of the two moves, "placements" or "conversions"

Placements == part = "placements"
Converting == part = "conversions"

MCInit ==
    /\ Init /\ ConvInit
    /\ (Placements /\ policy = "Return") \/ Converting

PlacementStep(A) == Placements /\ A /\ UNCHANGED <<convVars, part>>
ConvStep(A) == Converting /\ A /\ UNCHANGED <<vars, part>>

MCSpec ==
    /\ MCInit /\ [][PlacementStep(Next) \/ ConvStep(ConvNext)]_<<vars, convVars, part>>
    /\ WF_convVars(ConvStep(Tick)) /\ WF_convVars(ConvStep(Prompt))

\* Every call of a conversion ends, whatever the broker answers.
EveryConversionEnds == Converting => PollEnds
=============================================================================
