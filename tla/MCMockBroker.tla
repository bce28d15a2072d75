---------------------------- MODULE MCMockBroker ----------------------------
(* An instance of MockBroker for TLC: one keyed and one unkeyed order at a    *)
(* time, of one equity or of USDC.                                           *)
EXTENDS MockBroker
=============================================================================
