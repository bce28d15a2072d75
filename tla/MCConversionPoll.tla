-------------------------- MODULE MCConversionPoll --------------------------
(* Instances of ConversionPoll for TLC. *)
EXTENDS ConversionPoll
=============================================================================
