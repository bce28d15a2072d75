--------------------------- MODULE MCTokenization ---------------------------
(* Instances of Tokenization for TLC. *)
EXTENDS Tokenization
=============================================================================
