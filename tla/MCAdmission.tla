---------------------------- MODULE MCAdmission ----------------------------
(* Two requests at a time; a request that is answered may be followed by      *)
(* another.                                                                  *)
EXTENDS Admission, TLC
RequestSymmetry == Permutations(Requests)
=============================================================================
