--------------------------- MODULE MCEnrollment ---------------------------
(* Instances of Enrollment. *)
EXTENDS Enrollment, TLC

EnrollSymmetry ==
  Permutations(Place) \union Permutations(Code) \union Permutations(Req)
===========================================================================
