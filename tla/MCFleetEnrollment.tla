------------------------- MODULE MCFleetEnrollment -------------------------
(* FleetEnrollment for TLC: the sets of model values are symmetric. *)
EXTENDS FleetEnrollment, TLC

Symmetry ==
  Permutations(Devices) \cup Permutations(Enrollments)
    \cup Permutations(Fingerprints) \cup Permutations(Requests)
=============================================================================
