-------------------------- MODULE MCTransparencyApi --------------------------
(***************************************************************************)
(* TransparencyApi for TLC.  No action tells one client from another, so   *)
(* states that differ by their names only are checked once.                *)
(***************************************************************************)
EXTENDS TransparencyApi, TLC

Symmetry == Permutations(Clients)
=============================================================================
