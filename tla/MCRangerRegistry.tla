-------------------------- MODULE MCRangerRegistry --------------------------
(***************************************************************************)
(* The instance of RangerRegistry that TLC checks: two boots, chains with  *)
(* at most one record after the boot checkpoint.                           *)
(***************************************************************************)
EXTENDS RangerRegistry, TLC

CONSTANT BootIds    \* boot_id

\* Every history of up to three decisions.
MCHistories ==
  LET one == Appended({<<>>})
      two == Appended(one)
  IN one \cup two \cup Appended(two)

Records == {<<>>} \cup [1..1 -> Contents]

BootChains(b, previous) ==
  [boot : {b}, id : BootIds, previous : previous, key : Keys, records : Records]

MCNoChain == [boot |-> 0]

MCChains ==
  LET first == BootChains(1, {MCNoChain})
  IN first \cup BootChains(2, first)

Symmetry ==
  Permutations(Keys) \cup Permutations(Contents) \cup Permutations(Registries)

=============================================================================
