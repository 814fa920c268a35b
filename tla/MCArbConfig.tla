------------------------------ MODULE MCArbConfig ------------------------------
(***************************************************************************)
(* Six keys: one more than the roles, so that one is always spare.  Keys   *)
(* but the founder's are interchangeable.                                  *)
(***************************************************************************)
EXTENDS ArbConfig, TLC

MCTimingArgs == 0..3
Interchangeable == Permutations(Keys \ {upgrade_authority})
==============================================================================
