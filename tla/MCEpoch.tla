-------------------------------- MODULE MCEpoch --------------------------------
(***************************************************************************)
(* Small instances of EpochMachine.  One model slot stands for about 150   *)
(* real ones: what the runs keep of the code's constants is that a reveal  *)
(* window and its strict boundary fit four times in the absolute lifetime, *)
(* that the public retry opens half way through it, and that an epoch may  *)
(* be shorter than a reveal window.                                        *)
(***************************************************************************)
EXTENDS EpochRefinement

vrf_bytes(flip, carnage, act, target) ==
  [i \in 0..7 |-> CASE i = 0 -> flip   [] i = 5 -> carnage
                    [] i = 6 -> act    [] i = 7 -> target
                    [] OTHER -> (flip + i) % 256]

\* No Carnage with and without a flip; Carnage that sells, and that burns.
MCReveals == {vrf_bytes(191, 11, 0, 0),  vrf_bytes(192, 255, 0, 0),
              vrf_bytes(0, 10, 4, 127), vrf_bytes(255, 0, 5, 128)}
LiveReveals == {vrf_bytes(192, 11, 0, 0), vrf_bytes(255, 0, 5, 128)}

MCTimings   == {<<2, 1>>, <<3, 1>>}
MCPurchases == {0, 7}
LiveTimings == {<<3, 1>>}
MCLegacy    == {1}
LivePurchases == {7}
=============================================================================
