---------------------------- MODULE EpochRefinement ----------------------------
(***************************************************************************)
(* EpochMachine implements EpochLifecycle.                                 *)
(***************************************************************************)
EXTENDS EpochMachine

phase_of == IF vrf_pending THEN "AwaitingReveal"
            ELSE IF carnage_pending THEN "Carnage" ELSE "Open"

Abstract == INSTANCE EpochLifecycle
              WITH epoch <- current_epoch, phase <- phase_of,
                   settled <- last_update_epoch

\* Every instruction of the epoch program is a step of the promised lifecycle
\* or changes nothing it speaks of; and under the fairness of FairSpec every
\* epoch begins, closes and finishes its Carnage.
ImplementsLifecycle == Abstract!LifecycleSpec

\* The safety part alone: the initial states and the steps.
ImplementsLifecycleSafety == Abstract!LifecycleSafety
=============================================================================
