---------------------------- MODULE EpochLifecycle ----------------------------
(***************************************************************************)
(* What the epoch program promises its users, without slots, attempts,     *)
(* signers or oracle: epochs advance one at a time; an advanced epoch is   *)
(* closed exactly once, which settles it with the stakers; closing it may  *)
(* schedule a Carnage, which is over before the next epoch begins.         *)
(***************************************************************************)
EXTENDS Integers

CONSTANT MaxEpoch       \* bound on the epochs of a behaviour

VARIABLES epoch,        \* the current epoch
          phase,        \* what it is doing
          settled       \* the last epoch settled with the stakers

lifecycleVars == <<epoch, phase, settled>>

Phase == {"Open", "AwaitingReveal", "Carnage"}

LifecycleInit ==
  /\ epoch \in Nat
  /\ \/ phase = "Open" /\ settled = epoch
     \/ phase = "AwaitingReveal" /\ settled = epoch - 1

Begin ==
  /\ phase = "Open" /\ epoch < MaxEpoch
  /\ epoch' = epoch + 1
  /\ phase' = "AwaitingReveal"
  /\ UNCHANGED settled

Close ==
  /\ phase = "AwaitingReveal"
  /\ settled' = epoch
  /\ phase' \in {"Open", "Carnage"}
  /\ UNCHANGED epoch

EndCarnage ==
  /\ phase = "Carnage"
  /\ phase' = "Open"
  /\ UNCHANGED <<epoch, settled>>

LifecycleNext == Begin \/ Close \/ EndCarnage

LifecycleSafety == LifecycleInit /\ [][LifecycleNext]_lifecycleVars

LifecycleSpec ==
  /\ LifecycleSafety
  /\ WF_lifecycleVars(Begin)
  /\ WF_lifecycleVars(Close)
  /\ WF_lifecycleVars(EndCarnage)
=============================================================================
