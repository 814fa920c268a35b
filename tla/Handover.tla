------------------------------- MODULE Handover -------------------------------
(***************************************************************************)
(* What a two-step transfer of authority promises: there is always one     *)
(* owner once there was any, and only the candidate last named, not since  *)
(* withdrawn and not yet in office, can succeed.                           *)
(***************************************************************************)
CONSTANTS Keys, Founder, NoOne

VARIABLES owner, candidate

Init == owner = NoOne /\ candidate = NoOne

\* The founder takes office.
Found ==
  /\ owner = NoOne
  /\ owner' = Founder
  /\ UNCHANGED candidate

\* The owner names a candidate, another one, or none.
Name(key) ==
  /\ owner # NoOne
  /\ candidate' = key
  /\ UNCHANGED owner

\* The candidate succeeds, and is a candidate no more.
Succeed ==
  /\ candidate \in Keys
  /\ owner' = candidate
  /\ candidate' = NoOne

Next == Found \/ (\E key \in Keys \cup {NoOne} : Name(key)) \/ Succeed

Spec == Init /\ [][Next]_<<owner, candidate>>

==============================================================================
