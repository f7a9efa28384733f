---------------------------- MODULE MCKvmAttach -----------------------------
(***************************************************************************)
(* Instances of KvmAttach for TLC.                                         *)
(***************************************************************************)
EXTENDS KvmAttach, TLC

CONSTANTS i1, i2, v1, v2

\* One vminer process, one guest with two vCPUs.
OneTarget == i1 :> v1
OneGuest == v1 :> 2

\* Two vminer processes on the same guest.
OneSmallGuest == v1 :> 1
SharedTarget == i1 :> v1 @@ i2 :> v1

\* Two vminer processes, each on its own guest.
OwnTarget == i1 :> v1 @@ i2 :> v2
SmallGuests == v1 :> 1 @@ v2 :> 1

=============================================================================
