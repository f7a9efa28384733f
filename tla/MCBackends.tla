----------------------------- MODULE MCBackends -----------------------------
(***************************************************************************)
(* Dump files, and the interface through which C programs use these and    *)
(* other backends, side by side: which of them a behaviour is about is     *)
(* chosen in its first state, and the other stays in an initial state.     *)
(***************************************************************************)
EXTENDS DumpFile, NativeApi

VARIABLE part

(* Guests to dump: no memory, one mapping, two with a hole between them,   *)
(* two that touch, and one whose size is not a multiple of the chunk.      *)

Mapping(start, end) == [start |-> start, end |-> end]

SmallGuests ==
  [mappings : {<<>>, <<Mapping(0, 2)>>, <<Mapping(0, 2), Mapping(4, 8)>>,
               <<Mapping(2, 6), Mapping(6, 8)>>, <<Mapping(0, 2), Mapping(4, 7)>>},
   vcpus : 0..2]

(* Buffers: none, an empty one, and some for one or two items.             *)

MCCaps == {NullPtr, 0, 1, 2}

-----------------------------------------------------------------------------
(* The composition *)

BackendsInit ==
  /\ part \in {"dump", "native"}
  /\ part # "dump" => guest = CHOOSE g \in Guests : TRUE
  /\ Init /\ NativeInit

Dump == part = "dump" /\ Next /\ UNCHANGED <<nativeVars, part>>
Native == part = "native" /\ NativeNext /\ UNCHANGED <<vars, part>>

BackendsNext == Dump \/ Native

BackendsSpec == BackendsInit /\ [][BackendsNext]_<<vars, nativeVars, part>>

=============================================================================
