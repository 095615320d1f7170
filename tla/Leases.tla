------------------------------- MODULE Leases -------------------------------
(***************************************************************************)
(* What an allocator promises, without a word about what its clients do    *)
(* with what they are given: a slot is free or leased to one owner, an     *)
(* owner holds at most one slot, and no lease ends except that the whole   *)
(* service may start afresh.                                               *)
(*                                                                         *)
(* Three parts of the system implement it: the coordinator leases virtual  *)
(* addresses to devices (Coordinator.tla), a UDP NAT leases public ports to *)
(* mapping keys (NatTable.tla), and a LAN leases addresses to the calls that *)
(* attach a node (Attachment.tla). The last two never start afresh.        *)
(***************************************************************************)

CONSTANTS
    Slots,   \* what is leased
    Owners,  \* who may hold it
    Free     \* the holder of a slot nobody leases

VARIABLE holder

TypeOK == holder \in [Slots -> Owners \cup {Free}]

Init == holder = [s \in Slots |-> Free]

\* The owner o, which holds no slot, is given the free slot s.
Lease(s, o) ==
    /\ holder[s] = Free
    /\ \A t \in Slots : holder[t] # o
    /\ holder' = [holder EXCEPT ![s] = o]

\* The service starts afresh.
Reset == holder' = [s \in Slots |-> Free]

Grow == \E s \in Slots, o \in Owners : Lease(s, o)

Spec == Init /\ [][Grow \/ Reset]_holder

\* The promise of a service that never starts afresh.
PermanentSpec == Init /\ [][Grow]_holder
=============================================================================
