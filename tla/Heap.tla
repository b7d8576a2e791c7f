-------------------------------- MODULE Heap --------------------------------
(***************************************************************************)
(* What a memory pool promises its clients: a block it hands out overlaps  *)
(* no other block, and stays where it is until its owner has freed it; a   *)
(* freed block may be parked for a while before its memory is reused.      *)
(***************************************************************************)
EXTENDS Naturals

CONSTANT Units   \* size of the pool, in allocation units

VARIABLES held,   \* blocks owned by a client
          parked  \* blocks freed by their owner and not yet reusable

vars == <<held, parked>>

Block == [addr : 0 .. Units - 1, size : 1 .. Units]

Disjoint(a, b) == a.addr + a.size <= b.addr \/ b.addr + b.size <= a.addr

Init == held = {} /\ parked = {}

Allocate ==
    \E b \in held' \ held :
        /\ b \in Block
        /\ b.addr + b.size <= Units
        /\ \A other \in held \cup parked : Disjoint(b, other)
        /\ held' = held \cup {b}
        /\ UNCHANGED parked

\* The freed block is parked, or reusable at once.
Free ==
    \E b \in held \ held' :
        /\ held' = held \ {b}
        /\ parked' \in {parked, parked \cup {b}}

Reclaim ==
    /\ parked' \subseteq parked
    /\ UNCHANGED held

Next == Allocate \/ Free \/ Reclaim

Spec == Init /\ [][Next]_vars
=============================================================================
