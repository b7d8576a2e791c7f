------------------------------ MODULE MemPool ------------------------------
(***************************************************************************)
(* The game's memory pool, src/memory.c: an address-ordered list of slots  *)
(* kept in an array, the stack of unused array entries threaded through    *)
(* the index fields, and the queue that defers frees.  Sizes are in the    *)
(* 16-byte units every request is rounded up to.  Each function runs with  *)
(* interrupts disabled, hence is one step.                                 *)
(***************************************************************************)
EXTENDS Integers, SequencesExt

CONSTANTS Units,     \* size of the pool's data area
          MaxSlots,  \* maxNumSlots
          Sizes      \* sizes clients ask for

ASSUME MemPoolAssumption ==
    /\ Units \in Nat \ {0}
    /\ MaxSlots \in Nat \ {0, 1}
    /\ Sizes \subseteq 1 .. Units

VARIABLES slots,      \* gMemoryPools[POOL_MAIN].slots, without their index
          index,      \* the index field of each array entry
          curNumSlots,
          queue,      \* gFreeQueue[0 .. gFreeQueueCount - 1]
          freeTimer   \* gFreeQueueTimer

vars == <<slots, index, curNumSlots, queue, freeTimer>>

None == -1                       \* MEMSLOT_NONE
SlotFree == 0  SlotUsed == 1     \* slot flags; nothing locks a pool slot it frees
Entry == 0 .. MaxSlots - 1

-----------------------------------------------------------------------------
(* A pool value gathers what the functions below change.                   *)
Pool == [slots |-> slots, index |-> index, cur |-> curNumSlots]

\* The list from slot 0 along nextIndex, in list order.
Chain(p) ==
    LET walk[i \in Entry] ==
          IF p.slots[i].next = None THEN <<i>>
          ELSE <<i>> \o walk[p.slots[i].next]
    IN  walk[0]

\* The first slot of a set that the list reaches.
First(p, set) ==
    LET c == Chain(p)
    IN  c[Min({k \in DOMAIN c : c[k] \in set})]

Unused == [data |-> 0, size |-> 0, flags |-> SlotFree, prev |-> None, next |-> None]

Link(s, from, to) ==   \* to.prevIndex = from, unless to is MEMSLOT_NONE
    IF to = None THEN s ELSE [s EXCEPT ![to].prev = from]

\* Mutant: the slot behind the new one keeps pointing back at the old one.
AssignUnlinked(p, i, size, flags, restFlags) ==
    LET old  == p.slots[i]
        new  == p.index[p.cur]
        rest == [data |-> old.data + size, size |-> old.size - size,
                 flags |-> restFlags, prev |-> i, next |-> old.next]
        kept == [old EXCEPT !.flags = flags, !.size = size]
    IN  IF size < old.size
        THEN [slots |-> [p.slots EXCEPT ![i] = [kept EXCEPT !.next = new], ![new] = rest],
              index |-> p.index,
              cur   |-> p.cur + 1]
        ELSE [p EXCEPT !.slots[i] = kept]

\* mempool_slot_assign: slot i becomes a block of the given size, and what is
\* left of it a new slot behind it.
Assign(p, i, size, flags, restFlags) ==
    LET old  == p.slots[i]
        new  == p.index[p.cur]
        rest == [data |-> old.data + size, size |-> old.size - size,
                 flags |-> restFlags, prev |-> i, next |-> old.next]
        kept == [old EXCEPT !.flags = flags, !.size = size]
    IN  IF size < old.size
        THEN [slots |-> Link([p.slots EXCEPT ![i] = [kept EXCEPT !.next = new],
                                             ![new] = rest],
                             new, old.next),
              index |-> p.index,
              cur   |-> p.cur + 1]
        ELSE [p EXCEPT !.slots[i] = kept]

\* Slot i swallows the slot j behind it, whose entry goes back on the stack.
\* (What an unused entry still holds is never read and not kept here.)
Absorb(p, i, j) ==
    LET after  == p.slots[j].next
        longer == [p.slots[i] EXCEPT !.size = @ + p.slots[j].size, !.next = after]
    IN  [slots |-> Link([p.slots EXCEPT ![i] = longer, ![j] = Unused], i, after),
         index |-> [p.index EXCEPT ![p.cur - 1] = j],
         cur   |-> p.cur - 1]

IsFree(p, i) == i # None /\ p.slots[i].flags = SlotFree

Freed(p, i) == [p EXCEPT !.slots[i].flags = SlotFree]

\* Mutant: only the free slot behind is merged, not the one in front.
ClearBackwardsForgotten(p, i) ==
    LET freed == Freed(p, i)
        next  == p.slots[i].next
    IN  IF IsFree(p, next) THEN Absorb(freed, i, next) ELSE freed

\* mempool_slot_clear: frees slot i and merges it with its free neighbours.
Clear(p, i) ==
    LET freed == Freed(p, i)
        next  == p.slots[i].next
        prev  == p.slots[i].prev
        ahead == IF IsFree(p, next) THEN Absorb(freed, i, next) ELSE freed
    IN  IF IsFree(p, prev) THEN Absorb(ahead, prev, i) ELSE ahead

\* mempool_free_addr: the first slot at that address, if it is in use.
FreeAddr(p, addr) ==
    LET at == {i \in ToSet(Chain(p)) : p.slots[i].data = addr}
    IN  IF at # {} /\ p.slots[First(p, at)].flags = SlotUsed
        THEN Clear(p, First(p, at)) ELSE p

Become(p) ==
    /\ slots' = p.slots
    /\ index' = p.index
    /\ curNumSlots' = p.cur

-----------------------------------------------------------------------------
\* mempool_init and mempool_init_main.
Init ==
    /\ slots = [i \in Entry |-> IF i = 0 THEN [Unused EXCEPT !.size = Units]
                                ELSE Unused]
    /\ index = [i \in Entry |-> i]
    /\ curNumSlots = 1
    /\ queue = <<>>
    /\ freeTimer = 2

\* Both allocators refuse when one array entry is left.
OutOfSlots == curNumSlots + 1 = MaxSlots

\* mempool_slot_find: the smallest free slot that fits, the first of equals.
BestFit(size) ==
    LET fits == {i \in ToSet(Chain(Pool)) : IsFree(Pool, i) /\ slots[i].size >= size}
        best == {i \in fits : \A j \in fits : slots[i].size <= slots[j].size}
    IN  IF best = {} THEN None ELSE First(Pool, best)

Alloc(size) ==
    /\ ~OutOfSlots
    /\ BestFit(size) # None
    /\ Become(Assign(Pool, BestFit(size), size, SlotUsed, SlotFree))
    /\ UNCHANGED <<queue, freeTimer>>

\* mempool_alloc_fixed: splits the free slot the range lies in, twice if need be.
AllocFixed(size, addr) ==
    /\ ~OutOfSlots
    /\ \E i \in ToSet(Chain(Pool)) :
          /\ IsFree(Pool, i)
          /\ slots[i].data <= addr
          /\ addr + size <= slots[i].data + slots[i].size
          /\ Become(IF addr = slots[i].data
                    THEN Assign(Pool, i, size, SlotUsed, SlotFree)
                    ELSE Assign(Assign(Pool, i, addr - slots[i].data,
                                       SlotFree, SlotUsed),
                                index[curNumSlots], size, SlotUsed, SlotFree))
    /\ UNCHANGED <<queue, freeTimer>>

Used   == {i \in ToSet(Chain(Pool)) : slots[i].flags = SlotUsed}
Queued == {queue[k].addr : k \in 1 .. Len(queue)}

\* mempool_free, of a block its client has not freed before.
Free(i) ==
    /\ i \in Used
    /\ slots[i].data \notin Queued
    /\ IF freeTimer = 0
       THEN /\ Become(FreeAddr(Pool, slots[i].data))
            /\ UNCHANGED queue
       ELSE /\ queue' = Append(queue, [addr |-> slots[i].data, timer |-> freeTimer])
            /\ UNCHANGED <<slots, index, curNumSlots>>
    /\ UNCHANGED freeTimer

\* The queue is freed from its end: the pool once n entries have been freed.
Flushed ==
    LET freed[n \in 0 .. Len(queue)] ==
          IF n = 0 THEN Pool
          ELSE FreeAddr(freed[n - 1], queue[Len(queue) - n + 1].addr)
    IN  freed[Len(queue)]

\* Mutant: the queue is read out but its count is not reset.
FlushKeepsQueue ==
    /\ Become(Flushed)
    /\ UNCHANGED queue

Flush ==
    /\ Become(Flushed)
    /\ queue' = <<>>

\* mempool_free_timer(0) flushes, mempool_free_timer(2) defers frees again.
SetTimer(state) ==
    /\ freeTimer' = state
    /\ IF state = 0 THEN Flush ELSE UNCHANGED <<slots, index, curNumSlots, queue>>

\* One turn of the loop of mempool_free_queue_clear: the entry at k either
\* stays, or is freed and replaced by the last one.
TickEntry(s) ==
    LET e == [s.q[s.k] EXCEPT !.timer = @ - 1]
        n == Len(s.q)
    IN  IF e.timer > 0
        THEN [p |-> s.p, q |-> [s.q EXCEPT ![s.k] = e], k |-> s.k + 1]
        ELSE [p |-> FreeAddr(s.p, e.addr),
              q |-> SubSeq([s.q EXCEPT ![s.k] = s.q[n]], 1, n - 1),
              k |-> s.k]

\* Each turn either advances or shortens the queue, so there are as many turns
\* as there are entries.
Swept ==
    LET turn[n \in 0 .. Len(queue)] ==
          IF n = 0 THEN [p |-> Pool, q |-> queue, k |-> 1]
          ELSE TickEntry(turn[n - 1])
    IN  turn[Len(queue)]

Tick ==
    /\ Become(Swept.p)
    /\ queue' = Swept.q
    /\ UNCHANGED freeTimer

Next ==
    \/ \E size \in Sizes : Alloc(size)
    \/ \E size \in Sizes, addr \in 0 .. Units - 1 : AllocFixed(size, addr)
    \/ \E i \in Entry : Free(i)
    \/ \E state \in {0, 2} : SetTimer(state)
    \/ Tick

Spec == Init /\ [][Next]_vars

-----------------------------------------------------------------------------
TypeOK ==
    /\ slots \in [Entry -> [data : 0 .. Units, size : 0 .. Units, flags : {0, 1},
                            prev : Entry \cup {None}, next : Entry \cup {None}]]
    /\ index \in [Entry -> Entry]
    /\ curNumSlots \in 1 .. MaxSlots
    /\ ToSet(queue) \subseteq [addr : 0 .. Units - 1, timer : {1, 2}]
    /\ freeTimer \in {0, 2}

\* However blocks are split and merged, the list covers the pool exactly once,
\* in address order, and can be walked backwards too.
ExactPartition ==
    LET c == Chain(Pool)
        n == Len(c)
    IN  /\ n = curNumSlots
        /\ slots[c[1]].data = 0 /\ slots[c[1]].prev = None
        /\ slots[c[n]].data + slots[c[n]].size = Units
        /\ \A k \in 1 .. n - 1 :
              /\ slots[c[k]].size > 0
              /\ slots[c[k + 1]].data = slots[c[k]].data + slots[c[k]].size
              /\ slots[c[k + 1]].prev = c[k]

\* The entries above curNumSlots are exactly those not in the list: a split
\* never takes an entry in use, and none is ever lost.
EntriesConserved ==
    LET spare  == {index[k] : k \in curNumSlots .. MaxSlots - 1}
        listed == ToSet(Chain(Pool))
    IN  spare \cap listed = {} /\ spare \cup listed = Entry

\* Free neighbours are always merged: best fit fails only when no free run of
\* memory is large enough.
Coalesced ==
    \A i \in ToSet(Chain(Pool)) :
        IsFree(Pool, i) => ~IsFree(Pool, slots[i].next)

\* Every deferred free still refers to the block it was asked to free.
QueueRefersToBlocks ==
    /\ \A k \in 1 .. Len(queue) : \E i \in Used : slots[i].data = queue[k].addr
    /\ \A j, k \in 1 .. Len(queue) : queue[j].addr = queue[k].addr => j = k

\* The four together: slot list, spare entries, merged neighbours and free
\* queue agree over any sequence of splits, merges and deferred frees.
PoolSound == ExactPartition /\ EntriesConserved /\ Coalesced /\ QueueRefersToBlocks

\* An entry is left for the split of every allocation the slot count lets
\* through ("No more slots available" otherwise).
EntryLeftForSplit == ~OutOfSlots => curNumSlots < MaxSlots

Blocks == {[addr |-> slots[i].data, size |-> slots[i].size] : i \in Used}

\* To its clients the pool is a heap.
HeapView == INSTANCE Heap WITH
    held   <- {b \in Blocks : b.addr \notin Queued},
    parked <- {b \in Blocks : b.addr \in Queued}
HeapSpec == HeapView!Spec
=============================================================================
