----------------------------- MODULE AudioOut -----------------------------
(***************************************************************************)
(* The way of the sound from the audio manager to the DAC.  The manager's  *)
(* thread puts the resampled frames of a buffer into a ring; the interrupt *)
(* at the end of a DMA block points the engine at the next of four blocks  *)
(* and fills another from the ring; the engine plays on meanwhile, and     *)
(* reloads the block it was last pointed at when it comes to the end of    *)
(* one, whether the interrupt has been served or not.  Frames are told     *)
(* apart by a number that counts them, modulo more than there can be at a  *)
(* time.  The resampling itself is left out: of a buffer the module keeps  *)
(* how many frames it needs and by how many it may come out longer or      *)
(* shorter.                                                                *)
(***************************************************************************)
EXTENDS Integers

CONSTANTS Ring,         \* RING_FRAMES
          Blocks,       \* DMA_BLOCKS
          BlockFrames,  \* DMA_FRAMES
          Needs,        \* what the buffers of the game may need
          Drifts,       \* what the correction of the rate adds or takes away
          Ids,          \* Bound: frames are numbered modulo this
          Silence

ASSUME AudioOutAssumption ==
    /\ Ring \in Nat \ {0, 1} /\ Blocks \in Nat \ {0} /\ BlockFrames \in Nat \ {0}
    /\ Needs \subseteq Nat \ {0}
    /\ Drifts \subseteq Int /\ \A need \in Needs, drift \in Drifts : need + drift \in Nat
    /\ Ids \in Nat /\ Ids > Ring + Blocks * BlockFrames
    /\ Silence \notin Nat

VARIABLES ring, read, write,   \* sRing, sRingRead, sRingWrite
          left,       \* frames osAiSetNextBuffer still has to put there
          pushed,     \* the number of the last one put there
          block,      \* sDmaBuf
          dmaIndex,   \* sDmaIndex, the block the engine is pointed at
          filled,     \* frames dma_callback has filled; all, if it does not run
          irq,        \* the engine has come to the end of a block
          playing, pos,   \* the block the engine plays, and the place in it
          again,      \* history: it plays the block once more
          heard       \* history: the last frame it played

out    == <<ring, read, write>>
engine == <<playing, pos, again, heard>>
vars   == <<out, left, pushed, block, dmaIndex, filled, irq, engine>>

Id    == 0 .. Ids - 1
After(id) == (id + 1) % Ids

Init ==
    /\ ring = [i \in 0 .. Ring - 1 |-> Silence] /\ read = 0 /\ write = 0
    /\ left = 0 /\ pushed = Ids - 1
    /\ block = [b \in 0 .. Blocks - 1 |-> [i \in 0 .. BlockFrames - 1 |-> Silence]]
    /\ dmaIndex = 0 /\ filled = BlockFrames /\ irq = FALSE
    /\ playing = 0 /\ pos = 0 /\ again = FALSE /\ heard = Ids - 1

-----------------------------------------------------------------------------
(* The ring.                                                               *)

\* Mutant: the index runs past the end.
SlotPast(i) == i + 1

NextSlot(i) == (i + 1) % Ring

ring_used == IF write >= read THEN write - read ELSE Ring - read + write

ring_free == Ring - 1 - ring_used

-----------------------------------------------------------------------------
(* osAiSetNextBuffer.  The interrupt stops the thread, wherever it is.     *)
Callback == filled < BlockFrames

\* A buffer is taken only if there is room for what it needs at the nominal rate;
\* the rate is then corrected for the drift between the clocks.
AcceptBuffer ==
    /\ left = 0 /\ ~Callback
    /\ \E need \in Needs, drift \in Drifts :
          /\ ring_free >= need
          /\ left' = need + drift
    /\ UNCHANGED <<out, pushed, block, dmaIndex, filled, irq, engine>>

PushFrame ==
    /\ left > 0 /\ ~Callback
    /\ ring_free > 0
    /\ ring' = [ring EXCEPT ![write] = After(pushed)]
    /\ write' = NextSlot(write)
    /\ pushed' = After(pushed)
    /\ left' = left - 1
    /\ UNCHANGED <<read, block, dmaIndex, filled, irq, engine>>

\* The loop also ends when the ring is full.
StopAtFull ==
    /\ left > 0 /\ ~Callback
    /\ ring_free = 0
    /\ left' = 0
    /\ UNCHANGED <<out, pushed, block, dmaIndex, filled, irq, engine>>

-----------------------------------------------------------------------------
(* dma_callback                                                            *)
Latch ==
    /\ irq /\ ~Callback
    /\ irq' = FALSE
    /\ dmaIndex' = (dmaIndex + 1) % Blocks
    /\ filled' = 0
    /\ UNCHANGED <<out, left, pushed, block, engine>>

\* Mutant: the block that came to its end before the interrupt.
FillLast == (dmaIndex + Blocks - 1) % Blocks

FillTarget == (dmaIndex + 2) % Blocks

\* fill_block: silence when there is nothing in the ring.
FillFrame ==
    /\ Callback
    /\ IF read # write
       THEN /\ block' = [block EXCEPT ![FillTarget][filled] = ring[read]]
            /\ read' = NextSlot(read)
       ELSE /\ block' = [block EXCEPT ![FillTarget][filled] = Silence]
            /\ UNCHANGED read
    /\ filled' = filled + 1
    /\ UNCHANGED <<ring, write, left, pushed, dmaIndex, irq, engine>>

-----------------------------------------------------------------------------
(* The engine: the hardware as the comments of the code found it.          *)
PlayFrame ==
    /\ heard' = IF block[playing][pos] = Silence THEN heard ELSE block[playing][pos]
    /\ IF pos + 1 < BlockFrames
       THEN pos' = pos + 1 /\ UNCHANGED <<playing, again, irq>>
       ELSE /\ pos' = 0
            /\ playing' = dmaIndex
            /\ again' = (dmaIndex = playing)
            /\ irq' = TRUE
    /\ UNCHANGED <<out, left, pushed, block, dmaIndex, filled>>

Next == AcceptBuffer \/ PushFrame \/ StopAtFull \/ Latch \/ FillFrame \/ PlayFrame

Spec == Init /\ [][Next]_vars

-----------------------------------------------------------------------------
TypeOK ==
    /\ ring \in [0 .. Ring - 1 -> Id \cup {Silence}]
    /\ read \in 0 .. Ring - 1 /\ write \in 0 .. Ring - 1
    /\ left \in Nat /\ pushed \in Id
    /\ block \in [0 .. Blocks - 1 -> [0 .. BlockFrames - 1 -> Id \cup {Silence}]]
    /\ dmaIndex \in 0 .. Blocks - 1
    /\ filled \in 0 .. BlockFrames
    /\ irq \in BOOLEAN /\ again \in BOOLEAN
    /\ playing \in 0 .. Blocks - 1 /\ pos \in 0 .. BlockFrames - 1
    /\ heard \in Id

\* What goes into the ring leaves the DAC in order and with nothing missing,
\* however late the interrupt is served; and nothing is played twice unless it
\* came after the end of a block (os_ai.c:645-657, 759-766).  A block filled
\* while the engine plays it or is about to, or a ring read past its end, would
\* break it.
PlaysInOrder ==
    [][heard' # heard =>
          \/ heard' = After(heard)
          \/ again /\ (heard - heard') % Ids < BlockFrames]_vars
=============================================================================
