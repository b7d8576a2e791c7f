----------------------------- MODULE AudioDma -----------------------------
(***************************************************************************)
(* The sample buffers of the audio manager: a list of buffers in use,      *)
(* ordered by the address of the samples in them, and a list of free ones, *)
(* both linked through the buffers themselves.  The synthesiser asks for   *)
(* samples any number of times while it builds a frame; each frame begins  *)
(* by moving the buffers it no longer used to the free list.  Only the     *)
(* thread of the audio manager does either, after the answer to the last   *)
(* frame's task, and a read is complete when osPiStartDma returns.         *)
(***************************************************************************)
EXTENDS Integers, FiniteSets, Sequences

CONSTANTS Buffers,    \* NUM_DMA_BUFFERS, which is NUM_DMA_MESSAGES
          Length,     \* DMA_BUFFER_LENGTH
          Lag,        \* FRAME_LAG
          Requests,   \* what the synthesiser may ask for: <<address, length>>
          NoBuffer

\* What load.c asks for is shorter than a buffer, so that it fits one that
\* begins a byte early.
ASSUME AudioDmaAssumption ==
    /\ Buffers \in Nat \ {0} /\ Length \in Nat /\ Lag \in Nat
    /\ Length % 2 = 0
    /\ \A r \in Requests : r[1] \in Nat /\ r[2] \in 1 .. Length - 1
    /\ NoBuffer \notin Nat

Buffer == 0 .. Buffers - 1

VARIABLES node,       \* the next and prev of each buffer
          firstUsed, firstFree,   \* dmaState
          startAddr, lastFrame,   \* of each buffer
          audFrameCt,
          nextDMA,    \* reads in this frame, of as many messages as buffers
          answer      \* what the last request got: the buffer, the place in it
                      \* and whether the samples asked for are there

lists == <<node, firstUsed, firstFree>>
dmaVars  == <<lists, startAddr, lastFrame, audFrameCt, nextDMA, answer>>

-----------------------------------------------------------------------------
(* alLink and alUnlink.                                                    *)
Set(f, b, to) == IF b = NoBuffer THEN f ELSE [f EXCEPT ![b] = to]

Link(n, b, to) ==
    [next |-> [n.next EXCEPT ![b] = n.next[to], ![to] = b],
     prev |-> Set([n.prev EXCEPT ![b] = to], n.next[to], b)]

Unlink(n, b) ==
    [next |-> Set(n.next, n.prev[b], n.next[b]),
     prev |-> Set(n.prev, n.next[b], n.prev[b])]

\* What b's own links are when it becomes the head of a list.
Head1(n, b, after) ==
    [next |-> [n.next EXCEPT ![b] = after],
     prev |-> Set([n.prev EXCEPT ![b] = NoBuffer], after, b)]

Follow(n, b) == IF b = NoBuffer THEN NoBuffer ELSE n.next[b]

\* The list that begins with first.
Chain(n, first) ==
    LET at[i \in 0 .. Buffers] == IF i = 0 THEN first ELSE Follow(n, at[i - 1])
    IN  [i \in 1 .. Cardinality({j \in 0 .. Buffers : at[j] # NoBuffer}) |-> at[i - 1]]

-----------------------------------------------------------------------------
(* __amDMA                                                                 *)
Holds(b, addr, len) ==
    startAddr[b] <= addr /\ addr + len <= startAddr[b] + Length

\* The buffer the search ends at: the first that begins past the samples or
\* holds them.
Stop(addr, len) ==
    LET used == Chain(node, firstUsed)
        ends == {i \in DOMAIN used : startAddr[used[i]] > addr \/ Holds(used[i], addr, len)}
    IN  IF ends = {} THEN Len(used) + 1 ELSE CHOOSE i \in ends : \A j \in ends : i <= j

Found(addr, len) ==
    LET used == Chain(node, firstUsed)
        i    == Stop(addr, len)
    IN  IF i \in DOMAIN used /\ Holds(used[i], addr, len) THEN used[i] ELSE NoBuffer

\* The last buffer before that, lastDmaPtr.
Before(addr, len) ==
    LET i == Stop(addr, len)
    IN  IF i = 1 THEN NoBuffer ELSE Chain(node, firstUsed)[i - 1]

Answer(b, at, good) == [buffer |-> b, at |-> at, good |-> good]

Hit(addr, len) ==
    LET b == Found(addr, len)
    IN  /\ b # NoBuffer
        /\ lastFrame' = [lastFrame EXCEPT ![b] = audFrameCt]
        /\ answer' = Answer(b, addr - startAddr[b], TRUE)
        /\ UNCHANGED <<lists, startAddr, audFrameCt, nextDMA>>

\* Mutant: a buffer with lower addresses than all others goes behind the first.
LinkBehindFirst(n, b, before) ==
    IF firstUsed = NoBuffer THEN Head1(n, b, NoBuffer)
    ELSE Link(n, b, IF before = NoBuffer THEN firstUsed ELSE before)

\* The buffer is added to the used list, behind the last one looked at.
LinkUsed(n, b, before) ==
    IF before # NoBuffer THEN Link(n, b, before) ELSE Head1(n, b, firstUsed)

\* Mutant: the free list keeps the buffer taken from it.
FreeKept(b) == b

\* The free list once b, its head, is taken.
FreeAfter(b) == node.next[b]

\* The samples are read into a free buffer.
Miss(addr, len) ==
    LET b == firstFree
        before == Before(addr, len)
    IN  /\ Found(addr, len) = NoBuffer /\ b # NoBuffer
        /\ firstFree' = FreeAfter(b)
        /\ node' = LinkUsed(Unlink(node, b), b, before)
        /\ firstUsed' = IF before = NoBuffer THEN b ELSE firstUsed
        /\ startAddr' = [startAddr EXCEPT ![b] = addr - (addr % 2)]
        /\ lastFrame' = [lastFrame EXCEPT ![b] = audFrameCt]
        /\ nextDMA' = nextDMA + 1
        /\ answer' = Answer(b, addr % 2, TRUE)
        /\ UNCHANGED audFrameCt

\* No buffer is free: some pointer or other is returned.
Bogus(addr, len) ==
    /\ Found(addr, len) = NoBuffer /\ firstFree = NoBuffer
    /\ LET before == Before(addr, len)
       IN  answer' = Answer(IF before = NoBuffer THEN firstUsed ELSE before, addr % 2, FALSE)
    /\ UNCHANGED <<lists, startAddr, lastFrame, audFrameCt, nextDMA>>

-----------------------------------------------------------------------------
(* __clearAudioDMA                                                         *)

\* One buffer that was last used too long ago becomes free.
Release(l, b) ==
    LET n    == Unlink(l.node, b)
        used == IF l.used = b THEN l.node.next[b] ELSE l.used
    IN  IF l.free # NoBuffer
        THEN [node |-> Link(n, b, l.free), used |-> used, free |-> l.free]
        ELSE [node |-> [next |-> [n.next EXCEPT ![b] = NoBuffer],
                        prev |-> [n.prev EXCEPT ![b] = NoBuffer]],
              used |-> used, free |-> b]

\* Of the buffers in used, those in old become free.  A release leaves the links
\* of the buffers still to be looked at alone.
ReleaseOld(l, used, old) ==
    LET after[i \in 0 .. Len(used)] ==
            IF i = 0 THEN l
            ELSE IF used[i] \in old THEN Release(after[i - 1], used[i]) ELSE after[i - 1]
    IN  after[Len(used)]

Clear ==
    /\ LET old == {b \in Buffer : lastFrame[b] + Lag < audFrameCt}
           new == ReleaseOld([node |-> node, used |-> firstUsed, free |-> firstFree],
                             Chain(node, firstUsed), old)
       IN  node' = new.node /\ firstUsed' = new.used /\ firstFree' = new.free
    /\ nextDMA' = 0
    /\ audFrameCt' = audFrameCt + 1
    /\ answer' = Answer(NoBuffer, 0, FALSE)
    /\ UNCHANGED <<startAddr, lastFrame>>

-----------------------------------------------------------------------------
\* amCreateAudioMgr links all buffers, __amDmaNew makes them the free list; the
\* first frame has begun.
DmaInit ==
    /\ node = [next |-> [b \in Buffer |-> IF b = Buffers - 1 THEN NoBuffer ELSE b + 1],
               prev |-> [b \in Buffer |-> IF b = 0 THEN NoBuffer ELSE b - 1]]
    /\ firstUsed = NoBuffer /\ firstFree = 0
    /\ startAddr = [b \in Buffer |-> 0] /\ lastFrame = [b \in Buffer |-> 0]
    /\ audFrameCt = 1 /\ nextDMA = 0
    /\ answer = Answer(NoBuffer, 0, FALSE)

DmaNext ==
    \/ \E r \in Requests : Hit(r[1], r[2]) \/ Miss(r[1], r[2]) \/ Bogus(r[1], r[2])
    \/ Clear

DmaSpec == DmaInit /\ [][DmaNext]_dmaVars

-----------------------------------------------------------------------------
\* The links name buffers, and a frame never reads more often than there are
\* messages in audDMAIOMesgBuf.
DmaTypeOK ==
    /\ node \in [next : [Buffer -> Buffer \cup {NoBuffer}],
                 prev : [Buffer -> Buffer \cup {NoBuffer}]]
    /\ firstUsed \in Buffer \cup {NoBuffer} /\ firstFree \in Buffer \cup {NoBuffer}
    /\ startAddr \in [Buffer -> Nat] /\ lastFrame \in [Buffer -> Nat]
    /\ audFrameCt \in Nat
    /\ nextDMA \in 0 .. Buffers
    /\ answer \in [buffer : Buffer \cup {NoBuffer}, at : 0 .. Length, good : BOOLEAN]

\* The two lists keep the cache the synthesiser relies on: the used one stays in
\* order, so that a search finds what is there; every buffer stays on one of
\* them, so that none is lost; only those not used lately go; and every pointer
\* returned points at the samples asked for unless all buffers are in use
\* (audiomgr.c:410, 437, 527).
Used   == {Chain(node, firstUsed)[i] : i \in DOMAIN Chain(node, firstUsed)}
At(s)  == CHOOSE b \in Used : startAddr[b] = s
Cached == [s \in {startAddr[b] : b \in Used} |-> audFrameCt - lastFrame[At(s)]]
Given  == IF answer.good THEN startAddr[answer.buffer] + answer.at ELSE NoBuffer
Cache  == INSTANCE SampleCache WITH
    Capacity <- Buffers, NoSamples <- NoBuffer, cache <- Cached, answer <- Given
CacheSpec == Cache!Spec
=============================================================================
