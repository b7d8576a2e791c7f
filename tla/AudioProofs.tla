---------------------------- MODULE AudioProofs ----------------------------
(***************************************************************************)
(* The audio output is type correct, and with four blocks or more the one  *)
(* the interrupt fills is neither the one the engine plays nor the one it  *)
(* will reload, however late the interrupt is served; so that the frames   *)
(* pushed are heard in their order, with none left out.                    *)
(*                                                                         *)
(* The two linked lists of the audio manager are the cache of samples it   *)
(* promises the synthesiser, for any number of buffers and any requests    *)
(* that a buffer can hold.                                                 *)
(***************************************************************************)
EXTENDS AudioOut, AudioDma, TLAPS, FiniteSetTheorems, SequenceTheorems

-----------------------------------------------------------------------------
(* The audio output.                                                       *)

LEMMA InitType == Init => TypeOK
<1> SUFFICES ASSUME Init PROVE TypeOK
  OBVIOUS
<1>1. Ids - 1 \in Id
  <2> DEFINE size == Blocks * BlockFrames
  <2>1. size \in Nat /\ Ids > Ring + size
    BY AudioOutAssumption
  <2> HIDE DEF size
  <2> QED
    BY <2>1, AudioOutAssumption DEF Id
<1>2. ring \in [0 .. Ring - 1 -> Id \cup {Silence}]
  BY DEF Init
<1>3. block \in [0 .. Blocks - 1 -> [0 .. BlockFrames - 1 -> Id \cup {Silence}]]
  BY DEF Init
<1>4. 0 \in 0 .. Ring - 1 /\ 0 \in 0 .. Blocks - 1 /\ 0 \in 0 .. BlockFrames - 1
        /\ BlockFrames \in 0 .. BlockFrames
  BY AudioOutAssumption
<1> QED
  BY <1>1, <1>2, <1>3, <1>4 DEF Init, TypeOK

\* Each step keeps every variable within its type: the indices come round at
\* the end of the ring, and a frame is filled only while the interrupt runs.
LEMMA StepType == TypeOK /\ [Next]_vars => TypeOK'
<1> SUFFICES ASSUME TypeOK, [Next]_vars PROVE TypeOK'
  OBVIOUS
<1>1. CASE AcceptBuffer
  <2>1. PICK need \in Needs, drift \in Drifts : left' = need + drift
    BY <1>1 DEF AcceptBuffer
  <2>2. left' \in Nat
    BY <2>1, AudioOutAssumption
  <2> QED
    BY <1>1, <2>2 DEF AcceptBuffer, TypeOK, out, engine
<1>2. CASE PushFrame
  <2>1. NextSlot(write) \in 0 .. Ring - 1 /\ After(pushed) \in Id
    BY AudioOutAssumption DEF NextSlot, After, TypeOK, Id
  <2>2. ring' \in [0 .. Ring - 1 -> Id \cup {Silence}]
    BY <1>2, <2>1 DEF PushFrame, TypeOK
  <2>3. left' \in Nat
    BY <1>2 DEF PushFrame, TypeOK
  <2> QED
    BY <1>2, <2>1, <2>2, <2>3 DEF PushFrame, TypeOK, engine
<1>3. CASE StopAtFull
  BY <1>3 DEF StopAtFull, TypeOK, out, engine
<1>4. CASE Latch
  <2>1. (dmaIndex + 1) % Blocks \in 0 .. Blocks - 1 /\ 0 \in 0 .. BlockFrames
    BY AudioOutAssumption DEF TypeOK
  <2> QED
    BY <1>4, <2>1 DEF Latch, TypeOK, out, engine
<1>5. CASE FillFrame
  <2>1. FillTarget \in 0 .. Blocks - 1 /\ NextSlot(read) \in 0 .. Ring - 1
    BY AudioOutAssumption DEF FillTarget, NextSlot, TypeOK
  <2>2. filled \in 0 .. BlockFrames - 1 /\ filled' \in 0 .. BlockFrames
    BY <1>5, AudioOutAssumption DEF FillFrame, Callback, TypeOK
  <2>3. ring[read] \in Id \cup {Silence}
    BY DEF TypeOK
  <2>4. PICK x \in Id \cup {Silence} : block' = [block EXCEPT ![FillTarget][filled] = x]
    BY <1>5, <2>3 DEF FillFrame
  <2>5. block' \in [0 .. Blocks - 1 -> [0 .. BlockFrames - 1 -> Id \cup {Silence}]]
    BY <2>1, <2>2, <2>4 DEF TypeOK
  <2>6. read' \in 0 .. Ring - 1
    BY <1>5, <2>1 DEF FillFrame, TypeOK
  <2> QED
    BY <1>5, <2>2, <2>5, <2>6 DEF FillFrame, TypeOK, engine
<1>6. CASE PlayFrame
  <2>1. block[playing][pos] \in Id \cup {Silence}
    BY DEF TypeOK
  <2>2. heard' \in Id
    BY <1>6, <2>1 DEF PlayFrame, TypeOK
  <2>3. playing' \in 0 .. Blocks - 1 /\ pos' \in 0 .. BlockFrames - 1
    BY <1>6, AudioOutAssumption DEF PlayFrame, TypeOK
  <2>4. again' \in BOOLEAN /\ irq' \in BOOLEAN
    BY <1>6, Zenon DEF PlayFrame, TypeOK
  <2> QED
    BY <1>6, <2>2, <2>3, <2>4 DEF PlayFrame, TypeOK, out
<1>7. CASE UNCHANGED vars
  BY <1>7 DEF TypeOK, vars, out, engine
<1> QED
  BY <1>1, <1>2, <1>3, <1>4, <1>5, <1>6, <1>7 DEF Next

\* The ring, the blocks and their indices have their types, for rings and
\* blocks of any size (sRing, sDmaBuf, sRingRead, sRingWrite, sDmaIndex).
THEOREM TypeCorrect == Spec => []TypeOK
<1>1. Init => TypeOK
  BY InitType
<1>2. TypeOK /\ [Next]_vars => TypeOK'
  BY StepType
<1> QED
  BY <1>1, <1>2, PTL DEF Spec

-----------------------------------------------------------------------------
\* The engine plays the block it is pointed at or, until it comes to the end of
\* it, the one before; once it has come to the end it plays the one it is
\* pointed at, until the interrupt has been served.
Behind ==
    /\ playing = dmaIndex \/ dmaIndex = (playing + 1) % Blocks
    /\ irq => playing = dmaIndex

LEMMA StepBehind == TypeOK /\ Behind /\ [Next]_vars => Behind'
<1> SUFFICES ASSUME TypeOK, Behind, [Next]_vars PROVE Behind'
  OBVIOUS
<1>1. CASE Latch
  BY <1>1 DEF Latch, Behind, engine
<1>2. CASE PlayFrame
  BY <1>2 DEF PlayFrame, Behind
<1>3. CASE AcceptBuffer \/ PushFrame \/ StopAtFull \/ FillFrame \/ UNCHANGED vars
  BY <1>3 DEF AcceptBuffer, PushFrame, StopAtFull, FillFrame, vars, engine, Behind
<1> QED
  BY <1>1, <1>2, <1>3 DEF Next

\* The block filled is not the one being played, not the one the engine plays
\* next, nor the one the next interrupt points it at.
FillsElsewhere ==
    FillTarget \notin {playing, dmaIndex, (dmaIndex + 1) % Blocks}

\* "Two blocks cannot fix it ... Four gives every block two clear block-times of
\* daylight on both sides" (os_ai.c:176-181): with four blocks or more
\* dma_callback never fills one that is heard while it does, however many ends
\* of blocks go by before the interrupt is served.
THEOREM DaylightOnBothSides ==
    ASSUME Blocks > 3
    PROVE  Spec => []FillsElsewhere
<1>1. Init => TypeOK /\ Behind
  BY InitType DEF Init, Behind
<1>2. TypeOK /\ Behind /\ [Next]_vars => TypeOK' /\ Behind'
  BY StepType, StepBehind
<1>3. TypeOK /\ Behind => FillsElsewhere
  <2> SUFFICES ASSUME TypeOK, Behind PROVE FillsElsewhere
    OBVIOUS
  <2> DEFINE d == dmaIndex
  <2>1. d \in 0 .. Blocks - 1 /\ playing \in 0 .. Blocks - 1 /\ Blocks \in Nat
    BY AudioOutAssumption DEF TypeOK
  <2>2. FillTarget = IF d + 2 < Blocks THEN d + 2 ELSE d + 2 - Blocks
    BY <2>1 DEF FillTarget
  <2>3. (d + 1) % Blocks = IF d + 1 < Blocks THEN d + 1 ELSE 0
    BY <2>1
  <2>4. d = playing \/ d = IF playing + 1 < Blocks THEN playing + 1 ELSE 0
    BY <2>1 DEF Behind
  <2> QED
    BY <2>1, <2>2, <2>3, <2>4 DEF FillsElsewhere
<1> QED
  BY <1>1, <1>2, <1>3, PTL DEF Spec

-----------------------------------------------------------------------------
(* Counting modulo Ids.                                                    *)
LEMMA IdsPositive == Ids \in Nat \ {0, 1} /\ Ids > BlockFrames
<1> DEFINE size == Blocks * BlockFrames
<1>1. size \in Nat /\ Ids > Ring + size /\ size >= BlockFrames
  BY AudioOutAssumption
<1> HIDE DEF size
<1> QED BY <1>1, AudioOutAssumption


LEMMA Remainder ==
  ASSUME NEW n \in Nat \ {0}, NEW a \in Nat
  PROVE  /\ (a % n) \in 0 .. n - 1
         /\ \E q \in Nat : a = (q * n) + (a % n)
<1>1. (a % n) \in 0 .. n - 1
  OBVIOUS
<1>2. a = n * (a \div n) + (a % n)
  OBVIOUS
<1>3. (a \div n) \in Nat
  OBVIOUS
<1>4. a = ((a \div n) * n) + (a % n)
  BY <1>2, <1>3
<1>5. \E q \in Nat : a = (q * n) + (a % n)
  <2> DEFINE d == a \div n  r == a % n
  <2>1. d \in Nat /\ a = (d * n) + r
    BY <1>3, <1>4
  <2> HIDE DEF d, r
  <2>2. \E q \in Nat : a = (q * n) + r
    BY <2>1
  <2> QED BY <2>2 DEF r
<1> QED BY <1>1, <1>5

LEMMA RemainderIs ==
  ASSUME NEW n \in Nat \ {0}, NEW q \in Int, NEW r \in 0 .. n - 1
  PROVE  ((q * n) + r) % n = r
OBVIOUS

LEMMA ModNext ==
  ASSUME NEW a \in Nat
  PROVE  (a % Ids) \in Id /\ After(a % Ids) = (a + 1) % Ids
<1> DEFINE r == a % Ids
<1>1. PICK q \in Nat : a = (q * Ids) + r
  BY Remainder, IdsPositive
<1>2. r \in 0 .. Ids - 1
  BY Remainder, IdsPositive
<1> HIDE DEF r
<1>3. CASE r + 1 < Ids
  <2>1. (a + 1) % Ids = r + 1
    <3>1. ((q * Ids) + (r + 1)) % Ids = r + 1
      BY <1>2, <1>3, RemainderIs, IdsPositive
    <3> QED BY <1>1, <1>2, <3>1, IdsPositive
  <2>2. (r + 1) % Ids = r + 1
    BY <1>2, <1>3, IdsPositive
  <2> QED BY <1>2, <2>1, <2>2, IdsPositive DEF After, Id, r
<1>4. CASE r + 1 = Ids
  <2>1. (a + 1) % Ids = 0
    <3>1. ((q + 1) * Ids) + 0 = a + 1
      BY <1>1, <1>2, <1>4, IdsPositive
    <3>2. (((q + 1) * Ids) + 0) % Ids = 0
      BY RemainderIs, IdsPositive
    <3> QED BY <3>1, <3>2
  <2>2. (r + 1) % Ids = 0
    BY <1>4, IdsPositive
  <2> QED BY <1>2, <2>1, <2>2, IdsPositive DEF After, Id, r
<1> QED BY <1>2, <1>3, <1>4, IdsPositive

LEMMA ModApart ==
  ASSUME NEW a \in Nat, NEW k \in Nat, k < Ids
  PROVE  (((a + k) % Ids) - (a % Ids)) % Ids = k
<1> DEFINE r == a % Ids  s == (a + k) % Ids
<1>1. PICK q \in Nat : a = (q * Ids) + r
  BY Remainder, IdsPositive
<1>2. PICK p \in Nat : a + k = (p * Ids) + s
  <2>1. a + k \in Nat /\ Ids \in Nat \ {0}
    BY IdsPositive
  <2> QED BY <2>1, Remainder
<1>3. r \in Int /\ s \in Int
  BY IdsPositive
<1> HIDE DEF r, s
<1>4. s - r = ((q - p) * Ids) + k
  BY <1>1, <1>2, <1>3, IdsPositive
<1>5. (((q - p) * Ids) + k) % Ids = k
  <2>1. q - p \in Int /\ k \in 0 .. Ids - 1 /\ Ids \in Nat \ {0}
    BY IdsPositive
  <2> QED BY <2>1, RemainderIs
<1>6. (s - r) % Ids = k
  BY <1>4, <1>5
<1> QED BY <1>6 DEF r, s

-----------------------------------------------------------------------------
(***************************************************************************)
(* The order of what is heard.  Frames are put into the ring under numbers *)
(* that come round; the proof counts them on instead.  H is the count of   *)
(* the last frame heard and G[b][i] the count of the last frame pushed     *)
(* that came to a place of block b up to i.  The counts go on from the     *)
(* block played to the one pointed at, the one after it and the one being  *)
(* filled, and from there through the ring to the last frame pushed.       *)
(***************************************************************************)
Last == BlockFrames - 1

NextBlock(b) == IF b + 1 < Blocks THEN b + 1 ELSE 0

\* The k-th frame in the ring from where it is read.
Slot(k) == IF read + k < Ring THEN read + k ELSE read + k - Ring

\* After the count n comes frame x, which leaves the count at m.
Follows(n, x, m) == IF x = Silence THEN m = n ELSE m = n + 1 /\ x = m % Ids

\* The first n frames of block x have the counts g.
InOrder(x, g, n) ==
    /\ \A i \in 0 .. n - 1 : x[i] # Silence => x[i] = g[i] % Ids
    /\ \A i \in 1 .. n - 1 : Follows(g[i - 1], x[i], g[i])
    /\ \A i, j \in 0 .. n - 1 : i <= j => g[i] <= g[j] /\ g[j] <= g[i] + (j - i)

\* The engine has come to place pos of block x: for the first time, or again
\* and has heard nothing yet since it came to the end.
Playing(x, g, H) ==
    \/ pos = 0 /\ ~again /\ Follows(H, x[0], g[0])
    \/ pos > 0 /\ H = g[pos - 1]
    \/ again /\ H = g[Last] /\ \A i \in 0 .. pos - 1 : x[i] = Silence

\* The count of the last frame taken from the ring.
Taken(G) == IF filled = 0 THEN G[NextBlock(dmaIndex)][Last] ELSE G[FillTarget][filled - 1]

RingFrom(n) ==
    /\ \A k \in 0 .. ring_used - 1 : ring[Slot(k)] = (n + 1 + k) % Ids
    /\ pushed = (n + ring_used) % Ids

BlocksInOrder(G) ==
    /\ InOrder(block[playing], G[playing], BlockFrames)
    /\ InOrder(block[dmaIndex], G[dmaIndex], BlockFrames)
    /\ InOrder(block[NextBlock(dmaIndex)], G[NextBlock(dmaIndex)], BlockFrames)
    /\ InOrder(block[FillTarget], G[FillTarget], filled)
    /\ playing # dmaIndex => Follows(G[playing][Last], block[dmaIndex][0], G[dmaIndex][0])
    /\ Follows(G[dmaIndex][Last], block[NextBlock(dmaIndex)][0],
               G[NextBlock(dmaIndex)][0])
    /\ filled > 0 => Follows(G[NextBlock(dmaIndex)][Last], block[FillTarget][0],
                             G[FillTarget][0])

Counted(G, H) ==
    /\ heard = H % Ids
    /\ Playing(block[playing], G[playing], H)
    /\ BlocksInOrder(G)
    /\ RingFrom(Taken(G))

Counts == [0 .. Blocks - 1 -> [0 .. Last -> Nat]]

Ordered == \E G \in Counts, H \in Nat : Counted(G, H)

\* The indices as sums: the four blocks of the order, and that they differ.
LEMMA Indices ==
  ASSUME TypeOK, Behind, Blocks > 3
  PROVE  /\ Blocks \in Nat /\ BlockFrames \in Nat \ {0} /\ Ring \in Nat \ {0, 1}
         /\ dmaIndex \in 0 .. Blocks - 1 /\ playing \in 0 .. Blocks - 1
         /\ NextBlock(dmaIndex) = (dmaIndex + 1) % Blocks
         /\ NextBlock(dmaIndex) \in 0 .. Blocks - 1
         /\ FillTarget = NextBlock(NextBlock(dmaIndex))
         /\ FillTarget \in 0 .. Blocks - 1
         /\ FillTarget \notin {playing, dmaIndex, NextBlock(dmaIndex)}
         /\ NextBlock(dmaIndex) # dmaIndex
         /\ playing = dmaIndex \/ dmaIndex = NextBlock(playing)
<1> DEFINE d == dmaIndex
<1>1. /\ d \in 0 .. Blocks - 1 /\ playing \in 0 .. Blocks - 1 /\ Blocks \in Nat
      /\ BlockFrames \in Nat \ {0} /\ Ring \in Nat \ {0, 1}
  BY AudioOutAssumption DEF TypeOK
<1>2. FillTarget = IF d + 2 < Blocks THEN d + 2 ELSE d + 2 - Blocks
  BY <1>1 DEF FillTarget
<1>3. (d + 1) % Blocks = NextBlock(d)
  BY <1>1 DEF NextBlock
<1>4. d = playing \/ d = NextBlock(playing)
  BY <1>1 DEF Behind, NextBlock
<1> QED BY <1>1, <1>2, <1>3, <1>4 DEF NextBlock

LEMMA Places ==
  /\ BlockFrames \in Nat \ {0} /\ Ring \in Nat \ {0, 1}
  /\ Last \in Nat /\ BlockFrames = Last + 1 /\ Last = BlockFrames - 1
  /\ 0 \in 0 .. Last /\ Last \in 0 .. Last
BY AudioOutAssumption DEF Last

LEMMA CountOf ==
  ASSUME NEW G \in Counts, NEW b \in 0 .. Blocks - 1, NEW i \in 0 .. Last
  PROVE  G[b] \in [0 .. Last -> Nat] /\ G[b][i] \in Nat
BY DEF Counts

LEMMA TakenCounts ==
  ASSUME TypeOK, Behind, Blocks > 3, NEW G \in Counts
  PROVE  Taken(G) \in Nat
<1>1. filled \in 0 .. BlockFrames
  BY DEF TypeOK
<1>2. CASE filled = 0
  BY <1>2, Places, Indices, CountOf DEF Taken
<1>3. CASE filled # 0
  <2>1. filled - 1 \in 0 .. Last
    BY <1>1, <1>3, Places
  <2> QED BY <1>3, <2>1, Indices, CountOf DEF Taken
<1> QED BY <1>2, <1>3

LEMMA RingIndices ==
  ASSUME TypeOK
  PROVE  /\ ring_used \in 0 .. Ring - 1
         /\ NextSlot(read) = (IF read + 1 < Ring THEN read + 1 ELSE 0)
         /\ NextSlot(write) = (IF write + 1 < Ring THEN write + 1 ELSE 0)
         /\ read # write <=> ring_used > 0
         /\ \A k \in 0 .. Ring - 1 : Slot(k) \in 0 .. Ring - 1
         /\ Slot(0) = read /\ Slot(ring_used) = write
         /\ \A k \in 0 .. ring_used - 1 : Slot(k) # write
<1>1. Ring \in Nat \ {0, 1} /\ read \in 0 .. Ring - 1 /\ write \in 0 .. Ring - 1
  BY AudioOutAssumption DEF TypeOK
<1>2. NextSlot(read) = (IF read + 1 < Ring THEN read + 1 ELSE 0)
  BY <1>1 DEF NextSlot
<1>3. NextSlot(write) = (IF write + 1 < Ring THEN write + 1 ELSE 0)
  BY <1>1 DEF NextSlot
<1>4. ring_used \in 0 .. Ring - 1 /\ (read # write <=> ring_used > 0)
  BY <1>1 DEF ring_used
<1>5. \A k \in 0 .. Ring - 1 : Slot(k) \in 0 .. Ring - 1
  BY <1>1 DEF Slot
<1>6. Slot(0) = read /\ Slot(ring_used) = write
  BY <1>1 DEF Slot, ring_used
<1>7. \A k \in 0 .. ring_used - 1 : Slot(k) # write
  BY <1>1 DEF Slot, ring_used
<1> QED BY <1>2, <1>3, <1>4, <1>5, <1>6, <1>7

\* A step that plays, fills and pushes nothing.
LEMMA CountedStays ==
  ASSUME NEW G, NEW H, Counted(G, H),
         UNCHANGED <<out, engine, pushed, block, dmaIndex, filled>>
  PROVE  Counted(G, H)'
BY DEF Counted, Playing, BlocksInOrder, Taken, RingFrom, ring_used, Slot, out, engine,
       FillTarget

LEMMA CountedPush ==
  ASSUME TypeOK, Behind, Blocks > 3, NEW G \in Counts, NEW H \in Nat,
         Counted(G, H), PushFrame
  PROVE  Counted(G, H)'
<1>1. PICK n \in Nat : n = Taken(G)
  BY TakenCounts
<1>2. UNCHANGED <<read, block, dmaIndex, filled, engine>> /\ write' = NextSlot(write)
      /\ pushed' = After(pushed)
      /\ ring' = [ring EXCEPT ![write] = After(pushed)]
      /\ ring_free > 0
  BY DEF PushFrame
<1>3. Playing(block[playing], G[playing], H)' /\ BlocksInOrder(G)' /\ Taken(G)' = n
      /\ heard' = H % Ids
  BY <1>1, <1>2 DEF Counted, Playing, BlocksInOrder, Taken, engine, FillTarget
<1>4. ring_used' = ring_used + 1
  <2>1. /\ read \in 0 .. Ring - 1 /\ write \in 0 .. Ring - 1 /\ Ring \in Nat \ {0, 1}
        /\ ring_used < Ring - 1
    <3>1. Ring \in Nat \ {0, 1} /\ ring_used \in 0 .. Ring - 1
      BY RingIndices, Places
    <3>2. ring_used < Ring - 1
      BY <1>2, <3>1 DEF ring_free
    <3> QED BY <3>1, <3>2 DEF TypeOK
  <2>2. write' = (IF write + 1 < Ring THEN write + 1 ELSE 0) /\ read' = read
    BY <1>2, RingIndices
  <2> QED BY <2>1, <2>2 DEF ring_used
<1>5. After(pushed) = (n + 1 + ring_used) % Ids
  <2>1. n + ring_used \in Nat /\ pushed = (n + ring_used) % Ids
    BY <1>1, RingIndices, AudioOutAssumption DEF Counted, RingFrom
  <2>2. After(pushed) = ((n + ring_used) + 1) % Ids
    BY <2>1, ModNext
  <2>3. (n + ring_used) + 1 = n + 1 + ring_used
    BY <1>1, RingIndices, AudioOutAssumption
  <2> QED BY <2>2, <2>3
<1>6. ASSUME NEW k \in 0 .. ring_used PROVE ring'[Slot(k)] = (n + 1 + k) % Ids
  <2>1. Slot(k) \in 0 .. Ring - 1
    BY RingIndices, AudioOutAssumption DEF TypeOK
  <2>2. CASE k = ring_used
    BY <1>2, <1>5, <2>1, <2>2, RingIndices DEF TypeOK
  <2>3. CASE k < ring_used
    <3>1. k \in 0 .. ring_used - 1
      BY <2>3, RingIndices
    <3>2. ring'[Slot(k)] = ring[Slot(k)]
      BY <1>2, <2>1, <3>1, RingIndices DEF TypeOK
    <3> QED BY <1>1, <3>1, <3>2 DEF Counted, RingFrom
  <2> QED BY <2>2, <2>3, RingIndices
<1>7. Slot(0)' = Slot(0) /\ \A k \in 0 .. ring_used : Slot(k)' = Slot(k)
  BY <1>2 DEF Slot
<1>8. RingFrom(n)'
  <2>1. ring_used' - 1 = ring_used
    BY <1>4, RingIndices
  <2>2. pushed' = (n + ring_used') % Ids
    <3>1. n + 1 + ring_used = n + ring_used'
      BY <1>4, RingIndices, Places
    <3> QED BY <1>2, <1>5, <3>1
  <2>3. \A k \in 0 .. ring_used' - 1 : ring'[Slot(k)'] = (n + 1 + k) % Ids
    BY <1>6, <1>7, <2>1
  <2> QED BY <2>2, <2>3 DEF RingFrom
<1> QED BY <1>1, <1>3, <1>8 DEF Counted, RingFrom

LEMMA CountedLatch ==
  ASSUME TypeOK, Behind, Blocks > 3, NEW G \in Counts, NEW H \in Nat,
         Counted(G, H), Latch
  PROVE  Counted(G, H)'
<1> DEFINE d == dmaIndex
           e == NextBlock(d)
           t == FillTarget
<1>1. /\ playing = d /\ filled = BlockFrames /\ filled' = 0 /\ dmaIndex' = e
      /\ UNCHANGED <<out, pushed, block, engine>>
  <2>1. playing = d
    BY DEF Latch, Behind
  <2>2. filled = BlockFrames
    BY Indices DEF Latch, Callback, TypeOK
  <2> QED BY <2>1, <2>2, Indices DEF Latch
<1>2. NextBlock(dmaIndex)' = t /\ d # e
  BY <1>1, Indices DEF NextBlock
<1>3. Taken(G)' = G[t][Last] /\ Taken(G) = G[t][Last]
  <2>1. BlockFrames # 0 /\ BlockFrames - 1 = Last
    BY Indices DEF Last
  <2> QED BY <1>1, <1>2, <2>1 DEF Taken
<1>4. BlocksInOrder(G)'
  <2>1. /\ InOrder(block[d], G[d], BlockFrames)
        /\ InOrder(block[e], G[e], BlockFrames)
        /\ InOrder(block[t], G[t], BlockFrames)
        /\ Follows(G[d][Last], block[e][0], G[e][0])
        /\ Follows(G[e][Last], block[t][0], G[t][0])
    <3>1. BlockFrames > 0
      BY Indices
    <3> QED BY <1>1, <3>1 DEF Counted, BlocksInOrder
  <2>2. \A x, g : InOrder(x, g, 0)
    BY DEF InOrder
  <2>3. playing' = d /\ block' = block /\ dmaIndex' = e /\ filled' = 0
    BY <1>1 DEF engine
  <2>4. InOrder(block[FillTarget], G[FillTarget], filled)'
    BY <2>2, <2>3
  <2> QED BY <1>2, <2>1, <2>3, <2>4 DEF BlocksInOrder
<1>5. Playing(block[playing], G[playing], H)' /\ heard' = H % Ids
  BY <1>1 DEF Counted, Playing, engine
<1>6. RingFrom(Taken(G))'
  <2>1. UNCHANGED <<ring, read, write, pushed>>
    BY <1>1 DEF out
  <2> QED BY <1>3, <2>1 DEF Counted, RingFrom, ring_used, Slot
<1> QED BY <1>4, <1>5, <1>6 DEF Counted

\* One count further on.
LEMMA OneStepOn ==
  ASSUME NEW a \in Nat, NEW b \in Nat, NEW c \in Nat, NEW i \in Int, NEW n \in Int,
         a <= b, b <= a + ((n - 1) - i), b <= c, c <= b + 1
  PROVE  a <= c /\ c <= a + (n - i)
OBVIOUS

\* One frame more in order.
LEMMA OneMoreInOrder ==
  ASSUME NEW x, NEW g, NEW n \in 0 .. Last, NEW y, NEW h, NEW c \in Nat,
         g \in [0 .. Last -> Nat], h = [g EXCEPT ![n] = c],
         x \in [0 .. Last -> Id \cup {Silence}],
         y = [x EXCEPT ![n] = y[n]],
         InOrder(x, g, n),
         y[n] # Silence => y[n] = c % Ids,
         n > 0 => Follows(g[n - 1], y[n], c)
  PROVE  InOrder(y, h, n + 1)
<1>1. /\ h[n] = c
      /\ \A i \in 0 .. n - 1 : i \in 0 .. Last /\ h[i] = g[i] /\ y[i] = x[i]
  BY Places
<1>2. \A i \in 0 .. n : y[i] # Silence => y[i] = h[i] % Ids
  BY <1>1 DEF InOrder
<1>3. \A i \in 1 .. n : Follows(h[i - 1], y[i], h[i])
  <2> SUFFICES ASSUME NEW i \in 1 .. n PROVE Follows(h[i - 1], y[i], h[i])
    OBVIOUS
  <2>1. CASE i = n
    BY <1>1, <2>1, Places
  <2>2. CASE i < n
    <3>1. i \in 1 .. n - 1 /\ i \in 0 .. n - 1 /\ i - 1 \in 0 .. n - 1
      BY <2>2, Places
    <3> QED BY <1>1, <3>1 DEF InOrder
  <2> QED BY <2>1, <2>2, Places
<1>4. ASSUME NEW i \in 0 .. n, NEW j \in 0 .. n, i <= j
      PROVE  h[i] <= h[j] /\ h[j] <= h[i] + (j - i)
  <2>1. CASE j < n
    <3>1. i \in 0 .. n - 1 /\ j \in 0 .. n - 1
      BY <1>4, <2>1, Places
    <3> QED BY <1>1, <1>4, <3>1 DEF InOrder
  <2>2. CASE j = n /\ i = n
    BY <1>1, <2>2, Places
  <2>3. CASE j = n /\ i < n
    <3>1. i \in 0 .. n - 1 /\ n - 1 \in 0 .. n - 1 /\ i <= n - 1
      BY <2>3, Places
    <3>2. g[i] <= g[n - 1] /\ g[n - 1] <= g[i] + ((n - 1) - i)
      BY <3>1 DEF InOrder
    <3>3. g[n - 1] <= c /\ c <= g[n - 1] + 1
      <4>1. g[n - 1] \in Nat
        BY <3>1, Places
      <4> QED BY <2>3, <4>1 DEF Follows, Last
    <3>4. g[i] \in Nat /\ g[n - 1] \in Nat
      BY <3>1, Places
    <3>5. h[i] = g[i] /\ h[j] = c
      BY <1>1, <2>3, <3>1
    <3>6. i \in Int /\ n \in Int
      BY <3>1
    <3>7. g[i] <= c /\ c <= g[i] + (n - i)
      BY <3>2, <3>3, <3>4, <3>6, OneStepOn
    <3> QED BY <2>3, <3>5, <3>7
  <2> QED BY <1>4, <2>1, <2>2, <2>3, Places
<1>5. (n + 1) - 1 = n
  BY Places
<1> QED BY <1>2, <1>3, <1>4, <1>5 DEF InOrder

\* The frame that comes next after the count n, from the ring or silence.
LEMMA CountedFill ==
  ASSUME TypeOK, Behind, Blocks > 3, NEW G \in Counts, NEW H \in Nat,
         Counted(G, H), FillFrame
  PROVE  \E K \in Counts : Counted(K, H)'
<1> DEFINE d == dmaIndex
           e == NextBlock(d)
           t == FillTarget
<1>1. /\ d \in 0 .. Blocks - 1 /\ e \in 0 .. Blocks - 1 /\ t \in 0 .. Blocks - 1
      /\ playing \in 0 .. Blocks - 1
      /\ t \notin {playing, d, e}
      /\ BlockFrames \in Nat \ {0} /\ Ring \in Nat \ {0, 1} /\ filled \in 0 .. Last
  <2>1. filled \in 0 .. Last
    BY Indices DEF FillFrame, Callback, TypeOK, Last
  <2> QED BY <2>1, Indices
<1>2. PICK n \in Nat : n = Taken(G)
  BY TakenCounts
<1>3. UNCHANGED <<dmaIndex, playing, pos, again, heard, ring, write, pushed>>
      /\ filled' = filled + 1
  BY DEF FillFrame, engine
<1>4. PICK f \in Id \cup {Silence}, m \in Nat :
           /\ block' = [block EXCEPT ![t][filled] = f]
           /\ Follows(n, f, m)
           /\ f # Silence => f = m % Ids
           /\ RingFrom(m)'
  <2>1. CASE read # write
    <3>1. ring_used > 0 /\ ring_used' = ring_used - 1
      BY <1>3, <2>1, RingIndices, AudioOutAssumption DEF FillFrame, ring_used, TypeOK
    <3>2. ring[read] = (n + 1) % Ids
      <4>1. 0 \in 0 .. ring_used - 1 /\ Slot(0) = read
        BY <3>1, RingIndices, <1>1
      <4>2. ring[Slot(0)] = (n + 1 + 0) % Ids
        BY <1>2, <4>1 DEF Counted, RingFrom
      <4> QED BY <1>2, <4>1, <4>2
    <3>3. ring[read] # Silence
      <4>1. n + 1 \in Nat
        BY <1>2
      <4>2. (n + 1) % Ids \in Id
        BY <4>1, ModNext
      <4> QED BY <3>2, <4>2, AudioOutAssumption DEF Id
    <3>4. RingFrom(n + 1)'
      <4>1. \A k \in 0 .. ring_used' - 1 : ring'[Slot(k)'] = (n + 1 + 1 + k) % Ids
        <5> SUFFICES ASSUME NEW k \in 0 .. ring_used' - 1
                     PROVE  ring'[Slot(k)'] = (n + 1 + 1 + k) % Ids
          OBVIOUS
        <5>1. k + 1 \in 0 .. ring_used - 1 /\ k \in 0 .. Ring - 1
          BY <3>1, RingIndices, <1>1
        <5>2. Slot(k)' = Slot(k + 1)
          <6>1. read' = IF read + 1 < Ring THEN read + 1 ELSE 0
            BY <2>1, RingIndices DEF FillFrame
          <6>2. read \in 0 .. Ring - 1 /\ Ring \in Nat /\ k \in 0 .. Ring - 2
            <7>1. read \in 0 .. Ring - 1
              BY DEF TypeOK
            <7> QED BY <1>1, <3>1, <5>1, <7>1, RingIndices
          <6> QED BY <6>1, <6>2 DEF Slot
        <5>3. ring[Slot(k + 1)] = (n + 1 + (k + 1)) % Ids
          BY <1>2, <5>1 DEF Counted, RingFrom
        <5>4. n + 1 + (k + 1) = n + 1 + 1 + k
          BY <1>2, <5>1
        <5> QED BY <1>3, <5>2, <5>3, <5>4
      <4>2. pushed' = (n + 1 + ring_used') % Ids
        <5>1. n + 1 + ring_used' = n + ring_used
          BY <1>2, <3>1, RingIndices, <1>1
        <5> QED BY <1>2, <1>3, <5>1 DEF Counted, RingFrom
      <4> QED BY <4>1, <4>2 DEF RingFrom
    <3>5. block' = [block EXCEPT ![t][filled] = ring[read]]
      BY <2>1 DEF FillFrame
    <3>6. ring[read] \in Id \cup {Silence} /\ n + 1 \in Nat
      BY DEF TypeOK
    <3> QED BY <3>2, <3>3, <3>4, <3>5, <3>6 DEF Follows
  <2>2. CASE read = write
    <3>1. block' = [block EXCEPT ![t][filled] = Silence] /\ read' = read
      BY <2>2 DEF FillFrame
    <3>2. RingFrom(n)'
      BY <1>2, <1>3, <3>1 DEF Counted, RingFrom, ring_used, Slot
    <3> QED BY <1>2, <3>1, <3>2 DEF Follows
  <2> QED BY <2>1, <2>2
<1> DEFINE g == [G[t] EXCEPT ![filled] = m]
           K == [G EXCEPT ![t] = g]
<1>5. /\ K \in Counts /\ K[t] = g
      /\ \A b \in 0 .. Blocks - 1 : b # t => K[b] = G[b]
      /\ G[t] \in [0 .. Last -> Nat]
      /\ g[filled] = m /\ \A i \in 0 .. Last : i # filled => g[i] = G[t][i]
  BY <1>1 DEF Counts
<1>6. /\ block'[t] = [block[t] EXCEPT ![filled] = f]
      /\ \A b \in 0 .. Blocks - 1 : b # t => block'[b] = block[b]
      /\ block'[t][filled] = f
      /\ \A i \in 0 .. Last : i # filled => block'[t][i] = block[t][i]
      /\ block[t] \in [0 .. Last -> Id \cup {Silence}]
  <2>1. block \in [0 .. Blocks - 1 -> [0 .. Last -> Id \cup {Silence}]]
    BY DEF TypeOK, Last
  <2> QED BY <1>1, <1>4, <2>1
<1>7. filled > 0 => n = G[t][filled - 1] /\ filled - 1 \in 0 .. Last
  BY <1>2, <1>1 DEF Taken, Last
<1>8. filled = 0 => n = G[e][Last]
  BY <1>2 DEF Taken
<1>9. UNCHANGED <<NextBlock(dmaIndex), FillTarget>>
  BY <1>3 DEF NextBlock, FillTarget
<1>10. InOrder(block'[t], g, filled + 1)
  <2>1. InOrder(block[t], G[t], filled)
    BY DEF Counted, BlocksInOrder
  <2>2. PICK x, y, h : x = block[t] /\ y = block'[t] /\ h = G[t]
    OBVIOUS
  <2>3. y[filled] = f /\ y = [x EXCEPT ![filled] = y[filled]]
    BY <1>6, <2>2
  <2>4. filled > 0 => Follows(h[filled - 1], y[filled], m)
    BY <1>4, <1>7, <2>2, <2>3
  <2>5. PICK k : k = [h EXCEPT ![filled] = m]
    OBVIOUS
  <2>6. InOrder(y, k, filled + 1)
    BY <1>1, <1>4, <1>5, <1>6, <2>1, <2>2, <2>3, <2>4, <2>5, OneMoreInOrder
  <2> QED BY <2>2, <2>5, <2>6
<1>11. Follows(G[e][Last], block'[t][0], g[0])
  <2>1. CASE filled = 0
    BY <1>4, <1>5, <1>6, <1>8, <2>1
  <2>2. CASE filled > 0
    <3>1. 0 \in 0 .. Last /\ filled # 0
      BY <1>1, <2>2 DEF Last
    <3> QED BY <1>5, <1>6, <2>2, <3>1 DEF Counted, BlocksInOrder
  <2> QED BY <1>1, <2>1, <2>2
<1>12. PICK k : k = K
  OBVIOUS
<1>13. /\ k \in Counts /\ k[t] = g
       /\ k[playing] = G[playing] /\ k[d] = G[d] /\ k[e] = G[e]
       /\ block'[playing] = block[playing] /\ block'[d] = block[d]
       /\ block'[e] = block[e]
  BY <1>1, <1>5, <1>6, <1>12
<1>14. PICK tt : tt = t
  OBVIOUS
<1>15. FillTarget' = tt /\ NextBlock(dmaIndex)' = e
  BY <1>9, <1>14
<1> HIDE DEF K
<1>16. BlocksInOrder(k)'
  <2>1. InOrder(block[FillTarget], k[FillTarget], filled)'
    BY <1>3, <1>10, <1>13, <1>14, <1>15
  <2>2. (filled > 0 => Follows(k[NextBlock(dmaIndex)][Last], block[FillTarget][0],
                               k[FillTarget][0]))'
    BY <1>11, <1>13, <1>14, <1>15
  <2> QED BY <1>3, <1>13, <1>15, <2>1, <2>2 DEF Counted, BlocksInOrder
<1>17. Taken(k)' = m
  <2>1. filled' # 0 /\ filled' - 1 = filled
    BY <1>1, <1>3 DEF Last
  <2> QED BY <1>5, <1>13, <1>14, <1>15, <2>1 DEF Taken
<1>18. RingFrom(Taken(k))'
  BY <1>4, <1>17 DEF RingFrom
<1>19. Playing(block[playing], k[playing], H)' /\ heard' = H % Ids
  BY <1>3, <1>13 DEF Counted, Playing
<1> QED BY <1>13, <1>16, <1>18, <1>19 DEF Counted

\* What one frame played does to what has been heard.
HeardInOrder ==
    heard' # heard =>
        \/ heard' = After(heard)
        \/ again /\ (heard - heard') % Ids < BlockFrames

\* The count of what has been heard after the frame at pos, and that it is the
\* next one unless the block is played again.
LEMMA FramePlayed ==
  ASSUME TypeOK, Blocks > 3, NEW x, NEW g \in [0 .. Last -> Nat], NEW H \in Nat,
         x = block[playing], InOrder(x, g, BlockFrames), Playing(x, g, H),
         heard = H % Ids, PlayFrame
  PROVE  /\ HeardInOrder
         /\ \E N \in Nat :
               /\ heard' = N % Ids
               /\ \/ N = g[pos]
                  \/ again /\ N = g[Last] /\ \A i \in 0 .. pos : x[i] = Silence
<1>1. /\ pos \in 0 .. Last /\ Last \in 0 .. Last /\ 0 \in 0 .. Last
      /\ BlockFrames \in Nat \ {0} /\ Last = BlockFrames - 1
  BY AudioOutAssumption DEF TypeOK, Last
<1>2. heard' = IF x[pos] = Silence THEN heard ELSE x[pos]
  BY DEF PlayFrame
<1>3. \A i \in 0 .. Last : g[i] \in Nat
  OBVIOUS
<1>4. x[pos] # Silence => x[pos] = g[pos] % Ids
  BY <1>1 DEF InOrder
<1>5. CASE \/ pos = 0 /\ ~again /\ Follows(H, x[0], g[0])
           \/ pos > 0 /\ H = g[pos - 1]
  <2>1. Follows(H, x[pos], g[pos])
    <3>1. CASE pos = 0 /\ Follows(H, x[0], g[0])
      BY <3>1
    <3>2. CASE pos > 0 /\ H = g[pos - 1]
      BY <1>1, <3>2 DEF InOrder
    <3> QED BY <1>5, <3>1, <3>2
  <2>2. heard' = g[pos] % Ids
    BY <1>2, <1>4, <2>1 DEF Follows
  <2>3. heard' # heard => heard' = After(heard)
    BY <1>2, <2>1, ModNext DEF Follows
  <2> QED BY <1>1, <1>3, <2>2, <2>3 DEF HeardInOrder
<1>6. CASE again /\ H = g[Last] /\ \A i \in 0 .. pos - 1 : x[i] = Silence
  <2>1. CASE x[pos] = Silence
    <3>1. \A i \in 0 .. pos : x[i] = Silence
      BY <1>1, <1>6, <2>1
    <3>2. heard' = heard
      BY <1>2, <2>1
    <3> QED BY <1>6, <3>1, <3>2 DEF HeardInOrder
  <2>2. CASE x[pos] # Silence
    <3>1. heard' = g[pos] % Ids
      BY <1>2, <1>4, <2>2
    <3>2. g[pos] <= g[Last] /\ g[Last] <= g[pos] + (Last - pos)
      BY <1>1 DEF InOrder
    <3>3. PICK k \in Nat : g[Last] = g[pos] + k /\ k < BlockFrames
      <4> DEFINE k == g[Last] - g[pos]
      <4>1. k \in Nat /\ g[Last] = g[pos] + k /\ k < BlockFrames
        BY <1>1, <1>3, <3>2
      <4> QED BY <4>1
    <3>4. PICK a \in Nat : a = g[pos]
      BY <1>1, <1>3
    <3>5. (((a + k) % Ids) - (a % Ids)) % Ids = k
      <4>1. k < Ids
        BY <1>1, <3>3, IdsPositive
      <4> QED BY <4>1, ModApart
    <3>6. (heard - heard') % Ids < BlockFrames
      BY <1>6, <3>1, <3>3, <3>4, <3>5
    <3> QED BY <1>1, <1>3, <1>6, <3>1, <3>6 DEF HeardInOrder
  <2> QED BY <2>1, <2>2
<1> QED BY <1>5, <1>6 DEF Playing

LEMMA CountedPlay ==
  ASSUME TypeOK, Behind, Blocks > 3, NEW G \in Counts, NEW H \in Nat,
         Counted(G, H), PlayFrame
  PROVE  HeardInOrder /\ \E N \in Nat : Counted(G, N)'
<1>1. /\ pos \in 0 .. Last /\ Last \in 0 .. Last /\ 0 \in 0 .. Last
      /\ BlockFrames \in Nat \ {0} /\ Last = BlockFrames - 1
      /\ playing \in 0 .. Blocks - 1
  BY AudioOutAssumption DEF TypeOK, Last
<1>2. PICK x, g : x = block[playing] /\ g = G[playing]
  OBVIOUS
<1>3. g \in [0 .. Last -> Nat]
  BY <1>1, <1>2 DEF Counts
<1>4. InOrder(x, g, BlockFrames) /\ Playing(x, g, H) /\ heard = H % Ids
  BY <1>2 DEF Counted, BlocksInOrder
<1>5. PICK N \in Nat :
           /\ heard' = N % Ids
           /\ \/ N = g[pos]
              \/ again /\ N = g[Last] /\ \A i \in 0 .. pos : x[i] = Silence
  BY <1>2, <1>3, <1>4, FramePlayed
<1>6. HeardInOrder
  BY <1>2, <1>3, <1>4, FramePlayed
<1>7. UNCHANGED <<block, dmaIndex, filled, ring, read, write, pushed,
                  FillTarget, NextBlock(dmaIndex)>>
  BY DEF PlayFrame, out, FillTarget, NextBlock
<1>8. RingFrom(Taken(G))'
  BY <1>7 DEF Counted, RingFrom, Taken, ring_used, Slot
<1>9. CASE pos + 1 < BlockFrames
  <2>1. pos' = pos + 1 /\ UNCHANGED <<playing, again>>
    BY <1>9 DEF PlayFrame
  <2>2. BlocksInOrder(G)'
    BY <1>7, <2>1 DEF Counted, BlocksInOrder
  <2>3. Playing(x, g, N)'
    <3>1. pos' > 0 /\ pos' - 1 = pos
      BY <1>1, <2>1
    <3> QED BY <1>5, <2>1, <3>1 DEF Playing
  <2>4. block'[playing'] = x /\ G[playing'] = g
    BY <1>2, <1>7, <2>1
  <2>5. Playing(block[playing], G[playing], N)'
    BY <2>3, <2>4 DEF Playing
  <2> QED BY <1>6, <1>5, <1>8, <2>2, <2>5 DEF Counted
<1>10. CASE pos + 1 = BlockFrames
  <2>1. pos' = 0 /\ playing' = dmaIndex /\ again' = (dmaIndex = playing)
    <3>1. ~(pos + 1 < BlockFrames)
      BY <1>1, <1>10
    <3> QED BY <3>1 DEF PlayFrame
  <2>2. N = g[Last]
    BY <1>1, <1>5, <1>10
  <2>3. BlocksInOrder(G)'
    BY <1>7, <2>1 DEF Counted, BlocksInOrder
  <2>4. Playing(block[playing], G[playing], N)'
    <3>1. CASE dmaIndex = playing
      <4>1. again' /\ G[playing'] = g
        BY <1>2, <2>1, <3>1
      <4> QED BY <2>1, <2>2, <4>1 DEF Playing
    <3>2. CASE dmaIndex # playing
      <4>1. ~again' /\ Follows(N, block[dmaIndex][0], G[dmaIndex][0])
        BY <1>2, <2>1, <2>2, <3>2 DEF Counted, BlocksInOrder
      <4> QED BY <1>7, <2>1, <4>1 DEF Playing
    <3> QED BY <3>1, <3>2
  <2> QED BY <1>6, <1>5, <1>8, <2>3, <2>4 DEF Counted
<1> QED BY <1>1, <1>6, <1>9, <1>10

LEMMA InitOrdered == Blocks > 3 /\ Init => Ordered
<1> SUFFICES ASSUME Blocks > 3, Init PROVE Ordered
  OBVIOUS
<1>1. /\ Blocks \in Nat /\ BlockFrames \in Nat \ {0} /\ Ring \in Nat \ {0, 1}
      /\ Ids \in Nat \ {0, 1} /\ Last = BlockFrames - 1
  BY AudioOutAssumption, IdsPositive DEF Last
<1> DEFINE H == Ids - 1
           G == [b \in 0 .. Blocks - 1 |-> [i \in 0 .. Last |-> H]]
<1>2. H \in Nat /\ H % Ids = H /\ (H + 0) % Ids = H
  BY <1>1
<1>3. G \in Counts
  BY <1>2 DEF Counts
<1> HIDE DEF H
<1>4. \A b \in 0 .. Blocks - 1, i \in 0 .. Last : G[b][i] = H /\ block[b][i] = Silence
  BY <1>1 DEF Init
<1> HIDE DEF G
<1>5. TypeOK /\ Behind
  BY InitType DEF Init, Behind
<1>6. \A b \in 0 .. Blocks - 1 : InOrder(block[b], G[b], BlockFrames)
  <2> SUFFICES ASSUME NEW b \in 0 .. Blocks - 1
               PROVE  InOrder(block[b], G[b], BlockFrames)
    OBVIOUS
  <2>1. \A i \in 0 .. BlockFrames - 1 : block[b][i] = Silence /\ G[b][i] = H
    BY <1>1, <1>4
  <2>2. \A i \in 1 .. BlockFrames - 1 : i \in 0 .. BlockFrames - 1
                                        /\ i - 1 \in 0 .. BlockFrames - 1
    BY <1>1
  <2> QED BY <1>1, <1>2, <2>1, <2>2 DEF InOrder, Follows
<1>7. \A b, c \in 0 .. Blocks - 1 : Follows(G[b][Last], block[c][0], G[c][0])
  BY <1>1, <1>4 DEF Follows
<1>8. filled = BlockFrames /\ pos = 0 /\ ~again /\ playing = dmaIndex /\ heard = H
      /\ pushed = H /\ ring_used = 0
  BY <1>1 DEF Init, ring_used, H
<1>9. BlocksInOrder(G)
  BY <1>5, <1>6, <1>7, <1>8, Indices DEF BlocksInOrder
<1>10. Taken(G) = H
  <2>1. filled - 1 = Last /\ Last \in 0 .. Last /\ filled # 0
    BY <1>1, <1>8
  <2> QED BY <1>4, <1>5, <2>1, Indices DEF Taken
<1>11. RingFrom(Taken(G))
  BY <1>2, <1>8, <1>10 DEF RingFrom
<1>12. Playing(block[playing], G[playing], H)
  BY <1>1, <1>4, <1>5, <1>8, Indices DEF Playing, Follows
<1> QED BY <1>2, <1>3, <1>8, <1>9, <1>11, <1>12 DEF Ordered, Counted

LEMMA StepOrdered ==
  Blocks > 3 /\ TypeOK /\ Behind /\ Ordered /\ [Next]_vars
     => Ordered' /\ [HeardInOrder]_vars
<1> SUFFICES ASSUME Blocks > 3, TypeOK, Behind, Ordered, [Next]_vars
             PROVE  Ordered' /\ HeardInOrder
  OBVIOUS
<1>1. PICK G \in Counts, H \in Nat : Counted(G, H)
  BY DEF Ordered
<1>2. CASE AcceptBuffer \/ StopAtFull \/ UNCHANGED vars
  <2>1. UNCHANGED <<out, engine, pushed, block, dmaIndex, filled>>
    BY <1>2 DEF AcceptBuffer, StopAtFull, vars
  <2>2. Counted(G, H)'
    BY <1>1, <2>1, CountedStays
  <2> QED BY <2>1, <2>2 DEF Ordered, HeardInOrder, engine
<1>3. CASE PushFrame
  BY <1>1, <1>3, CountedPush DEF Ordered, HeardInOrder, PushFrame, engine
<1>4. CASE Latch
  BY <1>1, <1>4, CountedLatch DEF Ordered, HeardInOrder, Latch, engine
<1>5. CASE FillFrame
  BY <1>1, <1>5, CountedFill DEF Ordered, HeardInOrder, FillFrame, engine
<1>6. CASE PlayFrame
  BY <1>1, <1>6, CountedPlay DEF Ordered
<1> QED BY <1>2, <1>3, <1>4, <1>5, <1>6 DEF Next

\* With four blocks or more, the frames pushed into the ring by
\* osAiSetNextBuffer are heard in their order and none is left out, whatever
\* the interleaving of manager, interrupt and engine; a frame is heard again
\* only after the engine came to the end of a block it was not led away from.
THEOREM HeardAsPushed ==
    ASSUME Blocks > 3
    PROVE  Spec => PlaysInOrder
<1>1. Blocks > 3
  OBVIOUS
<1>2. Init => TypeOK /\ Behind /\ Ordered
  BY <1>1, InitType, InitOrdered DEF Init, Behind
<1>3. TypeOK /\ Behind /\ Ordered /\ [Next]_vars => (TypeOK /\ Behind /\ Ordered)'
  BY <1>1, StepType, StepBehind, StepOrdered
<1>4. TypeOK /\ Behind /\ Ordered /\ [Next]_vars => [HeardInOrder]_vars
  BY <1>1, StepOrdered
<1>5. Spec => [][HeardInOrder]_vars
  BY <1>2, <1>3, <1>4, PTL DEF Spec
<1> QED BY <1>5 DEF PlaysInOrder, HeardInOrder

-----------------------------------------------------------------------------
(* The buffers of samples and the lists they are on.                       *)

Node == Buffer \cup {NoBuffer}
Links == [next : [Buffer -> Node], prev : [Buffer -> Node]]
Key == [Buffer -> Int]

\* Of the buffers in S, ordered by key, c is the first, the one after b, the
\* one before b; or there is none.
IsFirst(S, key, c) ==
    \/ c = NoBuffer /\ S = {}
    \/ c \in S /\ \A d \in S : key[c] <= key[d]
IsNext(S, key, b, c) ==
    \/ c = NoBuffer /\ \A d \in S : key[d] <= key[b]
    \/ /\ c \in S /\ key[b] < key[c]
       /\ \A d \in S : key[d] <= key[b] \/ key[c] <= key[d]
IsPrev(S, key, b, c) ==
    \/ c = NoBuffer /\ \A d \in S : key[b] <= key[d]
    \/ /\ c \in S /\ key[c] < key[b]
       /\ \A d \in S : key[d] <= key[c] \/ key[b] <= key[d]

\* The list that begins with first is that of the buffers in S by their keys.
ListOf(nx, pv, first, S, key) ==
    /\ key \in Key
    /\ IsFirst(S, key, first)
    /\ \A b \in S : IsNext(S, key, b, nx[b]) /\ IsPrev(S, key, b, pv[b])
    /\ \A b, c \in S : key[b] = key[c] => b = c

\* The links are those of two lists that have no buffer in common.
Lists(n, first, S, key, head, T, rank) ==
    /\ n \in Links /\ S \in SUBSET Buffer /\ T \in SUBSET Buffer /\ S \cap T = {}
    /\ ListOf(n.next, n.prev, first, S, key)
    /\ ListOf(n.next, n.prev, head, T, rank)

\* The buffers in U are in use, ordered by start; the others are free, in any
\* order.
TwoLists(n, used, free, U, start) ==
    \E rank : Lists(n, used, U, start, free, Buffer \ U, rank)

LEMMA Buffered ==
    /\ Buffers \in Nat \ {0} /\ Buffer \in SUBSET Nat /\ NoBuffer \notin Buffer
    /\ NoBuffer \notin Nat
BY AudioDmaAssumption DEF Buffer

-----------------------------------------------------------------------------
(* A list when a buffer is added or taken away.                            *)

\* Other buffers' links do not matter, and of the keys only their order.
LEMMA SameList ==
    ASSUME NEW nx, NEW pv, NEW first, NEW S \in SUBSET Buffer, NEW key,
           ListOf(nx, pv, first, S, key), NEW nx2, NEW pv2,
           \A d \in S : nx2[d] = nx[d] /\ pv2[d] = pv[d]
    PROVE  ListOf(nx2, pv2, first, S, key)
BY DEF ListOf

LEMMA SameOrder ==
    ASSUME NEW nx, NEW pv, NEW first, NEW S \in SUBSET Buffer, NEW key,
           ListOf(nx, pv, first, S, key), NEW k2 \in Key,
           \A c, d \in S : key[c] < key[d] => k2[c] < k2[d]
    PROVE  ListOf(nx, pv, first, S, k2)
<1>1. \A d \in S : key[d] \in Int /\ k2[d] \in Int
  BY DEF ListOf, Key
<1>2. \A c, d \in S : k2[c] <= k2[d] <=> key[c] <= key[d]
  <2> TAKE c, d \in S
  <2>1. CASE key[c] < key[d]
    BY <1>1, <2>1
  <2>2. CASE key[d] < key[c]
    BY <1>1, <2>2
  <2>3. CASE key[c] = key[d]
    BY <1>1, <2>3 DEF ListOf
  <2> QED
    BY <1>1, <2>1, <2>2, <2>3
<1>3. \A c, d \in S : k2[c] < k2[d] <=> key[c] < key[d]
  BY <1>1, <1>2
<1>4. IsFirst(S, k2, first)
  BY <1>2 DEF IsFirst, ListOf
<1>5. ASSUME NEW b \in S
      PROVE  IsNext(S, k2, b, nx[b]) /\ IsPrev(S, k2, b, pv[b])
  BY <1>2, <1>3 DEF IsNext, IsPrev, ListOf
<1>6. \A b, c \in S : k2[b] = k2[c] => b = c
  <2> TAKE b, c \in S
  <2>1. k2[b] = k2[c] => key[b] = key[c]
    BY <1>1, <1>2
  <2> QED
    BY <2>1 DEF ListOf
<1> QED
  BY <1>4, <1>5, <1>6 DEF ListOf

LEMMA AddedAfter ==
    ASSUME NEW nx, NEW pv, NEW first, NEW S \in SUBSET Buffer, NEW key,
           ListOf(nx, pv, first, S, key),
           NEW b \in Buffer, b \notin S, NEW to \in S,
           key[to] < key[b], \A d \in S : key[d] <= key[to] \/ key[b] < key[d],
           NEW nx2, nx2[to] = b, nx2[b] = nx[to],
           \A d \in S : d # to => nx2[d] = nx[d],
           NEW pv2, pv2[b] = to, nx[to] \in S => pv2[nx[to]] = b,
           \A d \in S : d # nx[to] => pv2[d] = pv[d]
    PROVE  ListOf(nx2, pv2, first, S \cup {b}, key)
<1> DEFINE T == S \cup {b}
<1>1. key \in Key /\ \A d \in T : key[d] \in Int /\ d \in Buffer
  BY DEF ListOf, Key
<1>2. /\ IsFirst(S, key, first)
      /\ \A d \in S : IsNext(S, key, d, nx[d]) /\ IsPrev(S, key, d, pv[d])
      /\ \A c, d \in S : key[c] = key[d] => c = d
  BY DEF ListOf
<1>3. IsFirst(T, key, first)
  BY <1>1, <1>2 DEF IsFirst
<1>4. \A c, d \in T : key[c] = key[d] => c = d
  BY <1>1, <1>2
<1>5. ASSUME NEW d \in T PROVE IsNext(T, key, d, nx2[d])
  <2>1. CASE d = b
    BY <1>1, <1>2, <2>1 DEF IsNext
  <2>2. CASE d = to
    BY <1>1, <1>2, <2>2 DEF IsNext
  <2>3. CASE d # b /\ d # to
    <3>1. d \in S /\ nx2[d] = nx[d] /\ IsNext(S, key, d, nx[d])
      BY <1>2, <2>3
    <3>2. key[d] < key[to] \/ key[b] < key[d]
      BY <1>1, <1>2, <2>3, <3>1
    <3>3. nx[d] \in S => nx[d] \in T /\ (key[nx[d]] <= key[to] \/ key[b] < key[nx[d]])
      OBVIOUS
    <3> QED
      BY <1>1, <3>1, <3>2, <3>3 DEF IsNext
  <2> QED
    BY <2>1, <2>2, <2>3
<1>6. ASSUME NEW d \in T PROVE IsPrev(T, key, d, pv2[d])
  <2>1. CASE d = b
    BY <1>1, <1>2, <2>1 DEF IsPrev
  <2>2. CASE d \in S /\ d = nx[to]
    <3>1. pv2[d] = b /\ IsNext(S, key, to, d)
      BY <1>2, <2>2
    <3>2. d # NoBuffer
      BY <2>2, <1>1, Buffered
    <3>3. key[to] < key[d] /\ \A c \in S : key[c] <= key[to] \/ key[d] <= key[c]
      BY <3>1, <3>2 DEF IsNext
    <3>4. key[b] < key[d]
      BY <1>1, <2>2, <3>3
    <3> QED
      BY <1>1, <3>1, <3>3, <3>4 DEF IsPrev
  <2>3. CASE d \in S /\ d # nx[to]
    <3>1. pv2[d] = pv[d] /\ IsPrev(S, key, d, pv[d]) /\ IsNext(S, key, to, nx[to])
      BY <1>2, <2>3
    <3>2. ~(key[to] < key[d]) \/ key[b] < key[d]
      BY <1>1, <2>3
    <3>3. CASE pv[d] = NoBuffer
      <4>1. \A c \in S : key[d] <= key[c]
        BY <1>1, <3>1, <3>3, Buffered DEF IsPrev
      <4>2. key[d] <= key[to] /\ key[d] <= key[b]
        BY <1>1, <4>1
      <4> QED
        BY <1>1, <3>1, <3>3, <4>1, <4>2 DEF IsPrev
    <3>4. CASE pv[d] # NoBuffer
      <4>1. /\ pv[d] \in S /\ key[pv[d]] < key[d]
            /\ \A c \in S : key[c] <= key[pv[d]] \/ key[d] <= key[c]
        BY <3>1, <3>4 DEF IsPrev
      <4>2. key[b] <= key[pv[d]] \/ key[d] <= key[b]
        <5>1. CASE key[d] <= key[to]
          BY <1>1, <5>1, <2>3
        <5>2. CASE ~(key[d] <= key[to])
          <6>1. key[to] < key[d] /\ nx[to] \in S /\ key[to] < key[nx[to]]
            BY <1>1, <2>3, <3>1, <5>2 DEF IsNext
          <6>2. key[nx[to]] <= key[d] /\ key[nx[to]] # key[d]
            BY <1>1, <1>2, <2>3, <3>1, <6>1 DEF IsNext
          <6>3. key[nx[to]] < key[d]
            BY <1>1, <2>3, <6>1, <6>2
          <6>4. key[nx[to]] <= key[pv[d]]
            BY <1>1, <2>3, <4>1, <6>1, <6>3
          <6>5. key[b] < key[nx[to]]
            BY <1>1, <6>1
          <6> QED
            BY <1>1, <4>1, <6>1, <6>4, <6>5
        <5> QED
          BY <5>1, <5>2
      <4> QED
        BY <1>1, <3>1, <4>1, <4>2 DEF IsPrev
    <3> QED
      BY <3>3, <3>4
  <2> QED
    BY <2>1, <2>2, <2>3
<1> QED
  BY <1>1, <1>3, <1>4, <1>5, <1>6 DEF ListOf

LEMMA AddedFirst ==
    ASSUME NEW nx, NEW pv, NEW first, NEW S \in SUBSET Buffer, NEW key,
           ListOf(nx, pv, first, S, key),
           NEW b \in Buffer, b \notin S, \A d \in S : key[b] < key[d],
           NEW nx2, nx2[b] = first, \A d \in S : nx2[d] = nx[d],
           NEW pv2, pv2[b] = NoBuffer, first \in S => pv2[first] = b,
           \A d \in S : d # first => pv2[d] = pv[d]
    PROVE  ListOf(nx2, pv2, b, S \cup {b}, key)
<1> DEFINE T == S \cup {b}
<1>1. key \in Key /\ \A d \in T : key[d] \in Int /\ d \in Buffer /\ d # NoBuffer
  BY Buffered DEF ListOf, Key
<1>2. /\ IsFirst(S, key, first)
      /\ \A d \in S : IsNext(S, key, d, nx[d]) /\ IsPrev(S, key, d, pv[d])
      /\ \A c, d \in S : key[c] = key[d] => c = d
  BY DEF ListOf
<1>3. IsFirst(T, key, b)
  BY <1>1 DEF IsFirst
<1>4. \A c, d \in T : key[c] = key[d] => c = d
  BY <1>1, <1>2
<1>5. ASSUME NEW d \in T PROVE IsNext(T, key, d, nx2[d])
  BY <1>1, <1>2 DEF IsNext, IsFirst
<1>6. ASSUME NEW d \in T PROVE IsPrev(T, key, d, pv2[d])
  <2>1. CASE d = b
    BY <1>1, <2>1 DEF IsPrev
  <2>2. CASE d \in S /\ d = first
    BY <1>1, <1>2, <2>2 DEF IsPrev, IsFirst
  <2>3. CASE d \in S /\ d # first
    <3>1. first \in S /\ key[first] < key[d] /\ pv2[d] = pv[d]
      BY <1>1, <1>2, <2>3 DEF IsFirst
    <3>2. /\ pv[d] \in S /\ key[pv[d]] < key[d]
          /\ \A c \in S : key[c] <= key[pv[d]] \/ key[d] <= key[c]
      BY <1>1, <1>2, <2>3, <3>1 DEF IsPrev
    <3> QED
      BY <1>1, <3>1, <3>2 DEF IsPrev
  <2> QED
    BY <2>1, <2>2, <2>3
<1> QED
  BY <1>1, <1>3, <1>4, <1>5, <1>6 DEF ListOf

LEMMA TakenAway ==
    ASSUME NEW nx, NEW pv, NEW first, NEW S \in SUBSET Buffer, NEW key,
           ListOf(nx, pv, first, S, key), NEW b \in S,
           NEW nx2, pv[b] \in S => nx2[pv[b]] = nx[b],
           \A d \in S : d # pv[b] => nx2[d] = nx[d],
           NEW pv2, nx[b] \in S => pv2[nx[b]] = pv[b],
           \A d \in S : d # nx[b] => pv2[d] = pv[d]
    PROVE  ListOf(nx2, pv2, IF first = b THEN nx[b] ELSE first, S \ {b}, key)
<1> DEFINE T == S \ {b}
<1>1. key \in Key /\ \A d \in S : key[d] \in Int /\ d \in Buffer /\ d # NoBuffer
  BY Buffered DEF ListOf, Key
<1>2. /\ IsFirst(S, key, first)
      /\ \A d \in S : IsNext(S, key, d, nx[d]) /\ IsPrev(S, key, d, pv[d])
      /\ \A c, d \in S : key[c] = key[d] => c = d
  BY DEF ListOf
<1>3. IsFirst(T, key, IF first = b THEN nx[b] ELSE first)
  <2>1. CASE first = b
    <3>1. \A d \in T : key[b] < key[d]
      BY <1>1, <1>2, <2>1 DEF IsFirst
    <3>2. IsNext(S, key, b, nx[b])
      BY <1>2
    <3> QED
      BY <1>1, <2>1, <3>1, <3>2 DEF IsFirst, IsNext
  <2>2. CASE first # b
    BY <1>1, <1>2, <2>2 DEF IsFirst
  <2> QED
    BY <2>1, <2>2
<1>4. ASSUME NEW d \in T PROVE IsNext(T, key, d, nx2[d])
  <2>1. CASE d = pv[b]
    <3>1. nx2[d] = nx[b] /\ IsPrev(S, key, b, d) /\ IsNext(S, key, b, nx[b])
      BY <1>2, <2>1
    <3>2. key[d] < key[b] /\ \A c \in S : key[c] <= key[d] \/ key[b] <= key[c]
      BY <1>1, <3>1 DEF IsPrev
    <3>3. \A c \in T : key[c] <= key[d] \/ key[b] < key[c]
      BY <1>1, <1>2, <3>2
    <3> QED
      BY <1>1, <3>1, <3>2, <3>3 DEF IsNext
  <2>2. CASE d # pv[b]
    <3>1. nx2[d] = nx[d] /\ IsNext(S, key, d, nx[d]) /\ IsPrev(S, key, b, pv[b])
      BY <1>2, <2>2
    <3>2. nx[d] # b
      <4> SUFFICES ASSUME nx[d] = b PROVE FALSE
        OBVIOUS
      <4>1. key[d] < key[b] /\ \A c \in S : key[c] <= key[d] \/ key[b] <= key[c]
        BY <1>1, <3>1 DEF IsNext
      <4>2. pv[b] \in S /\ key[pv[b]] < key[b] /\ (key[d] <= key[pv[b]] \/ key[b] <= key[d])
        BY <1>1, <3>1, <4>1 DEF IsPrev
      <4>3. key[pv[b]] = key[d]
        BY <1>1, <4>1, <4>2
      <4> QED
        BY <1>2, <2>2, <4>2, <4>3
    <3> QED
      BY <1>1, <3>1, <3>2 DEF IsNext
  <2> QED
    BY <2>1, <2>2
<1>5. ASSUME NEW d \in T PROVE IsPrev(T, key, d, pv2[d])
  <2>1. CASE d = nx[b]
    <3>1. pv2[d] = pv[b] /\ IsNext(S, key, b, d) /\ IsPrev(S, key, b, pv[b])
      BY <1>2, <2>1
    <3>2. key[b] < key[d] /\ \A c \in S : key[c] <= key[b] \/ key[d] <= key[c]
      BY <1>1, <3>1 DEF IsNext
    <3>3. \A c \in T : key[c] < key[b] \/ key[d] <= key[c]
      BY <1>1, <1>2, <3>2
    <3> QED
      BY <1>1, <3>1, <3>2, <3>3 DEF IsPrev
  <2>2. CASE d # nx[b]
    <3>1. pv2[d] = pv[d] /\ IsPrev(S, key, d, pv[d]) /\ IsNext(S, key, b, nx[b])
      BY <1>2, <2>2
    <3>2. pv[d] # b
      <4> SUFFICES ASSUME pv[d] = b PROVE FALSE
        OBVIOUS
      <4>1. key[b] < key[d] /\ \A c \in S : key[c] <= key[b] \/ key[d] <= key[c]
        BY <1>1, <3>1 DEF IsPrev
      <4>2. nx[b] \in S /\ key[b] < key[nx[b]] /\ (key[d] <= key[b] \/ key[nx[b]] <= key[d])
        BY <1>1, <3>1, <4>1 DEF IsNext
      <4>3. key[nx[b]] = key[d]
        BY <1>1, <4>1, <4>2
      <4> QED
        BY <1>2, <2>2, <4>2, <4>3
    <3> QED
      BY <1>1, <3>1, <3>2 DEF IsPrev
  <2> QED
    BY <2>1, <2>2
<1> QED
  BY <1>1, <1>2, <1>3, <1>4, <1>5 DEF ListOf

-----------------------------------------------------------------------------
(* What alLink and alUnlink do to the links of a buffer.                   *)

LEMMA SetIs ==
    ASSUME NEW f \in [Buffer -> Node], NEW b \in Node, NEW to \in Node,
           NEW g, g = Set(f, b, to)
    PROVE  /\ g \in [Buffer -> Node]
           /\ \A d \in Buffer : g[d] = IF d = b THEN to ELSE f[d]
BY Buffered DEF Set, Node

LEMMA UnlinkIs ==
    ASSUME NEW n \in Links, NEW b \in Buffer
    PROVE  /\ Unlink(n, b) \in Links
           /\ \A d \in Buffer :
                 /\ Unlink(n, b).next[d] = IF d = n.prev[b] THEN n.next[b] ELSE n.next[d]
                 /\ Unlink(n, b).prev[d] = IF d = n.next[b] THEN n.prev[b] ELSE n.prev[d]
<1>1. /\ n.next \in [Buffer -> Node] /\ n.prev \in [Buffer -> Node]
      /\ n.next[b] \in Node /\ n.prev[b] \in Node
  BY DEF Links
<1>2. PICK f, g, x, y, nx, pv :
        /\ f = n.next /\ g = n.prev /\ x = n.next[b] /\ y = n.prev[b]
        /\ nx = Set(f, y, x) /\ pv = Set(g, x, y)
  OBVIOUS
<1>3. /\ nx \in [Buffer -> Node] /\ pv \in [Buffer -> Node]
      /\ \A d \in Buffer : nx[d] = IF d = y THEN x ELSE f[d]
      /\ \A d \in Buffer : pv[d] = IF d = x THEN y ELSE g[d]
  BY <1>1, <1>2, Buffered DEF Set, Node
<1>4. Unlink(n, b) = [next |-> nx, prev |-> pv]
  BY <1>2 DEF Unlink
<1> QED
  BY <1>2, <1>3, <1>4 DEF Links

LEMMA LinkIs ==
    ASSUME NEW n \in Links, NEW b \in Buffer, NEW to \in Buffer, b # to
    PROVE  /\ Link(n, b, to) \in Links
           /\ \A d \in Buffer :
                 /\ Link(n, b, to).next[d] =
                       IF d = to THEN b ELSE IF d = b THEN n.next[to] ELSE n.next[d]
                 /\ Link(n, b, to).prev[d] =
                       IF d = n.next[to] THEN b ELSE IF d = b THEN to ELSE n.prev[d]
<1>1. /\ n.next \in [Buffer -> Node] /\ n.prev \in [Buffer -> Node]
      /\ n.next[to] \in Node /\ b \in Node /\ to \in Node
  BY DEF Links, Node
<1>2. PICK nx, pv, qv, x : /\ x = n.next[to] /\ nx = [n.next EXCEPT ![b] = x, ![to] = b]
                           /\ qv = [n.prev EXCEPT ![b] = to]
                           /\ pv = Set(qv, x, b)
  OBVIOUS
<1>3. /\ nx \in [Buffer -> Node] /\ qv \in [Buffer -> Node]
      /\ \A d \in Buffer : nx[d] = IF d = to THEN b ELSE IF d = b THEN x ELSE n.next[d]
      /\ \A d \in Buffer : qv[d] = IF d = b THEN to ELSE n.prev[d]
  BY <1>1, <1>2
<1>4. /\ pv \in [Buffer -> Node]
      /\ \A d \in Buffer : pv[d] = IF d = x THEN b ELSE qv[d]
  BY <1>1, <1>2, <1>3, Buffered DEF Set, Node
<1>5. Link(n, b, to) = [next |-> nx, prev |-> pv]
  BY <1>2 DEF Link
<1> QED
  BY <1>2, <1>3, <1>4, <1>5 DEF Links

LEMMA Head1Is ==
    ASSUME NEW n \in Links, NEW b \in Buffer, NEW after \in Node
    PROVE  /\ Head1(n, b, after) \in Links
           /\ \A d \in Buffer :
                 /\ Head1(n, b, after).next[d] = IF d = b THEN after ELSE n.next[d]
                 /\ Head1(n, b, after).prev[d] =
                       IF d = after THEN b ELSE IF d = b THEN NoBuffer ELSE n.prev[d]
<1>1. n.next \in [Buffer -> Node] /\ n.prev \in [Buffer -> Node] /\ NoBuffer \in Node /\ b \in Node
  BY DEF Links, Node
<1>2. PICK nx, pv, qv : /\ nx = [n.next EXCEPT ![b] = after]
                        /\ qv = [n.prev EXCEPT ![b] = NoBuffer]
                        /\ pv = Set(qv, after, b)
  OBVIOUS
<1>3. /\ nx \in [Buffer -> Node] /\ qv \in [Buffer -> Node]
      /\ \A d \in Buffer : nx[d] = IF d = b THEN after ELSE n.next[d]
      /\ \A d \in Buffer : qv[d] = IF d = b THEN NoBuffer ELSE n.prev[d]
  BY <1>1, <1>2
<1>4. /\ pv \in [Buffer -> Node]
      /\ \A d \in Buffer : pv[d] = IF d = after THEN b ELSE qv[d]
  BY <1>1, <1>2, <1>3, Buffered DEF Set, Node
<1>5. Head1(n, b, after) = [next |-> nx, prev |-> pv]
  BY <1>2 DEF Head1
<1> QED
  BY <1>3, <1>4, <1>5 DEF Links

\* The links of a buffer in a list lead to buffers in that list.
LEMMA LinksWithin ==
    ASSUME NEW nx, NEW pv, NEW first, NEW S \in SUBSET Buffer, NEW key,
           ListOf(nx, pv, first, S, key)
    PROVE  /\ first \in S \cup {NoBuffer} /\ (first = NoBuffer => S = {})
           /\ \A b \in S : nx[b] \in S \cup {NoBuffer} /\ pv[b] \in S \cup {NoBuffer}
           /\ \A b \in S : nx[b] # b /\ pv[b] # b
           /\ \A b \in S : first = b => pv[b] = NoBuffer
           /\ \A b \in S : key[b] \in Int
<1>1. \A b \in S : key[b] \in Int
  BY DEF ListOf, Key
<1>2. first \in S \cup {NoBuffer} /\ (first = NoBuffer => S = {})
  BY Buffered DEF ListOf, IsFirst
<1>3. ASSUME NEW b \in S
      PROVE  /\ nx[b] \in S \cup {NoBuffer} /\ pv[b] \in S \cup {NoBuffer}
             /\ nx[b] # b /\ pv[b] # b /\ (first = b => pv[b] = NoBuffer)
  <2>1. IsNext(S, key, b, nx[b]) /\ IsPrev(S, key, b, pv[b]) /\ IsFirst(S, key, first)
    BY DEF ListOf
  <2>2. b # NoBuffer
    BY Buffered
  <2> QED
    BY <1>1, <2>1, <2>2 DEF IsNext, IsPrev, IsFirst
<1> QED
  BY <1>1, <1>2, <1>3

\* It does not matter which of the two lists is named first.
LEMMA Swapped ==
    ASSUME NEW n, NEW first, NEW S, NEW key, NEW head, NEW T, NEW rank,
           Lists(n, first, S, key, head, T, rank)
    PROVE  Lists(n, head, T, rank, first, S, key)
BY DEF Lists

\* b leaves the list of S; that of T, which has other buffers, stays as it is.
LEMMA Unlinked ==
    ASSUME NEW n, NEW first, NEW S, NEW key, NEW head, NEW T, NEW rank,
           Lists(n, first, S, key, head, T, rank), NEW b \in S
    PROVE  Lists(Unlink(n, b), IF first = b THEN n.next[b] ELSE first, S \ {b}, key,
                 head, T, rank)
<1>1. PICK u : u = Unlink(n, b)
  OBVIOUS
<1>2. /\ n \in Links /\ S \in SUBSET Buffer /\ T \in SUBSET Buffer /\ S \cap T = {}
      /\ b \in Buffer
  BY DEF Lists
<1>3. /\ u \in Links
      /\ \A d \in Buffer :
            /\ u.next[d] = IF d = n.prev[b] THEN n.next[b] ELSE n.next[d]
            /\ u.prev[d] = IF d = n.next[b] THEN n.prev[b] ELSE n.prev[d]
  BY <1>1, <1>2, UnlinkIs
<1>4. PICK nx, pv, mx, mv : nx = n.next /\ pv = n.prev /\ mx = u.next /\ mv = u.prev
  OBVIOUS
<1>5. ListOf(nx, pv, first, S, key) /\ ListOf(nx, pv, head, T, rank)
  BY <1>4 DEF Lists
<1>6. nx[b] \in S \cup {NoBuffer} /\ pv[b] \in S \cup {NoBuffer}
  BY <1>2, <1>5, LinksWithin
<1>7. \A d \in T : mx[d] = nx[d] /\ mv[d] = pv[d]
  BY <1>2, <1>3, <1>4, <1>6, Buffered
<1>8. ListOf(mx, mv, head, T, rank)
  BY <1>2, <1>5, <1>7, SameList
<1>9. /\ pv[b] \in S => mx[pv[b]] = nx[b]
      /\ \A d \in S : d # pv[b] => mx[d] = nx[d]
      /\ nx[b] \in S => mv[nx[b]] = pv[b]
      /\ \A d \in S : d # nx[b] => mv[d] = pv[d]
  BY <1>2, <1>3, <1>4
<1>10. ListOf(mx, mv, IF first = b THEN nx[b] ELSE first, S \ {b}, key)
  BY <1>2, <1>5, <1>9, TakenAway
<1>11. S \ {b} \in SUBSET Buffer /\ (S \ {b}) \cap T = {}
  BY <1>2
<1> QED
  BY <1>1, <1>2, <1>3, <1>4, <1>8, <1>10, <1>11 DEF Lists

\* b goes behind to in the list of S.
LEMMA Linked ==
    ASSUME NEW n, NEW first, NEW S, NEW key, NEW head, NEW T, NEW rank,
           Lists(n, first, S, key, head, T, rank), NEW to \in S,
           NEW b \in Buffer, b \notin S, b \notin T,
           key[to] < key[b], \A d \in S : key[d] <= key[to] \/ key[b] < key[d]
    PROVE  Lists(Link(n, b, to), first, S \cup {b}, key, head, T, rank)
<1>1. PICK u : u = Link(n, b, to)
  OBVIOUS
<1>2. /\ n \in Links /\ S \in SUBSET Buffer /\ T \in SUBSET Buffer /\ S \cap T = {}
      /\ to \in Buffer /\ b # to
  BY DEF Lists
<1>3. /\ u \in Links
      /\ \A d \in Buffer :
            /\ u.next[d] = IF d = to THEN b ELSE IF d = b THEN n.next[to] ELSE n.next[d]
            /\ u.prev[d] = IF d = n.next[to] THEN b ELSE IF d = b THEN to ELSE n.prev[d]
  BY <1>1, <1>2, LinkIs
<1>4. PICK nx, pv, mx, mv : nx = n.next /\ pv = n.prev /\ mx = u.next /\ mv = u.prev
  OBVIOUS
<1>5. ListOf(nx, pv, first, S, key) /\ ListOf(nx, pv, head, T, rank)
  BY <1>4 DEF Lists
<1>6. nx[to] \in S \cup {NoBuffer}
  BY <1>2, <1>5, LinksWithin
<1>7. \A d \in T : mx[d] = nx[d] /\ mv[d] = pv[d]
  BY <1>2, <1>3, <1>4, <1>6, Buffered
<1>8. ListOf(mx, mv, head, T, rank)
  BY <1>2, <1>5, <1>7, SameList
<1>9. /\ mx[to] = b /\ mx[b] = nx[to]
      /\ \A d \in S : d # to => mx[d] = nx[d]
      /\ mv[b] = to /\ (nx[to] \in S => mv[nx[to]] = b)
      /\ \A d \in S : d # nx[to] => mv[d] = pv[d]
  BY <1>2, <1>3, <1>4, <1>6, Buffered
<1>10. ListOf(mx, mv, first, S \cup {b}, key)
  BY <1>2, <1>5, <1>9, AddedAfter
<1>11. S \cup {b} \in SUBSET Buffer /\ (S \cup {b}) \cap T = {}
  BY <1>2
<1> QED
  BY <1>1, <1>2, <1>3, <1>4, <1>8, <1>10, <1>11 DEF Lists

\* b becomes the head of the list of S.
LEMMA Headed ==
    ASSUME NEW n, NEW first \in Node, NEW S, NEW key, NEW head, NEW T, NEW rank,
           Lists(n, first, S, key, head, T, rank),
           NEW b \in Buffer, b \notin S, b \notin T, \A d \in S : key[b] < key[d]
    PROVE  Lists(Head1(n, b, first), b, S \cup {b}, key, head, T, rank)
<1>1. PICK u : u = Head1(n, b, first)
  OBVIOUS
<1>2. n \in Links /\ S \in SUBSET Buffer /\ T \in SUBSET Buffer /\ S \cap T = {}
  BY DEF Lists
<1>3. /\ u \in Links
      /\ \A d \in Buffer :
            /\ u.next[d] = IF d = b THEN first ELSE n.next[d]
            /\ u.prev[d] = IF d = first THEN b ELSE IF d = b THEN NoBuffer ELSE n.prev[d]
  BY <1>1, <1>2, Head1Is
<1>4. PICK nx, pv, mx, mv : nx = n.next /\ pv = n.prev /\ mx = u.next /\ mv = u.prev
  OBVIOUS
<1>5. ListOf(nx, pv, first, S, key) /\ ListOf(nx, pv, head, T, rank)
  BY <1>4 DEF Lists
<1>6. first \in S \cup {NoBuffer}
  BY <1>2, <1>5, LinksWithin
<1>7. \A d \in T : mx[d] = nx[d] /\ mv[d] = pv[d]
  BY <1>2, <1>3, <1>4, <1>6, Buffered
<1>8. ListOf(mx, mv, head, T, rank)
  BY <1>2, <1>5, <1>7, SameList
<1>9. /\ mx[b] = first /\ \A d \in S : mx[d] = nx[d]
      /\ mv[b] = NoBuffer /\ (first \in S => mv[first] = b)
      /\ \A d \in S : d # first => mv[d] = pv[d]
  BY <1>2, <1>3, <1>4, <1>6, Buffered
<1>10. ListOf(mx, mv, b, S \cup {b}, key)
  <2>1. \A d \in S : mx[d] = nx[d]
    BY <1>9
  <2>2. \A d \in S : d # first => mv[d] = pv[d]
    BY <1>9
  <2> QED
    BY <1>2, <1>5, <1>9, <2>1, <2>2, AddedFirst
<1>11. S \cup {b} \in SUBSET Buffer /\ (S \cup {b}) \cap T = {}
  BY <1>2
<1> QED
  BY <1>1, <1>2, <1>3, <1>4, <1>8, <1>10, <1>11 DEF Lists

\* b is alone in a list.
LEMMA Alone ==
    ASSUME NEW nx, NEW pv, NEW b \in Buffer, nx[b] = NoBuffer, pv[b] = NoBuffer, NEW key \in Key
    PROVE  ListOf(nx, pv, b, {b}, key)
BY DEF ListOf, IsFirst, IsNext, IsPrev, Key

-----------------------------------------------------------------------------
(* The two lists when a buffer goes from one to the other.                 *)

\* The first free buffer goes behind before in the list of those in use.
LEMMA Fetched ==
    ASSUME NEW U, NEW start, TwoLists(node, firstUsed, firstFree, U, start),
           firstFree # NoBuffer, NEW before \in U \cup {NoBuffer},
           NEW s2 \in Key, \A d \in U : s2[d] = start[d],
           before = NoBuffer => \A d \in U : s2[firstFree] < s2[d],
           before # NoBuffer =>
               /\ s2[before] < s2[firstFree]
               /\ \A d \in U : s2[d] <= s2[before] \/ s2[firstFree] < s2[d]
    PROVE  /\ firstFree \in Buffer /\ firstFree \notin U
           /\ TwoLists(LinkUsed(Unlink(node, firstFree), firstFree, before),
                       IF before = NoBuffer THEN firstFree ELSE firstUsed,
                       FreeAfter(firstFree), U \cup {firstFree}, s2)
<1>1. PICK n, used, b, F : n = node /\ used = firstUsed /\ b = firstFree /\ F = Buffer \ U
  OBVIOUS
<1>2. PICK rank : Lists(n, used, U, start, b, F, rank)
  BY <1>1 DEF TwoLists
<1>3. /\ n \in Links /\ U \in SUBSET Buffer /\ F \in SUBSET Buffer /\ F \cap U = {}
      /\ ListOf(n.next, n.prev, used, U, start)
      /\ ListOf(n.next, n.prev, b, F, rank)
      /\ b # NoBuffer
  BY <1>1, <1>2 DEF Lists
<1>4. b \in F /\ n.next[b] \in F \cup {NoBuffer} /\ used \in U \cup {NoBuffer}
  BY <1>3, LinksWithin
<1>5. Lists(n, b, F, rank, used, U, s2)
  <2>1. \A c, d \in U : start[c] < start[d] => s2[c] < s2[d]
    OBVIOUS
  <2>2. ListOf(n.next, n.prev, used, U, s2)
    BY <1>3, <2>1, SameOrder
  <2> QED
    BY <1>3, <2>2 DEF Lists
<1>6. PICK u, next, G : u = Unlink(n, b) /\ next = n.next[b] /\ G = F \ {b}
  OBVIOUS
<1>7. /\ used \in Node /\ G = Buffer \ (U \cup {b})
      /\ b \in Buffer /\ b \notin U /\ b \notin G
  BY <1>1, <1>3, <1>4, <1>6 DEF Node
<1>8. Lists(u, used, U, s2, next, G, rank)
  <2>1. Lists(u, IF b = b THEN next ELSE b, G, rank, used, U, s2)
    BY <1>4, <1>5, <1>6, Unlinked
  <2>2. Lists(u, next, G, rank, used, U, s2)
    BY <2>1
  <2> QED
    BY <2>2, Swapped
<1>9. PICK v, first : /\ v = LinkUsed(u, b, before)
                      /\ first = IF before = NoBuffer THEN b ELSE used
  OBVIOUS
<1>10. Lists(v, first, U \cup {b}, s2, next, G, rank)
  <2>1. CASE before # NoBuffer
    <3>1. v = Link(u, b, before) /\ first = used /\ before \in U
      BY <1>9, <2>1 DEF LinkUsed
    <3>2. s2[before] < s2[b] /\ \A d \in U : s2[d] <= s2[before] \/ s2[b] < s2[d]
      BY <1>1, <2>1
    <3> QED
      BY <1>7, <1>8, <3>1, <3>2, Linked
  <2>2. CASE before = NoBuffer
    <3>1. v = Head1(u, b, used) /\ first = b
      BY <1>1, <1>9, <2>2 DEF LinkUsed
    <3>2. \A d \in U : s2[b] < s2[d]
      BY <1>1, <2>2
    <3> QED
      BY <1>7, <1>8, <3>1, <3>2, Headed
  <2> QED
    BY <2>1, <2>2
<1>11. TwoLists(v, first, next, U \cup {b}, s2)
  BY <1>7, <1>10 DEF TwoLists
<1> QED
  BY <1>1, <1>6, <1>7, <1>9, <1>11 DEF FreeAfter

\* The two lists as a release finds and leaves them.
Roots == [node : Links, used : Node, free : Node]
Kept(l, U, start) == TwoLists(l.node, l.used, l.free, U, start)

\* A buffer in use becomes the second of the free ones, or the only one.
LEMMA Released ==
    ASSUME NEW l \in Roots, NEW U, NEW start, Kept(l, U, start), NEW b \in U
    PROVE  Release(l, b) \in Roots /\ Kept(Release(l, b), U \ {b}, start)
<1>1. PICK n, used, free, F : n = l.node /\ used = l.used /\ free = l.free /\ F = Buffer \ U
  OBVIOUS
<1>2. PICK rank : Lists(n, used, U, start, free, F, rank)
  BY <1>1 DEF Kept, TwoLists
<1>3. /\ n \in Links /\ U \in SUBSET Buffer /\ F \in SUBSET Buffer /\ F \cap U = {}
      /\ ListOf(n.next, n.prev, used, U, start)
      /\ ListOf(n.next, n.prev, free, F, rank)
  BY <1>2 DEF Lists
<1>4. PICK V, G : V = U \ {b} /\ G = F \cup {b}
  OBVIOUS
<1>5. /\ b \in Buffer /\ b \notin F /\ b # NoBuffer /\ b \notin V
      /\ V \in SUBSET Buffer /\ F \cap V = {} /\ G = Buffer \ V
  BY <1>1, <1>3, <1>4, Buffered
<1>6. /\ used \in U \cup {NoBuffer} /\ n.next[b] \in U \cup {NoBuffer}
      /\ free \in F \cup {NoBuffer} /\ (free = NoBuffer => F = {})
  BY <1>3, LinksWithin
<1>7. PICK u, first : /\ u = Unlink(n, b)
                      /\ first = IF used = b THEN n.next[b] ELSE used
  OBVIOUS
<1>8. first \in Node /\ Lists(u, first, V, start, free, F, rank)
  <2>1. first \in Node
    BY <1>3, <1>6, <1>7 DEF Node
  <2> QED
    BY <1>2, <1>4, <1>7, <2>1, Unlinked
<1>9. PICK v, w :
        /\ Release(l, b) = [node |-> v, used |-> first, free |-> w]
        /\ free # NoBuffer => v = Link(u, b, free) /\ w = free
        /\ free = NoBuffer => /\ v = [next |-> [u.next EXCEPT ![b] = NoBuffer],
                                      prev |-> [u.prev EXCEPT ![b] = NoBuffer]]
                              /\ w = b
  BY <1>1, <1>7 DEF Release
<1>10. CASE free # NoBuffer
  <2>1. v = Link(u, b, free) /\ w = free /\ free \in F /\ w \in Node
    BY <1>3, <1>6, <1>9, <1>10 DEF Node
  <2>2. PICK r2 : r2 = [d \in Buffer |-> IF d = b THEN 2 * rank[free] + 1 ELSE 2 * rank[d]]
    OBVIOUS
  <2>3. rank \in Key /\ \A d \in F : rank[d] \in Int /\ rank[free] <= rank[d]
    BY <1>3, <2>1, Buffered DEF ListOf, IsFirst, Key
  <2>4. r2 \in Key /\ r2[b] = 2 * rank[free] + 1 /\ \A d \in F : r2[d] = 2 * rank[d]
    BY <1>3, <1>5, <2>1, <2>2, <2>3 DEF Key
  <2>5. \A c, d \in F : rank[c] < rank[d] => r2[c] < r2[d]
    BY <2>3, <2>4
  <2>6. Lists(u, free, F, r2, first, V, start)
    <3>1. /\ u \in Links /\ ListOf(u.next, u.prev, first, V, start)
          /\ ListOf(u.next, u.prev, free, F, rank)
      BY <1>8 DEF Lists
    <3>2. ListOf(u.next, u.prev, free, F, r2)
      BY <1>3, <2>4, <2>5, <3>1, SameOrder
    <3> QED
      BY <1>3, <1>5, <3>1, <3>2 DEF Lists
  <2>7. r2[free] < r2[b] /\ \A d \in F : r2[d] <= r2[free] \/ r2[b] < r2[d]
    BY <2>1, <2>3, <2>4
  <2>8. Lists(v, free, G, r2, first, V, start)
    BY <1>4, <1>5, <2>1, <2>6, <2>7, Linked
  <2>9. Lists(v, first, V, start, w, G, r2)
    BY <2>1, <2>8, Swapped
  <2>10. Lists(v, first, V, start, w, Buffer \ V, r2) /\ v \in Links
    BY <1>5, <2>9 DEF Lists
  <2> QED
    BY <1>4, <1>8, <1>9, <2>1, <2>10 DEF Roots, Kept, TwoLists
<1>11. CASE free = NoBuffer
  <2>1. w = b /\ F = {} /\ v = [next |-> [u.next EXCEPT ![b] = NoBuffer],
                                prev |-> [u.prev EXCEPT ![b] = NoBuffer]]
    BY <1>6, <1>9, <1>11
  <2>2. PICK nx, pv, mx, mv : nx = u.next /\ pv = u.prev /\ mx = v.next /\ mv = v.prev
    OBVIOUS
  <2>3. u \in Links /\ ListOf(nx, pv, first, V, start)
    BY <1>8, <2>2 DEF Lists
  <2>4. /\ nx \in [Buffer -> Node] /\ pv \in [Buffer -> Node]
        /\ mx = [nx EXCEPT ![b] = NoBuffer] /\ mv = [pv EXCEPT ![b] = NoBuffer]
        /\ NoBuffer \in Node
    BY <2>1, <2>2, <2>3 DEF Links, Node
  <2>5. mx \in [Buffer -> Node] /\ mv \in [Buffer -> Node]
    BY <2>4
  <2>6. v \in Links
    BY <2>1, <2>2, <2>5 DEF Links
  <2>7. \A d \in V : mx[d] = nx[d] /\ mv[d] = pv[d]
    BY <1>5, <2>4
  <2>8. ListOf(mx, mv, first, V, start)
    BY <1>5, <2>3, <2>7, SameList
  <2>9. PICK one : one = [d \in Buffer |-> 0]
    OBVIOUS
  <2>10. one \in Key
    BY <2>9 DEF Key
  <2>11. mx[b] = NoBuffer /\ mv[b] = NoBuffer
    BY <1>5, <2>4
  <2>12. ListOf(mx, mv, b, {b}, one)
    BY <1>5, <2>10, <2>11, Alone
  <2>13. G = {b} /\ b \in Node
    BY <1>4, <1>5, <2>1 DEF Node
  <2>14. G \in SUBSET Buffer /\ V \cap G = {}
    BY <1>5, <2>13
  <2>15. Lists(v, first, V, start, w, G, one)
    BY <1>5, <2>1, <2>2, <2>6, <2>8, <2>12, <2>13, <2>14 DEF Lists
  <2>16. Lists(v, first, V, start, w, Buffer \ V, one)
    BY <1>5, <2>15
  <2> QED
    BY <1>4, <1>8, <1>9, <2>1, <2>6, <2>13, <2>16 DEF Roots, Kept, TwoLists
<1> QED
  BY <1>10, <1>11

-----------------------------------------------------------------------------
(* Induction over positions.                                               *)

\* A set of numbers that is not empty has a least element.
LEMMA LeastElement ==
    ASSUME NEW T \in SUBSET Nat, T # {}
    PROVE  \E m \in T : \A n \in T : m <= n
<1> DEFINE R == OpToRel(<, Nat)
<1>1. IsWellFoundedOn(R, Nat)
  BY NatLessThanWellFounded
<1>2. \A a, b \in Nat : <<a, b>> \in R <=> a < b
  BY DEF OpToRel
<1> HIDE DEF R
<1>3. PICK x \in T : \A y \in T : ~ (<<y, x>> \in R)
  BY <1>1, WFMin
<1>4. \A y \in T : ~(y < x)
  BY <1>2, <1>3
<1>5. \A y \in T : x <= y
  BY <1>4
<1> QED
  BY <1>5

\* What holds of 0 and passes from each number to the next holds up to N.
LEMMA Counting ==
    ASSUME NEW N \in Nat, NEW T, 0 \in T, \A n \in 0 .. N - 1 : n \in T => n + 1 \in T
    PROVE  \A n \in 0 .. N : n \in T
<1> DEFINE Bad == {n \in 0 .. N : n \notin T}
<1>1. Bad \in SUBSET Nat
  OBVIOUS
<1>2. ASSUME Bad # {} PROVE FALSE
  <2>1. PICK m \in Bad : \A n \in Bad : m <= n
    BY <1>1, <1>2, LeastElement
  <2>2. m \in 0 .. N /\ m \notin T /\ m # 0
    BY <2>1
  <2>3. m - 1 \in 0 .. N - 1 /\ m - 1 \in 0 .. N /\ (m - 1) + 1 = m
    BY <2>2
  <2>4. m - 1 \in T
    BY <2>1, <2>2, <2>3
  <2> QED
    BY <2>2, <2>3, <2>4
<1> QED
  BY <1>2

\* f[n] is what steps 0 to n - 1 make of first, for each n up to N; it is in In[n].
IsRun(f, N, first, step, In) ==
    /\ f = [n \in 0 .. N |-> f[n]]
    /\ f[0] = first
    /\ \A n \in 0 .. N : f[n] \in In[n]
    /\ \A n \in 1 .. N : f[n] = step[n - 1][f[n - 1]]

\* Steps that lead from one set to the next can be taken one after the other.
LEMMA Iterated ==
    ASSUME NEW N \in Nat, NEW In, NEW first \in In[0], NEW step,
           \A n \in 0 .. N - 1 : \A s \in In[n] : step[n][s] \in In[n + 1]
    PROVE  \E f : IsRun(f, N, first, step, In)
<1> DEFINE T == {M \in Nat : \E f : IsRun(f, M, first, step, In)}
<1>1. 0 \in T
  <2> DEFINE g == [n \in 0 .. 0 |-> first]
  <2>1. g = [n \in 0 .. 0 |-> g[n]] /\ g[0] = first /\ \A n \in 0 .. 0 : n = 0
    OBVIOUS
  <2> HIDE DEF g
  <2>2. IsRun(g, 0, first, step, In)
    BY <2>1 DEF IsRun
  <2> QED
    BY <2>2
<1>2. ASSUME NEW M \in 0 .. N - 1, M \in T
      PROVE  M + 1 \in T
  <2>1. PICK f : IsRun(f, M, first, step, In)
    BY <1>2
  <2> DEFINE g == [n \in 0 .. M + 1 |-> IF n = M + 1 THEN step[M][f[M]] ELSE f[n]]
  <2>2. /\ g = [n \in 0 .. M + 1 |-> g[n]]
        /\ g[M + 1] = step[M][f[M]]
        /\ \A n \in 0 .. M : g[n] = f[n]
    OBVIOUS
  <2> HIDE DEF g
  <2>3. f[M] \in In[M] /\ g[M + 1] \in In[M + 1]
    BY <2>1, <2>2 DEF IsRun
  <2>4. \A n \in 0 .. M + 1 : g[n] \in In[n]
    <3> TAKE n \in 0 .. M + 1
    <3>1. CASE n = M + 1
      BY <2>3, <3>1
    <3>2. CASE n # M + 1
      <4>1. n \in 0 .. M
        BY <3>2
      <4> QED
        BY <2>1, <2>2, <4>1 DEF IsRun
    <3> QED
      BY <3>1, <3>2
  <2>5. \A n \in 1 .. M + 1 : g[n] = step[n - 1][g[n - 1]]
    <3> TAKE n \in 1 .. M + 1
    <3>1. n - 1 \in 0 .. M
      OBVIOUS
    <3>2. CASE n = M + 1
      <4>1. n - 1 = M /\ M \in 0 .. M
        BY <3>2
      <4>2. g[n] = step[M][f[M]] /\ g[M] = f[M]
        BY <2>2, <3>2, <4>1
      <4> QED
        BY <4>1, <4>2
    <3>3. CASE n # M + 1
      <4>1. n \in 1 .. M /\ n \in 0 .. M
        BY <3>3
      <4> QED
        BY <2>1, <2>2, <3>1, <4>1 DEF IsRun
    <3> QED
      BY <3>2, <3>3
  <2>6. g[0] = first
    <3>1. 0 \in 0 .. M
      OBVIOUS
    <3> QED
      BY <2>1, <2>2, <3>1 DEF IsRun
  <2>7. IsRun(g, M + 1, first, step, In)
    BY <2>2, <2>4, <2>5, <2>6 DEF IsRun
  <2>8. M + 1 \in Nat
    OBVIOUS
  <2> QED
    BY <2>7, <2>8
<1>3. N \in T
  <2> HIDE DEF T
  <2>1. \A n \in 0 .. N : n \in T
    BY <1>1, <1>2, Counting
  <2> QED
    BY <2>1
<1> QED
  BY <1>3


-----------------------------------------------------------------------------
(* Chain and ReleaseOld.                                                   *)

\* c lists the buffers in S, each once and in the order of their keys.
Enumerates(c, m, S, key) ==
    /\ m \in 0 .. Buffers
    /\ c \in [1 .. m -> S]
    /\ \A i, j \in 1 .. m : i < j => key[c[i]] < key[c[j]]
    /\ \A d \in S : \E i \in 1 .. m : c[i] = d

LEMMA ManyBuffers ==
    IsFiniteSet(Buffer) /\ Cardinality(Buffer) = Buffers
<1>1. Buffers \in Nat \ {0} /\ 0 \in Int /\ Buffers - 1 \in Int
  BY AudioDmaAssumption
<1>2. IsFiniteSet(0 .. Buffers - 1) /\ Cardinality(0 .. Buffers - 1) = Buffers
  BY <1>1, FS_Interval
<1> QED
  BY <1>2 DEF Buffer

\* The walk along a list: it comes past each buffer of the list once, in the
\* order of their keys, and then to its end.
Walks(at, nx, first) ==
    /\ at[0] = first
    /\ \A i \in 1 .. Buffers :
          at[i] = IF at[i - 1] = NoBuffer THEN NoBuffer ELSE nx[at[i - 1]]

LEMMA WalkStays ==
    ASSUME NEW nx, NEW pv, NEW first, NEW S \in SUBSET Buffer, NEW key,
           ListOf(nx, pv, first, S, key), NEW at, Walks(at, nx, first)
    PROVE  \A i \in 0 .. Buffers : at[i] \in S \cup {NoBuffer}
<1> DEFINE T == {i \in 0 .. Buffers : at[i] \in S \cup {NoBuffer}}
<1>1. Buffers \in Nat /\ 0 \in 0 .. Buffers
  BY Buffered
<1> DEFINE Stops == S \cup {NoBuffer}
<1>0. first \in Stops /\ \A b \in S : nx[b] \in Stops
  BY LinksWithin
<1>2. 0 \in T
  BY <1>0, <1>1 DEF Walks
<1>3. ASSUME NEW i \in 0 .. Buffers - 1, i \in T PROVE i + 1 \in T
  <2>1. i + 1 \in 1 .. Buffers /\ i + 1 \in 0 .. Buffers /\ (i + 1) - 1 = i
    BY <1>1
  <2>2. at[i + 1] = IF at[i] = NoBuffer THEN NoBuffer ELSE nx[at[i]]
    BY <2>1 DEF Walks
  <2> QED
    BY <1>0, <1>3, <2>1, <2>2
<1> HIDE DEF T
<1>4. \A i \in 0 .. Buffers : i \in T
  BY <1>1, <1>2, <1>3, Counting
<1> QED
  BY <1>4 DEF T

LEMMA WalkAscends ==
    ASSUME NEW nx, NEW pv, NEW first, NEW S \in SUBSET Buffer, NEW key,
           ListOf(nx, pv, first, S, key), NEW at, Walks(at, nx, first)
    PROVE  \A i \in 0 .. Buffers : \A j \in 0 .. i - 1 :
              at[i] # NoBuffer => at[j] # NoBuffer /\ key[at[j]] < key[at[i]]
<1> DEFINE T == {i \in 0 .. Buffers : \A j \in 0 .. i - 1 :
                    at[i] # NoBuffer => at[j] # NoBuffer /\ key[at[j]] < key[at[i]]}
<1>1. Buffers \in Nat /\ 0 \in 0 .. Buffers /\ 0 .. 0 - 1 = {}
  BY Buffered
<1>0. \A b \in S : key[b] \in Int
  BY LinksWithin
<1>2. 0 \in T
  BY <1>1
<1>3. ASSUME NEW i \in 0 .. Buffers - 1, i \in T PROVE i + 1 \in T
  <2>1. i + 1 \in 1 .. Buffers /\ i + 1 \in 0 .. Buffers /\ (i + 1) - 1 = i /\ i \in 0 .. Buffers
    BY <1>1
  <2>2. at[i + 1] = IF at[i] = NoBuffer THEN NoBuffer ELSE nx[at[i]]
    BY <2>1 DEF Walks
  <2>3. SUFFICES ASSUME NEW j \in 0 .. (i + 1) - 1, at[i + 1] # NoBuffer
                 PROVE  at[j] # NoBuffer /\ key[at[j]] < key[at[i + 1]]
    BY <2>1
  <2>4. at[i] # NoBuffer /\ at[i + 1] = nx[at[i]]
    BY <2>2, <2>3
  <2>5. at[i] \in S /\ at[i + 1] \in S /\ IsNext(S, key, at[i], at[i + 1])
    <3>1. at[i] \in S /\ at[i + 1] \in S
      BY <2>1, <2>3, <2>4, WalkStays
    <3> QED
      BY <2>4, <3>1 DEF ListOf
  <2>6. key[at[i]] < key[at[i + 1]]
    BY <2>3, <2>5 DEF IsNext
  <2>7. CASE j = i
    BY <2>4, <2>6, <2>7
  <2>8. CASE j # i
    <3>1. j \in 0 .. i - 1 /\ j \in 0 .. Buffers
      BY <1>1, <2>1, <2>3, <2>8
    <3>2. at[j] # NoBuffer /\ key[at[j]] < key[at[i]]
      BY <1>3, <2>4, <3>1
    <3>3. at[j] \in S
      BY <3>1, <3>2, WalkStays
    <3>4. key[at[j]] \in Int /\ key[at[i]] \in Int /\ key[at[i + 1]] \in Int
      BY <1>0, <2>5, <3>3
    <3> QED
      BY <2>6, <3>2, <3>4
  <2> QED
    BY <2>7, <2>8
<1> HIDE DEF T
<1>4. \A i \in 0 .. Buffers : i \in T
  BY <1>1, <1>2, <1>3, Counting
<1> QED
  BY <1>4 DEF T

LEMMA WalkEnds ==
    ASSUME NEW nx, NEW pv, NEW first, NEW S \in SUBSET Buffer, NEW key,
           ListOf(nx, pv, first, S, key), NEW at, Walks(at, nx, first)
    PROVE  \E m \in 0 .. Buffers :
              \A i \in 0 .. Buffers : at[i] # NoBuffer <=> i < m
<1> DEFINE Ends == {i \in 0 .. Buffers : at[i] = NoBuffer}
<1>1. Buffers \in Nat /\ Ends \in SUBSET Nat
  BY Buffered
<1>2. Ends # {}
  <2> SUFFICES ASSUME Ends = {} PROVE FALSE
    OBVIOUS
  <2>1. \A i \in 0 .. Buffers : at[i] \in S
    BY WalkStays
  <2>2. PICK f : f = [i \in 0 .. Buffers |-> at[i]]
    OBVIOUS
  <2>3. f \in [0 .. Buffers -> Buffer] /\ \A i \in 0 .. Buffers : f[i] = at[i]
    BY <2>1, <2>2
  <2>4. IsFiniteSet(0 .. Buffers) /\ Cardinality(0 .. Buffers) = Buffers + 1
    <3>1. 0 \in Int /\ Buffers \in Int /\ ~(0 > Buffers) /\ Buffers - 0 + 1 = Buffers + 1
      BY <1>1
    <3> QED
      BY <3>1, FS_Interval
  <2>5. Cardinality(Buffer) < Cardinality(0 .. Buffers)
    BY <1>1, <2>4, ManyBuffers
  <2>6. PICK i \in 0 .. Buffers, j \in 0 .. Buffers : i # j /\ f[i] = f[j]
    <3>1. PICK I, B : I = 0 .. Buffers /\ B = Buffer
      OBVIOUS
    <3>2. IsFiniteSet(I) /\ IsFiniteSet(B) /\ Cardinality(B) < Cardinality(I) /\ f \in [I -> B]
      BY <2>3, <2>4, <2>5, <3>1, ManyBuffers
    <3>3. \E i, j \in I : i # j /\ f[i] = f[j]
      BY <3>2, FS_PigeonHole
    <3> QED
      BY <3>1, <3>3
  <2>7. at[i] = at[j] /\ at[i] # NoBuffer
    BY <2>3, <2>6
  <2>8. key[at[i]] \in Int
    BY <2>1, LinksWithin
  <2>9. CASE i < j
    <3>1. i \in 0 .. j - 1
      BY <2>9
    <3>2. key[at[i]] < key[at[j]]
      BY <2>7, <3>1, WalkAscends
    <3> QED
      BY <2>7, <2>8, <3>2
  <2>10. CASE j < i
    <3>1. j \in 0 .. i - 1
      BY <2>10
    <3>2. key[at[j]] < key[at[i]]
      BY <2>7, <3>1, WalkAscends
    <3> QED
      BY <2>7, <2>8, <3>2
  <2> QED
    BY <2>6, <2>9, <2>10
<1>3. PICK m \in Ends : \A i \in Ends : m <= i
  BY <1>1, <1>2, LeastElement
<1>4. m \in 0 .. Buffers /\ at[m] = NoBuffer
  BY <1>3
<1>5. ASSUME NEW i \in 0 .. Buffers PROVE at[i] # NoBuffer <=> i < m
  <2>1. CASE i < m
    BY <1>3, <1>4, <2>1
  <2>2. CASE i = m
    BY <1>4, <2>2
  <2>3. CASE m < i
    <3>1. m \in 0 .. i - 1
      BY <1>4, <2>3
    <3> QED
      BY <1>4, <2>3, <3>1, WalkAscends
  <2> QED
    BY <1>4, <2>1, <2>2, <2>3
<1> QED
  BY <1>4, <1>5

LEMMA WalkCovers ==
    ASSUME NEW nx, NEW pv, NEW first, NEW S \in SUBSET Buffer, NEW key,
           ListOf(nx, pv, first, S, key), NEW at, Walks(at, nx, first),
           NEW m \in 0 .. Buffers,
           \A i \in 0 .. Buffers : at[i] # NoBuffer <=> i < m,
           NEW d \in S
    PROVE  \E i \in 0 .. m - 1 : at[i] = d
<1> DEFINE T == {i \in 0 .. m : \/ \E j \in 0 .. i - 1 : at[j] = d
                                \/ at[i] # NoBuffer /\ key[at[i]] <= key[d]}
<1>1. Buffers \in Nat /\ m \in Nat /\ \A i \in 0 .. m : i \in 0 .. Buffers
  BY Buffered
<1>0. \A b \in S : key[b] \in Int
  BY LinksWithin
<1>2. 0 \in T
  <2>1. at[0] = first /\ IsFirst(S, key, first)
    BY DEF Walks, ListOf
  <2>2. first # NoBuffer /\ key[first] <= key[d]
    BY <2>1, Buffered DEF IsFirst
  <2> QED
    BY <1>1, <2>1, <2>2
<1>3. ASSUME NEW i \in 0 .. m - 1, i \in T PROVE i + 1 \in T
  <2>1. /\ i + 1 \in 1 .. Buffers /\ i + 1 \in 0 .. m /\ (i + 1) - 1 = i
        /\ i \in 0 .. Buffers /\ i \in 0 .. i /\ 0 .. i - 1 \subseteq 0 .. i
    BY <1>1
  <2>2. at[i + 1] = IF at[i] = NoBuffer THEN NoBuffer ELSE nx[at[i]]
    BY <2>1 DEF Walks
  <2>3. CASE \E j \in 0 .. i - 1 : at[j] = d
    BY <2>1, <2>3
  <2>4. CASE at[i] = d
    BY <2>1, <2>4
  <2>5. CASE at[i] # d /\ at[i] # NoBuffer /\ key[at[i]] <= key[d]
    <3>1. at[i] \in S /\ IsNext(S, key, at[i], at[i + 1])
      <4>1. at[i] \in S
        BY <2>1, <2>5, WalkStays
      <4> QED
        BY <2>2, <2>5, <4>1 DEF ListOf
    <3>2. key[at[i]] \in Int /\ key[d] \in Int /\ key[at[i]] # key[d]
      BY <1>0, <2>5, <3>1 DEF ListOf
    <3>3. ~(key[d] <= key[at[i]])
      BY <2>5, <3>2
    <3>4. at[i + 1] \in S /\ key[at[i + 1]] <= key[d]
      BY <3>1, <3>3 DEF IsNext
    <3>5. at[i + 1] # NoBuffer
      BY <3>4, Buffered
    <3> QED
      BY <2>1, <3>4, <3>5
  <2> QED
    BY <1>3, <2>3, <2>4, <2>5
<1> HIDE DEF T
<1>4. \A i \in 0 .. m : i \in T
  BY <1>1, <1>2, <1>3, Counting
<1>5. m \in T /\ at[m] = NoBuffer
  BY <1>1, <1>4
<1> QED
  BY <1>5 DEF T

\* What the recursion of Chain returns is such a walk.
ChainOf(at) ==
    [i \in 1 .. Cardinality({j \in 0 .. Buffers : at[j] # NoBuffer}) |-> at[i - 1]]

LEMMA ChainWalks ==
    ASSUME NEW n \in Links, NEW pv, NEW first, NEW S \in SUBSET Buffer, NEW key,
           ListOf(n.next, pv, first, S, key)
    PROVE  \E at : Walks(at, n.next, first) /\ Chain(n, first) = ChainOf(at)
<1> DEFINE Walk(f, i) == IF i = 0 THEN first ELSE Follow(n, f[i - 1])
           IsWalk(f) == f = [i \in 0 .. Buffers |-> Walk(f, i)]
           at == CHOOSE f : IsWalk(f)
           Stops == S \cup {NoBuffer}
           In == [i \in 0 .. Buffers |-> Stops]
           step == [i \in 0 .. Buffers - 1 |-> [b \in Stops |-> Follow(n, b)]]
<1>1. Buffers \in Nat /\ first \in Stops /\ \A b \in Stops : Follow(n, b) \in Stops
  BY Buffered, LinksWithin DEF Follow
<1>2. /\ \A i \in 0 .. Buffers : In[i] = Stops
      /\ \A i \in 0 .. Buffers - 1 : \A b \in Stops : step[i][b] = Follow(n, b)
  OBVIOUS
<1>3. \A i \in 0 .. Buffers - 1 : i \in 0 .. Buffers /\ i + 1 \in 0 .. Buffers
  BY <1>1
<1> HIDE DEF Stops, In, step
<1>4. first \in In[0] /\ \A i \in 0 .. Buffers - 1 : \A b \in In[i] : step[i][b] \in In[i + 1]
  <2>1. 0 \in 0 .. Buffers
    BY <1>1
  <2> QED
    BY <1>1, <1>2, <1>3, <2>1
<1>5. PICK f : IsRun(f, Buffers, first, step, In)
  BY <1>1, <1>4, Iterated
<1>6. \A i \in 0 .. Buffers : f[i] = Walk(f, i)
  <2> TAKE i \in 0 .. Buffers
  <2>1. CASE i = 0
    BY <1>5, <2>1 DEF IsRun
  <2>2. CASE i # 0
    <3>1. i \in 1 .. Buffers /\ i - 1 \in 0 .. Buffers - 1 /\ i - 1 \in 0 .. Buffers
      BY <1>1, <2>2
    <3>2. f[i] = step[i - 1][f[i - 1]] /\ f[i - 1] \in Stops
      BY <1>2, <1>5, <3>1 DEF IsRun
    <3> QED
      BY <1>2, <2>2, <3>1, <3>2
  <2> QED
    BY <2>1, <2>2
<1>7. IsWalk(f)
  <2>1. f = [i \in 0 .. Buffers |-> f[i]]
    BY <1>5 DEF IsRun
  <2> QED
    BY <1>6, <2>1
<1>8. IsWalk(at)
  BY <1>7
<1>9. Chain(n, first) = ChainOf(at)
  BY DEF Chain, ChainOf
<1> HIDE DEF at
<1>10. \A i \in 0 .. Buffers : at[i] = Walk(at, i)
  BY <1>8
<1>11. Walks(at, n.next, first)
  <2>1. at[0] = first
    BY <1>1, <1>10
  <2>2. ASSUME NEW i \in 1 .. Buffers
        PROVE  at[i] = IF at[i - 1] = NoBuffer THEN NoBuffer ELSE n.next[at[i - 1]]
    <3>1. i \in 0 .. Buffers /\ i # 0
      BY <1>1
    <3> QED
      BY <1>10, <3>1 DEF Follow
  <2> QED
    BY <2>1, <2>2 DEF Walks
<1> QED
  BY <1>9, <1>11

LEMMA ChainIs ==
    ASSUME NEW n \in Links, NEW pv, NEW first, NEW S \in SUBSET Buffer, NEW key,
           ListOf(n.next, pv, first, S, key)
    PROVE  \E m : Enumerates(Chain(n, first), m, S, key)
<1>1. PICK nx : nx = n.next
  OBVIOUS
<1>2. ListOf(nx, pv, first, S, key)
  BY <1>1
<1>3. PICK at : Walks(at, nx, first) /\ Chain(n, first) = ChainOf(at)
  BY <1>1, ChainWalks
<1>4. PICK m \in 0 .. Buffers : \A i \in 0 .. Buffers : at[i] # NoBuffer <=> i < m
  BY <1>2, <1>3, WalkEnds
<1>5. Cardinality({j \in 0 .. Buffers : at[j] # NoBuffer}) = m
  <2>1. {j \in 0 .. Buffers : at[j] # NoBuffer} = 0 .. m - 1
    <3>1. \A j : j \in 0 .. Buffers /\ at[j] # NoBuffer <=> j \in 0 .. m - 1
      BY <1>4, Buffered
    <3> QED
      BY <3>1
  <2>2. 0 \in Int /\ m - 1 \in Int /\ (0 > m - 1 => m = 0) /\ (m - 1) - 0 + 1 = m
    OBVIOUS
  <2>3. Cardinality(0 .. m - 1) = m
    BY <2>2, FS_Interval
  <2> QED
    BY <2>1, <2>3
<1>6. PICK c : c = [i \in 1 .. m |-> at[i - 1]]
  OBVIOUS
<1>7. \A i \in 1 .. m : i - 1 \in 0 .. Buffers /\ i - 1 < m /\ c[i] = at[i - 1]
  BY <1>6, Buffered
<1>8. c \in [1 .. m -> S]
  <2>1. \A i \in 0 .. Buffers : at[i] \in S \cup {NoBuffer}
    BY <1>2, <1>3, WalkStays
  <2>2. \A i \in 1 .. m : c[i] \in S
    BY <1>4, <1>7, <2>1
  <2> QED
    BY <1>6, <2>2
<1>9. ASSUME NEW i \in 1 .. m, NEW j \in 1 .. m, i < j
      PROVE  key[c[i]] < key[c[j]]
  <2>1. i - 1 \in 0 .. (j - 1) - 1 /\ j - 1 \in 0 .. Buffers /\ at[j - 1] # NoBuffer
    BY <1>4, <1>7, <1>9
  <2>2. key[at[i - 1]] < key[at[j - 1]]
    BY <1>2, <1>3, <2>1, WalkAscends
  <2> QED
    BY <1>7, <2>2
<1>10. ASSUME NEW d \in S PROVE \E i \in 1 .. m : c[i] = d
  <2>1. PICK i \in 0 .. m - 1 : at[i] = d
    BY <1>2, <1>3, <1>4, WalkCovers
  <2>2. i + 1 \in 1 .. m /\ (i + 1) - 1 = i
    OBVIOUS
  <2> QED
    BY <1>7, <2>1, <2>2
<1>11. Enumerates(c, m, S, key)
  BY <1>8, <1>9, <1>10 DEF Enumerates
<1> QED
  BY <1>3, <1>5, <1>6, <1>11 DEF ChainOf

\* Of the buffers in use, ReleaseOld leaves those that are not old.
LEMMA ReleaseOldIs ==
    ASSUME NEW l \in Roots, NEW U \in SUBSET Buffer, NEW start, Kept(l, U, start),
           NEW c, NEW m, Enumerates(c, m, U, start), NEW old
    PROVE  ReleaseOld(l, c, old) \in Roots /\ Kept(ReleaseOld(l, c, old), U \ old, start)
<1> DEFINE Pass(x, b) == IF b \in old THEN Release(x, b) ELSE x
           Seen(i) == {c[j] : j \in 1 .. i}
           InUse(i) == U \ (old \cap Seen(i))
           Allowed(i) == {x \in Roots : Kept(x, InUse(i), start)}
           Whole(f, i) == IF i = 0 THEN l
                          ELSE IF c[i] \in old THEN Release(f[i - 1], c[i]) ELSE f[i - 1]
           IsWhole(f) == f = [i \in 0 .. Len(c) |-> Whole(f, i)]
           after == CHOOSE f : IsWhole(f)
           In == [i \in 0 .. m |-> Allowed(i)]
           step == [i \in 0 .. m - 1 |-> [x \in Roots |-> Pass(x, c[i + 1])]]
<1>1. /\ m \in 0 .. Buffers /\ c \in [1 .. m -> U]
      /\ \A i, j \in 1 .. m : i < j => start[c[i]] < start[c[j]]
      /\ \A d \in U : \E i \in 1 .. m : c[i] = d
  BY DEF Enumerates
<1>2. m \in Nat /\ Buffers \in Nat
  BY <1>1, Buffered
<1>3. Len(c) = m
  <2>1. c \in Seq(U)
    BY <1>1, <1>2
  <2>2. DOMAIN c = 1 .. Len(c) /\ Len(c) \in Nat
    BY <2>1, LenProperties
  <2> QED
    BY <1>1, <1>2, <2>2
<1>4. \A b \in U : start[b] \in Int
  <2>1. start \in Key
    BY DEF Kept, TwoLists, Lists, ListOf
  <2> QED
    BY <2>1 DEF Key
<1>5. ASSUME NEW i \in 0 .. m - 1
      PROVE  /\ i \in 0 .. m /\ i + 1 \in 0 .. m /\ i + 1 \in 1 .. m /\ (i + 1) - 1 = i
             /\ c[i + 1] \in U /\ c[i + 1] \notin Seen(i)
             /\ Seen(i + 1) = Seen(i) \cup {c[i + 1]}
  <2>1. i \in 0 .. m /\ i + 1 \in 0 .. m /\ i + 1 \in 1 .. m /\ (i + 1) - 1 = i
    BY <1>2
  <2>2. c[i + 1] \in U
    BY <1>1, <2>1
  <2>3. ASSUME NEW j \in 1 .. i PROVE c[j] # c[i + 1]
    <3>1. j \in 1 .. m /\ j < i + 1
      BY <1>2
    <3>2. start[c[j]] < start[c[i + 1]] /\ c[j] \in U
      BY <1>1, <2>1, <3>1
    <3> QED
      BY <1>4, <2>2, <3>2
  <2>4. \A j : j \in 1 .. i + 1 <=> j \in 1 .. i \/ j = i + 1
    BY <1>2
  <2>5. \A x : x \in Seen(i + 1) <=> x \in Seen(i) \cup {c[i + 1]}
    BY <2>4
  <2>6. Seen(i + 1) = Seen(i) \cup {c[i + 1]}
    BY <2>5
  <2> QED
    BY <2>1, <2>2, <2>3, <2>6
<1>6. ASSUME NEW i \in 0 .. m - 1, NEW x \in Allowed(i)
      PROVE  Pass(x, c[i + 1]) \in Allowed(i + 1)
  <2>1. PICK V, b, W : V = InUse(i) /\ b = c[i + 1] /\ W = InUse(i + 1)
    OBVIOUS
  <2>2. b \in V /\ W = V \ ({b} \cap old)
    <3>1. \A d : d \in W <=> d \in V /\ ~(d = b /\ d \in old)
      BY <1>5, <2>1
    <3> HIDE DEF InUse
    <3>2. W = V \ ({b} \cap old)
      BY <3>1
    <3> QED
      BY <1>5, <2>1, <3>2 DEF InUse
  <2>3. x \in Roots /\ Kept(x, V, start)
    BY <1>6, <2>1
  <2>4. CASE b \in old
    <3>1. Release(x, b) \in Roots /\ Kept(Release(x, b), V \ {b}, start)
      BY <2>2, <2>3, Released
    <3>2. W = V \ {b}
      BY <2>2, <2>4
    <3> QED
      BY <2>1, <2>4, <3>1, <3>2
  <2>5. CASE b \notin old
    <3>1. W = V
      BY <2>2, <2>5
    <3> QED
      BY <2>1, <2>3, <2>5, <3>1
  <2> QED
    BY <2>4, <2>5
<1>7. l \in Allowed(0)
  <2>1. Seen(0) = {}
    OBVIOUS
  <2>2. InUse(0) = U
    BY <2>1
  <2> QED
    BY <2>2
<1>8. Allowed(m) = {x \in Roots : Kept(x, U \ old, start)}
  <2>1. \A d : d \in InUse(m) <=> d \in U \ old
    BY <1>1
  <2>2. InUse(m) = U \ old
    BY <2>1
  <2> QED
    BY <2>2
<1>9. \A i \in 0 .. m : \A x \in Allowed(i) : x \in Roots
  OBVIOUS
<1>10. /\ \A i \in 0 .. m : In[i] = Allowed(i)
       /\ \A i \in 0 .. m - 1 : \A x \in Roots : step[i][x] = Pass(x, c[i + 1])
  OBVIOUS
<1>11. 0 \in 0 .. m /\ m \in 0 .. m
  BY <1>2
<1> HIDE DEF Allowed, In, step
<1>12. l \in In[0] /\ \A i \in 0 .. m - 1 : \A x \in In[i] : step[i][x] \in In[i + 1]
  BY <1>5, <1>6, <1>7, <1>9, <1>10, <1>11
<1>13. PICK f : IsRun(f, m, l, step, In)
  BY <1>2, <1>12, Iterated
<1>14. \A i \in 0 .. m : f[i] = Whole(f, i)
  <2> TAKE i \in 0 .. m
  <2>1. CASE i = 0
    BY <1>13, <2>1 DEF IsRun
  <2>2. CASE i # 0
    <3>1. i \in 1 .. m /\ i - 1 \in 0 .. m - 1 /\ i - 1 \in 0 .. m /\ (i - 1) + 1 = i
      BY <1>2, <2>2
    <3>2. f[i] = step[i - 1][f[i - 1]] /\ f[i - 1] \in Roots
      BY <1>9, <1>10, <1>13, <3>1 DEF IsRun
    <3>3. step[i - 1][f[i - 1]] = Pass(f[i - 1], c[i])
      BY <1>10, <3>1, <3>2
    <3> QED
      BY <2>2, <3>2, <3>3
  <2> QED
    BY <2>1, <2>2
<1>15. IsWhole(f)
  <2>1. f = [i \in 0 .. m |-> f[i]]
    BY <1>13 DEF IsRun
  <2> QED
    BY <1>3, <1>14, <2>1
<1>16. IsWhole(after)
  BY <1>15
<1>17. ReleaseOld(l, c, old) = after[Len(c)]
  BY DEF ReleaseOld
<1> HIDE DEF after
<1>18. \A i \in 0 .. m : after[i] = Whole(after, i)
  BY <1>3, <1>16
<1> DEFINE T == {i \in 0 .. m : after[i] \in Allowed(i)}
<1>19. 0 \in T
  BY <1>7, <1>11, <1>18
<1>20. ASSUME NEW i \in 0 .. m - 1, i \in T PROVE i + 1 \in T
  <2>1. i + 1 # 0 /\ i + 1 \in 0 .. m /\ (i + 1) - 1 = i
    BY <1>5
  <2>2. after[i + 1] = Pass(after[i], c[i + 1])
    BY <1>18, <2>1
  <2>3. after[i] \in Allowed(i)
    BY <1>20
  <2> HIDE DEF Pass
  <2> QED
    BY <1>6, <2>1, <2>2, <2>3
<1> HIDE DEF T
<1>21. \A i \in 0 .. m : i \in T
  BY <1>2, <1>19, <1>20, Counting
<1>22. after[m] \in Allowed(m)
  BY <1>11, <1>21 DEF T
<1> QED
  BY <1>3, <1>8, <1>17, <1>22

\* The chain of the buffers in use comes past all of them.
LEMMA UsedIs ==
    ASSUME NEW n, NEW used, NEW free, NEW U, NEW start, TwoLists(n, used, free, U, start)
    PROVE  /\ \E m : Enumerates(Chain(n, used), m, U, start)
           /\ {Chain(n, used)[i] : i \in DOMAIN Chain(n, used)} = U
<1>1. PICK pv : /\ n \in Links /\ U \in SUBSET Buffer
                /\ pv = n.prev /\ ListOf(n.next, pv, used, U, start)
  BY DEF TwoLists, Lists
<1>2. PICK m : Enumerates(Chain(n, used), m, U, start)
  BY <1>1, ChainIs
<1>3. PICK c : c = Chain(n, used)
  OBVIOUS
<1>4. c \in [1 .. m -> U] /\ \A d \in U : \E i \in 1 .. m : c[i] = d
  BY <1>2, <1>3 DEF Enumerates
<1>5. \A x : x \in {c[i] : i \in DOMAIN c} <=> x \in U
  BY <1>4
<1>6. {c[i] : i \in DOMAIN c} = U
  BY <1>5
<1> QED
  BY <1>2, <1>3, <1>6

-----------------------------------------------------------------------------
(* The search for the samples.                                             *)

Asked(addr, len) == addr \in Nat /\ len \in 1 .. Length - 1

\* before is the last buffer in use that begins before the samples.
LastBefore(before, addr, U) ==
    \/ before = NoBuffer /\ \A d \in U : addr < startAddr[d]
    \/ /\ before \in U /\ startAddr[before] <= addr
       /\ \A d \in U : startAddr[d] <= startAddr[before] \/ addr < startAddr[d]

\* The search ends at a buffer with the samples, or none has them.
LEMMA SearchEnds ==
    ASSUME NEW U, TwoLists(node, firstUsed, firstFree, U, startAddr),
           startAddr \in [Buffer -> Nat], NEW addr, NEW len, Asked(addr, len)
    PROVE  /\ Found(addr, len) # NoBuffer =>
                 Found(addr, len) \in U /\ Holds(Found(addr, len), addr, len)
           /\ Found(addr, len) = NoBuffer =>
                 /\ \A d \in U : ~Holds(d, addr, len)
                 /\ LastBefore(Before(addr, len), addr, U)
<1>1. PICK c, m : c = Chain(node, firstUsed) /\ Enumerates(c, m, U, startAddr)
  BY UsedIs
<1>2. /\ m \in 0 .. Buffers /\ c \in [1 .. m -> U]
      /\ \A i, j \in 1 .. m : i < j => startAddr[c[i]] < startAddr[c[j]]
      /\ \A d \in U : \E i \in 1 .. m : c[i] = d
  BY <1>1 DEF Enumerates
<1>3. m \in Nat /\ U \in SUBSET Buffer /\ addr \in Nat /\ len \in Nat
  BY <1>2, Buffered, AudioDmaAssumption DEF TwoLists, Lists, Asked
<1>4. DOMAIN c = 1 .. m /\ Len(c) = m
  <2>1. c \in Seq(U)
    BY <1>2, <1>3
  <2>2. DOMAIN c = 1 .. Len(c) /\ Len(c) \in Nat
    BY <2>1, LenProperties
  <2> QED
    BY <1>2, <1>3, <2>2
<1>5. PICK ends : ends = {i \in 1 .. m : startAddr[c[i]] > addr \/ Holds(c[i], addr, len)}
  OBVIOUS
<1>6. PICK s : s = Stop(addr, len)
  OBVIOUS
<1>7. s = IF ends = {} THEN m + 1 ELSE CHOOSE i \in ends : \A j \in ends : i <= j
  BY <1>1, <1>4, <1>5, <1>6 DEF Stop
<1>8. /\ s \in 1 .. m + 1
      /\ s \in 1 .. m => s \in ends
      /\ \A j \in 1 .. m : j < s => j \notin ends
  <2>1. CASE ends = {}
    BY <1>3, <1>7, <2>1
  <2>2. CASE ends # {}
    <3>1. ends \in SUBSET Nat
      BY <1>5
    <3>2. \E i \in ends : \A j \in ends : i <= j
      BY <2>2, <3>1, LeastElement
    <3>3. s \in ends /\ \A j \in ends : s <= j
      BY <1>7, <2>2, <3>2
    <3> QED
      BY <1>3, <1>5, <3>3
  <2> QED
    BY <2>1, <2>2
<1>9. \A b \in U : startAddr[b] \in Nat
  BY <1>3
<1>10. \A i \in 1 .. m : c[i] \in U /\ c[i] # NoBuffer
  BY <1>2, <1>3, Buffered
<1>11. Found(addr, len) = IF s \in 1 .. m /\ Holds(c[s], addr, len) THEN c[s] ELSE NoBuffer
  BY <1>1, <1>4, <1>6 DEF Found
<1>12. CASE s \in 1 .. m /\ Holds(c[s], addr, len)
  BY <1>10, <1>11, <1>12
<1>13. CASE ~(s \in 1 .. m /\ Holds(c[s], addr, len))
  <2>1. Found(addr, len) = NoBuffer
    BY <1>11, <1>13
  <2>2. \A j \in 1 .. m : j < s => startAddr[c[j]] <= addr /\ ~Holds(c[j], addr, len)
    <3> TAKE j \in 1 .. m
    <3>1. j < s => ~(startAddr[c[j]] > addr) /\ ~Holds(c[j], addr, len)
      BY <1>5, <1>8
    <3> QED
      BY <1>3, <1>9, <1>10, <3>1
  <2>3. \A j \in 1 .. m : ~(j < s) => addr < startAddr[c[j]]
    <3> SUFFICES ASSUME NEW j \in 1 .. m, ~(j < s) PROVE addr < startAddr[c[j]]
      OBVIOUS
    <3>1. s \in 1 .. m /\ addr < startAddr[c[s]]
      <4>1. s \in 1 .. m
        BY <1>3, <1>8
      <4>2. startAddr[c[s]] > addr
        BY <1>5, <1>8, <1>13, <4>1
      <4> QED
        BY <1>3, <1>9, <1>10, <4>1, <4>2
    <3>2. j = s \/ startAddr[c[s]] < startAddr[c[j]]
      BY <1>2, <1>3, <3>1
    <3> QED
      BY <1>3, <1>9, <1>10, <3>1, <3>2
  <2>4. \A d \in U : ~Holds(d, addr, len)
    <3> SUFFICES ASSUME NEW d \in U, Holds(d, addr, len) PROVE FALSE
      OBVIOUS
    <3>1. PICK j \in 1 .. m : c[j] = d
      BY <1>2
    <3>2. startAddr[d] <= addr
      BY DEF Holds
    <3>3. j < s
      BY <1>3, <1>9, <2>3, <3>1, <3>2
    <3> QED
      BY <2>2, <3>1, <3>3
  <2>5. PICK before : before = Before(addr, len)
    OBVIOUS
  <2>6. before = IF s = 1 THEN NoBuffer ELSE c[s - 1]
    BY <1>1, <1>6, <2>5 DEF Before
  <2>7. LastBefore(before, addr, U)
    <3>1. CASE s = 1
      <4>1. \A j \in 1 .. m : addr < startAddr[c[j]]
        BY <1>3, <2>3, <3>1
      <4> QED
        BY <1>2, <2>6, <3>1, <4>1 DEF LastBefore
    <3>2. CASE s # 1
      <4>1. s - 1 \in 1 .. m /\ s - 1 < s /\ before = c[s - 1]
        BY <1>3, <1>8, <2>6, <3>2
      <4>2. before \in U /\ startAddr[before] <= addr
        BY <1>10, <2>2, <4>1
      <4>3. \A j \in 1 .. m : j = s - 1 \/ j < s - 1 \/ ~(j < s)
        BY <1>3, <1>8
      <4>4. \A j \in 1 .. m : startAddr[c[j]] <= startAddr[before] \/ addr < startAddr[c[j]]
        BY <1>2, <1>9, <1>10, <2>3, <4>1, <4>3
      <4> QED
        BY <1>2, <4>2, <4>4 DEF LastBefore
    <3> QED
      BY <3>1, <3>2
  <2> QED
    BY <2>1, <2>4, <2>5, <2>7
<1> QED
  BY <1>12, <1>13

\* The even address samples are read from.
LEMMA EvenBelow ==
    /\ \A a \in Nat : /\ a % 2 \in {0, 1} /\ a - (a % 2) \in Nat
                      /\ (a - (a % 2)) % 2 = 0
    /\ \A a, e \in Nat : e % 2 = 0 /\ e <= a => e <= a - (a % 2)
OBVIOUS

-----------------------------------------------------------------------------
(* The inductive invariant.                                                *)

\* The buffers in use begin at even addresses, and there are at least as many
\* of them as reads in this frame.
DmaInv ==
    /\ DmaTypeOK
    /\ TwoLists(node, firstUsed, firstFree, Used, startAddr)
    /\ \A b \in Used : startAddr[b] % 2 = 0
    /\ nextDMA <= Cardinality(Used)

\* What the invariant needs, when it is known which buffers are in use.
LEMMA InvIs ==
    ASSUME NEW U, TwoLists(node, firstUsed, firstFree, U, startAddr)
    PROVE  /\ Used = U /\ U \in SUBSET Buffer /\ IsFiniteSet(U)
           /\ Cardinality(U) \in Nat /\ Cardinality(U) <= Buffers
           /\ (U # Buffer => Cardinality(U) < Buffers)
           /\ node \in Links
           /\ firstUsed \in U \cup {NoBuffer} /\ firstFree \in (Buffer \ U) \cup {NoBuffer}
           /\ (firstUsed = NoBuffer => U = {}) /\ (firstFree = NoBuffer => U = Buffer)
           /\ \A b, c \in U : startAddr[b] = startAddr[c] => b = c
<1>1. Used = U
  BY UsedIs DEF Used
<1>2. PICK F, rank : F = Buffer \ U /\ Lists(node, firstUsed, U, startAddr, firstFree, F, rank)
  BY DEF TwoLists
<1>3. /\ node \in Links /\ U \in SUBSET Buffer /\ F \in SUBSET Buffer
      /\ ListOf(node.next, node.prev, firstUsed, U, startAddr)
      /\ ListOf(node.next, node.prev, firstFree, F, rank)
  BY <1>2 DEF Lists
<1>4. firstUsed \in U \cup {NoBuffer} /\ (firstUsed = NoBuffer => U = {})
  BY <1>3, LinksWithin
<1>5. firstFree \in F \cup {NoBuffer} /\ (firstFree = NoBuffer => F = {})
  BY <1>3, LinksWithin
<1>6. IsFiniteSet(U) /\ Cardinality(U) <= Cardinality(Buffer)
      /\ (Cardinality(U) = Cardinality(Buffer) => U = Buffer)
  BY <1>3, ManyBuffers, FS_Subset
<1>7. Cardinality(U) \in Nat
  BY <1>6, FS_CardinalityType
<1>8. Cardinality(U) <= Buffers /\ (U # Buffer => Cardinality(U) < Buffers)
  BY <1>6, <1>7, ManyBuffers, Buffered
<1>9. \A b, c \in U : startAddr[b] = startAddr[c] => b = c
  BY <1>3 DEF ListOf
<1> QED
  BY <1>1, <1>2, <1>3, <1>4, <1>5, <1>6, <1>7, <1>8, <1>9

LEMMA InvMade ==
    ASSUME NEW U, TwoLists(node, firstUsed, firstFree, U, startAddr),
           startAddr \in [Buffer -> Nat], lastFrame \in [Buffer -> Nat], audFrameCt \in Nat,
           nextDMA \in Nat, nextDMA <= Cardinality(U), \A b \in U : startAddr[b] % 2 = 0,
           answer \in [buffer : Node, at : 0 .. Length, good : BOOLEAN]
    PROVE  DmaInv
<1>1. /\ Used = U /\ U \in SUBSET Buffer /\ Cardinality(U) \in Nat /\ Cardinality(U) <= Buffers
      /\ node \in Links
      /\ firstUsed \in U \cup {NoBuffer} /\ firstFree \in (Buffer \ U) \cup {NoBuffer}
  BY InvIs
<1>2. firstUsed \in Node /\ firstFree \in Node
  BY <1>1 DEF Node
<1>3. nextDMA \in 0 .. Buffers
  BY <1>1, Buffered
<1>4. DmaTypeOK
  BY <1>1, <1>2, <1>3 DEF DmaTypeOK, Node, Links
<1> QED
  BY <1>1, <1>4 DEF DmaInv

LEMMA DmaInitInv == DmaInit => DmaInv
<1> SUFFICES ASSUME DmaInit PROVE DmaInv
  OBVIOUS
<1>1. PICK rank : rank = [b \in Buffer |-> b]
  OBVIOUS
<1>2. rank \in Key /\ \A b \in Buffer : rank[b] = b /\ b \in Nat /\ b <= Buffers - 1
  BY <1>1, Buffered DEF Key, Buffer
<1>3. PICK nx, pv : nx = node.next /\ pv = node.prev
  OBVIOUS
<1>4. /\ nx = [b \in Buffer |-> IF b = Buffers - 1 THEN NoBuffer ELSE b + 1]
      /\ pv = [b \in Buffer |-> IF b = 0 THEN NoBuffer ELSE b - 1]
      /\ node = [next |-> nx, prev |-> pv]
  BY <1>3 DEF DmaInit
<1>5. 0 \in Buffer /\ (\A b \in Buffer : b # Buffers - 1 => b + 1 \in Buffer)
      /\ (\A b \in Buffer : b # 0 => b - 1 \in Buffer)
  BY Buffered DEF Buffer
<1>6. node \in Links
  BY <1>4, <1>5 DEF Links, Node
<1>7. ListOf(nx, pv, 0, Buffer, rank)
  <2>1. IsFirst(Buffer, rank, 0)
    BY <1>2, <1>5 DEF IsFirst
  <2>2. ASSUME NEW b \in Buffer PROVE IsNext(Buffer, rank, b, nx[b])
    <3>1. CASE b = Buffers - 1
      BY <1>2, <1>4, <2>2, <3>1 DEF IsNext
    <3>2. CASE b # Buffers - 1
      <4>1. nx[b] = b + 1 /\ b + 1 \in Buffer
        BY <1>4, <1>5, <3>2
      <4>2. rank[b] = b /\ rank[b + 1] = b + 1 /\ \A d \in Buffer : d <= b \/ b + 1 <= d
        BY <1>2, <4>1
      <4> QED
        BY <1>2, <4>1, <4>2 DEF IsNext
    <3> QED
      BY <3>1, <3>2
  <2>3. ASSUME NEW b \in Buffer PROVE IsPrev(Buffer, rank, b, pv[b])
    <3>1. CASE b = 0
      BY <1>2, <1>4, <2>3, <3>1 DEF IsPrev
    <3>2. CASE b # 0
      <4>1. pv[b] = b - 1 /\ b - 1 \in Buffer
        BY <1>4, <1>5, <3>2
      <4>2. rank[b] = b /\ rank[b - 1] = b - 1 /\ \A d \in Buffer : d <= b - 1 \/ b <= d
        BY <1>2, <4>1
      <4> QED
        BY <1>2, <4>1, <4>2 DEF IsPrev
    <3> QED
      BY <3>1, <3>2
  <2>4. \A b, c \in Buffer : rank[b] = rank[c] => b = c
    BY <1>2
  <2> QED
    BY <1>2, <2>1, <2>2, <2>3, <2>4 DEF ListOf
<1>8. startAddr \in Key /\ startAddr \in [Buffer -> Nat] /\ lastFrame \in [Buffer -> Nat]
  BY DEF DmaInit, Key
<1>9. ListOf(nx, pv, firstUsed, {}, startAddr)
  BY <1>8 DEF DmaInit, ListOf, IsFirst
<1>10. Lists(node, firstUsed, {}, startAddr, firstFree, Buffer, rank)
  BY <1>3, <1>6, <1>7, <1>9 DEF DmaInit, Lists
<1>11. TwoLists(node, firstUsed, firstFree, {}, startAddr)
  <2>1. Buffer \ {} = Buffer
    OBVIOUS
  <2> QED
    BY <1>10, <2>1 DEF TwoLists
<1>12. audFrameCt \in Nat /\ nextDMA = 0 /\ Cardinality({}) = 0
  BY FS_EmptySet DEF DmaInit
<1>13. answer \in [buffer : Node, at : 0 .. Length, good : BOOLEAN]
  BY AudioDmaAssumption DEF DmaInit, Answer, Node
<1> QED
  BY <1>8, <1>11, <1>12, <1>13, InvMade

\* The buffers in U are in use, and all else is as the invariant wants it.
InUse(U) ==
    /\ TwoLists(node, firstUsed, firstFree, U, startAddr)
    /\ startAddr \in [Buffer -> Nat] /\ lastFrame \in [Buffer -> Nat] /\ audFrameCt \in Nat
    /\ nextDMA \in Nat /\ nextDMA <= Cardinality(U)
    /\ \A b \in U : startAddr[b] % 2 = 0
    /\ answer \in [buffer : Node, at : 0 .. Length, good : BOOLEAN]

LEMMA InUseInv == \A U \in SUBSET Buffer : InUse(U) => DmaInv /\ Used = U
BY InvMade, InvIs DEF InUse

LEMMA InUseInvNext == \A U \in SUBSET Buffer : (InUse(U) => DmaInv /\ Used = U)'
<1>1. (\A U \in SUBSET Buffer : InUse(U) => DmaInv /\ Used = U)'
  BY InUseInv, PTL
<1> QED
  BY <1>1

\* What the invariant says of the buffers.
LEMMA InvSays ==
    ASSUME DmaInv
    PROVE  \E U \in SUBSET Buffer :
              /\ U = Used /\ InUse(U)
              /\ IsFiniteSet(U) /\ Cardinality(U) \in Nat
              /\ (U # Buffer => Cardinality(U) < Buffers)
              /\ (U = Buffer => Cardinality(U) = Buffers)
              /\ node \in Links
              /\ firstUsed \in U \cup {NoBuffer} /\ firstFree \in (Buffer \ U) \cup {NoBuffer}
              /\ (firstUsed = NoBuffer => U = {}) /\ (firstFree = NoBuffer => U = Buffer)
              /\ \A b, c \in U : startAddr[b] = startAddr[c] => b = c
<1>1. PICK U : U = Used
  OBVIOUS
<1>2. TwoLists(node, firstUsed, firstFree, U, startAddr)
  BY <1>1 DEF DmaInv
<1>3. nextDMA \in Nat
  BY Buffered DEF DmaInv, DmaTypeOK
<1>4. InUse(U)
  BY <1>1, <1>3 DEF DmaInv, DmaTypeOK, InUse, Node
<1> QED
  BY <1>1, <1>2, <1>4, InvIs, ManyBuffers

-----------------------------------------------------------------------------
(* The cache the lists make.                                               *)

CachedIsThat ==
    /\ Cached = [s \in DOMAIN Cached |-> Cached[s]]
    /\ \A s : s \in DOMAIN Cached <=> \E b \in Used : s = startAddr[b]
    /\ \A b \in Used : Cached[startAddr[b]] = audFrameCt - lastFrame[b]
    /\ IsFiniteSet(DOMAIN Cached) /\ Cardinality(DOMAIN Cached) = Cardinality(Used)

LEMMA CachedIs == DmaInv => CachedIsThat
<1> SUFFICES ASSUME DmaInv PROVE CachedIsThat
  OBVIOUS
<1>1. PICK U : /\ U = Used /\ IsFiniteSet(U)
               /\ \A b, c \in U : startAddr[b] = startAddr[c] => b = c
  BY InvSays
<1>2. PICK starts : starts = {startAddr[b] : b \in U}
  OBVIOUS
<1>3. Cached = [s \in starts |-> audFrameCt - lastFrame[At(s)]]
  BY <1>1, <1>2 DEF Cached
<1>4. ASSUME NEW b \in U PROVE At(startAddr[b]) = b /\ startAddr[b] \in starts
  BY <1>1, <1>2 DEF At
<1>5. DOMAIN Cached = starts /\ \A b \in U : Cached[startAddr[b]] = audFrameCt - lastFrame[b]
  BY <1>3, <1>4
<1>6. PICK f : f = [b \in U |-> startAddr[b]]
  OBVIOUS
<1>7. f \in Surjection(U, starts) /\ f \in Injection(U, starts)
  <2>1. f \in [U -> starts]
    BY <1>4, <1>6
  <2>2. \A s \in starts : \E b \in U : f[b] = s
    BY <1>2, <1>6
  <2>3. \A b, c \in U : f[b] = f[c] => b = c
    BY <1>1, <1>6
  <2> QED
    BY <2>1, <2>2, <2>3 DEF Surjection, Injection, IsInjective
<1>8. IsFiniteSet(starts) /\ Cardinality(starts) = Cardinality(U)
  BY <1>1, <1>7, FS_Surjection
<1>9. \A s : s \in starts <=> \E b \in U : s = startAddr[b]
  BY <1>2
<1>10. Cached = [s \in DOMAIN Cached |-> Cached[s]]
  BY <1>3
<1> QED
  BY <1>1, <1>5, <1>8, <1>9, <1>10 DEF CachedIsThat

LEMMA CachedIsNext == (DmaInv => CachedIsThat)'
BY CachedIs, PTL

-----------------------------------------------------------------------------
(* The steps.                                                              *)

LEMMA HitStep ==
    ASSUME DmaInv, NEW addr, NEW len, Asked(addr, len), Hit(addr, len)
    PROVE  DmaInv' /\ Cache!Hit(addr, len)
<1>1. PICK U \in SUBSET Buffer :
          /\ U = Used /\ InUse(U)
          /\ \A b, c \in U : startAddr[b] = startAddr[c] => b = c
  BY InvSays
<1>2. PICK b : b = Found(addr, len)
  OBVIOUS
<1>3. /\ b # NoBuffer
      /\ lastFrame' = [lastFrame EXCEPT ![b] = audFrameCt]
      /\ answer' = Answer(b, addr - startAddr[b], TRUE)
      /\ node' = node /\ firstUsed' = firstUsed /\ firstFree' = firstFree
      /\ startAddr' = startAddr /\ audFrameCt' = audFrameCt /\ nextDMA' = nextDMA
  BY <1>2 DEF Hit, lists
<1>4. /\ TwoLists(node, firstUsed, firstFree, U, startAddr) /\ startAddr \in [Buffer -> Nat]
      /\ lastFrame \in [Buffer -> Nat] /\ audFrameCt \in Nat
  BY <1>1 DEF InUse
<1>5. b \in U /\ Holds(b, addr, len)
  BY <1>2, <1>3, <1>4, SearchEnds
<1>6. /\ addr \in Nat /\ len \in Nat /\ startAddr[b] \in Nat /\ Length \in Nat
      /\ startAddr[b] <= addr /\ addr + len <= startAddr[b] + Length
  BY <1>1, <1>4, <1>5, AudioDmaAssumption DEF Asked, Holds
<1>7. addr - startAddr[b] \in 0 .. Length
  BY <1>6
<1>8. answer' \in [buffer : Node, at : 0 .. Length, good : BOOLEAN]
  BY <1>1, <1>3, <1>5, <1>7 DEF Answer, Node
<1>9. lastFrame' \in [Buffer -> Nat] /\ lastFrame'[b] = audFrameCt
      /\ \A d \in U : d # b => lastFrame'[d] = lastFrame[d]
  BY <1>1, <1>3, <1>4, <1>5
<1>10. InUse(U)'
  BY <1>1, <1>3, <1>8, <1>9 DEF InUse
<1>11. DmaInv' /\ Used' = U
  BY <1>10, InUseInvNext
<1>12. PICK c, d : c = Cached /\ d = Cached'
  OBVIOUS
<1>13. /\ c = [s \in DOMAIN c |-> c[s]]
       /\ \A s : s \in DOMAIN c <=> \E e \in U : s = startAddr[e]
       /\ \A e \in U : c[startAddr[e]] = audFrameCt - lastFrame[e]
  BY <1>1, <1>12, CachedIs DEF CachedIsThat
<1>14. /\ d = [s \in DOMAIN d |-> d[s]]
       /\ \A s : s \in DOMAIN d <=> \E e \in U : s = startAddr[e]
       /\ \A e \in U : d[startAddr[e]] = audFrameCt - lastFrame'[e]
  BY <1>3, <1>11, <1>12, CachedIsNext DEF CachedIsThat
<1>15. PICK s : s = startAddr[b]
  OBVIOUS
<1>16. DOMAIN d = DOMAIN c /\ s \in DOMAIN c
  BY <1>5, <1>13, <1>14, <1>15
<1>17. ASSUME NEW t \in DOMAIN c PROVE d[t] = IF t = s THEN 0 ELSE c[t]
  <2>1. PICK e \in U : t = startAddr[e]
    BY <1>13
  <2>2. t = s <=> e = b
    BY <1>1, <1>5, <1>15, <2>1
  <2>3. audFrameCt - audFrameCt = 0
    BY <1>4
  <2> QED
    BY <1>9, <1>13, <1>14, <2>1, <2>2, <2>3
<1>18. d = [c EXCEPT ![s] = 0]
  BY <1>13, <1>14, <1>16, <1>17
<1>19. s \in Cache!Holding(addr, len)
  BY <1>6, <1>12, <1>15, <1>16 DEF Cache!Holding
<1>20. Given' = addr
  <2>1. answer'.good = TRUE /\ answer'.buffer = b /\ answer'.at = addr - startAddr[b]
    BY <1>3 DEF Answer
  <2>2. startAddr[b] + (addr - startAddr[b]) = addr
    BY <1>6
  <2> QED
    BY <1>3, <2>1, <2>2 DEF Given
<1>21. Cache!Hit(addr, len)
  BY <1>12, <1>18, <1>19, <1>20 DEF Cache!Hit
<1> QED
  BY <1>11, <1>21

\* SampleCache counts as this module does.
LEMMA SameCardinality == \A S : Cache!Cardinality(S) = Cardinality(S)
BY DEF Cache!Cardinality, Cardinality

\* A buffer that is fetched goes where its address belongs.
LEMMA FetchedInOrder ==
    ASSUME NEW U \in SUBSET Buffer, InUse(U), NEW addr, NEW len, Asked(addr, len),
           NEW before, LastBefore(before, addr, U), \A d \in U : ~Holds(d, addr, len),
           NEW start, start = addr - (addr % 2)
    PROVE  /\ start \in Nat /\ start % 2 = 0 /\ addr % 2 \in {0, 1}
           /\ start + (addr % 2) = addr
           /\ before \in U \cup {NoBuffer}
           /\ \A d \in U : startAddr[d] # start
           /\ before = NoBuffer => \A d \in U : start < startAddr[d]
           /\ before # NoBuffer =>
                 /\ startAddr[before] < start
                 /\ \A d \in U : startAddr[d] <= startAddr[before] \/ start < startAddr[d]
<1>1. /\ addr \in Nat /\ len \in Nat /\ Length \in Nat /\ len <= Length - 1
  BY AudioDmaAssumption DEF Asked
<1>2. PICK r \in {0, 1} : r = addr % 2
  BY <1>1, EvenBelow
<1>3. start \in Nat /\ start % 2 = 0 /\ start = addr - r /\ start <= addr
  BY <1>1, <1>2, EvenBelow
<1>4. \A d \in U : startAddr[d] \in Nat /\ startAddr[d] % 2 = 0
  BY DEF InUse
<1>5. \A d \in U : startAddr[d] # start
  <2> SUFFICES ASSUME NEW d \in U, startAddr[d] = start PROVE FALSE
    OBVIOUS
  <2>1. start <= addr /\ addr + len <= start + Length
    BY <1>1, <1>2, <1>3
  <2>2. Holds(d, addr, len)
    BY <2>1 DEF Holds
  <2> QED
    BY <2>2
<1>6. \A d \in U : addr < startAddr[d] => start < startAddr[d]
  BY <1>1, <1>3, <1>4
<1>7. CASE before = NoBuffer
  <2>1. \A d \in U : addr < startAddr[d]
    BY <1>7, Buffered DEF LastBefore
  <2> QED
    BY <1>2, <1>3, <1>1, <1>5, <1>6, <1>7, <2>1
<1>8. CASE before # NoBuffer
  <2>1. /\ before \in U /\ startAddr[before] <= addr
        /\ \A d \in U : startAddr[d] <= startAddr[before] \/ addr < startAddr[d]
    BY <1>8 DEF LastBefore
  <2>2. PICK e \in Nat : e = startAddr[before] /\ e % 2 = 0 /\ e <= addr /\ e # start
    BY <1>4, <1>5, <2>1
  <2>3. e <= start
    BY <1>1, <2>2, EvenBelow
  <2>4. startAddr[before] < start
    BY <1>3, <2>2, <2>3
  <2> QED
    BY <1>2, <1>3, <1>1, <1>5, <1>6, <1>8, <2>1, <2>4
<1> QED
  BY <1>7, <1>8

LEMMA MissStep ==
    ASSUME DmaInv, NEW addr, NEW len, Asked(addr, len), Miss(addr, len)
    PROVE  DmaInv' /\ Cache!Fetch(addr, len)
<1>1. PICK U \in SUBSET Buffer :
          /\ U = Used /\ InUse(U) /\ IsFiniteSet(U) /\ Cardinality(U) \in Nat
          /\ (U # Buffer => Cardinality(U) < Buffers)
          /\ \A b, c \in U : startAddr[b] = startAddr[c] => b = c
  BY InvSays
<1>2. PICK b, before, start :
          b = firstFree /\ before = Before(addr, len) /\ start = addr - (addr % 2)
  OBVIOUS
<1>3. /\ Found(addr, len) = NoBuffer /\ b # NoBuffer
      /\ firstFree' = FreeAfter(b)
      /\ node' = LinkUsed(Unlink(node, b), b, before)
      /\ firstUsed' = IF before = NoBuffer THEN b ELSE firstUsed
      /\ startAddr' = [startAddr EXCEPT ![b] = start]
      /\ lastFrame' = [lastFrame EXCEPT ![b] = audFrameCt]
      /\ nextDMA' = nextDMA + 1
      /\ answer' = Answer(b, addr % 2, TRUE)
      /\ audFrameCt' = audFrameCt
  BY <1>2 DEF Miss
<1>4. /\ TwoLists(node, firstUsed, firstFree, U, startAddr) /\ startAddr \in [Buffer -> Nat]
      /\ lastFrame \in [Buffer -> Nat] /\ audFrameCt \in Nat
      /\ nextDMA \in Nat /\ nextDMA <= Cardinality(U)
      /\ \A d \in U : startAddr[d] % 2 = 0
  BY <1>1 DEF InUse
<1>5. (\A d \in U : ~Holds(d, addr, len)) /\ LastBefore(before, addr, U)
  BY <1>2, <1>3, <1>4, SearchEnds
<1>6. /\ start \in Nat /\ start % 2 = 0 /\ addr % 2 \in {0, 1}
      /\ start + (addr % 2) = addr
      /\ before \in U \cup {NoBuffer}
      /\ \A d \in U : startAddr[d] # start
      /\ before = NoBuffer => \A d \in U : start < startAddr[d]
      /\ before # NoBuffer =>
            /\ startAddr[before] < start
            /\ \A d \in U : startAddr[d] <= startAddr[before] \/ start < startAddr[d]
  BY <1>1, <1>2, <1>5, FetchedInOrder
<1>7. b \in Buffer /\ b \notin U
  <2>1. firstFree \in (Buffer \ U) \cup {NoBuffer}
    BY <1>4, InvIs
  <2> QED
    BY <1>2, <1>3, <2>1
<1>8. PICK s2 : s2 = startAddr'
  OBVIOUS
<1>9. /\ s2 \in [Buffer -> Nat] /\ s2[b] = start /\ \A d \in U : s2[d] = startAddr[d]
  BY <1>1, <1>3, <1>4, <1>6, <1>7, <1>8
<1>10. s2 \in Key
  BY <1>9 DEF Key
<1>11. PICK W : W = U \cup {b}
  OBVIOUS
<1>12. TwoLists(node', firstUsed', firstFree', W, s2)
  <2>1. before = NoBuffer => \A d \in U : s2[firstFree] < s2[d]
    BY <1>2, <1>6, <1>9
  <2>2. before # NoBuffer => /\ s2[before] < s2[firstFree]
                             /\ \A d \in U : s2[d] <= s2[before] \/ s2[firstFree] < s2[d]
    BY <1>2, <1>6, <1>9
  <2>3. TwoLists(LinkUsed(Unlink(node, firstFree), firstFree, before),
                 IF before = NoBuffer THEN firstFree ELSE firstUsed,
                 FreeAfter(firstFree), U \cup {firstFree}, s2)
    <3>1. firstFree # NoBuffer /\ TwoLists(node, firstUsed, firstFree, U, startAddr)
      BY <1>2, <1>3, <1>4
    <3>2. before \in U \cup {NoBuffer} /\ s2 \in Key /\ \A d \in U : s2[d] = startAddr[d]
      BY <1>6, <1>9, <1>10
    <3> QED
      BY <2>1, <2>2, <3>1, <3>2, Fetched
  <2> QED
    BY <1>2, <1>3, <1>11, <2>3
<1>13. W \in SUBSET Buffer /\ IsFiniteSet(W) /\ Cardinality(W) = Cardinality(U) + 1
  <2>1. IsFiniteSet(U \cup {b}) /\ Cardinality(U \cup {b}) = Cardinality(U) + 1
    BY <1>1, <1>7, FS_AddElement
  <2> QED
    BY <1>1, <1>7, <1>11, <2>1
<1>14. nextDMA' \in Nat /\ nextDMA' <= Cardinality(W)
  BY <1>1, <1>3, <1>4, <1>13
<1>15. lastFrame' \in [Buffer -> Nat] /\ lastFrame'[b] = audFrameCt
       /\ \A d \in U : lastFrame'[d] = lastFrame[d]
  BY <1>1, <1>3, <1>4, <1>7
<1>16. \A d \in W : s2[d] % 2 = 0
  BY <1>4, <1>6, <1>9, <1>11
<1>17. answer' \in [buffer : Node, at : 0 .. Length, good : BOOLEAN]
  <2>1. Length \in Nat /\ Length > 1
    BY AudioDmaAssumption DEF Asked
  <2>2. addr % 2 \in 0 .. Length
    BY <1>6, <2>1
  <2> QED
    BY <1>3, <1>7, <2>2 DEF Answer, Node
<1>18. InUse(W)'
  BY <1>3, <1>4, <1>8, <1>9, <1>12, <1>14, <1>15, <1>16, <1>17 DEF InUse
<1>19. DmaInv' /\ Used' = W
  BY <1>13, <1>18, InUseInvNext
<1>20. PICK c, d : c = Cached /\ d = Cached'
  OBVIOUS
<1>21. /\ c = [s \in DOMAIN c |-> c[s]]
       /\ \A s : s \in DOMAIN c <=> \E e \in U : s = startAddr[e]
       /\ \A e \in U : c[startAddr[e]] = audFrameCt - lastFrame[e]
       /\ Cardinality(DOMAIN c) = Cardinality(U)
  BY <1>1, <1>20, CachedIs DEF CachedIsThat
<1>22. /\ d = [s \in DOMAIN d |-> d[s]]
       /\ \A s : s \in DOMAIN d <=> \E e \in W : s = s2[e]
       /\ \A e \in W : d[s2[e]] = audFrameCt - lastFrame'[e]
  BY <1>3, <1>8, <1>19, <1>20, CachedIsNext DEF CachedIsThat
<1>23. DOMAIN d = DOMAIN c \cup {start}
  <2>1. \A s : s \in DOMAIN d <=> s \in DOMAIN c \/ s = start
    BY <1>9, <1>11, <1>21, <1>22
  <2> QED
    BY <2>1
<1>24. d[start] = 0
  <2>1. d[s2[b]] = audFrameCt - audFrameCt
    BY <1>11, <1>15, <1>22
  <2> QED
    BY <1>4, <1>9, <2>1
<1>25. ASSUME NEW t \in DOMAIN c PROVE d[t] = c[t] /\ t # start
  <2>1. PICK e \in U : t = startAddr[e]
    BY <1>21
  <2>2. e \in W /\ s2[e] = t /\ lastFrame'[e] = lastFrame[e]
    BY <1>9, <1>11, <1>15, <2>1
  <2>3. d[t] = audFrameCt - lastFrame'[e]
    BY <1>22, <2>2
  <2> QED
    BY <1>6, <1>21, <2>1, <2>2, <2>3
<1>26. d = [s \in DOMAIN c \cup {start} |-> IF s = start THEN 0 ELSE c[s]]
  <2>1. \A s \in DOMAIN c \cup {start} : d[s] = IF s = start THEN 0 ELSE c[s]
    BY <1>24, <1>25
  <2> QED
    BY <1>22, <1>23, <2>1
<1>27. Cache!Holding(addr, len) = {}
  <2>1. \A s \in DOMAIN c : ~(s <= addr /\ addr + len <= s + Length)
    BY <1>5, <1>21 DEF Holds
  <2> QED
    BY <1>20, <2>1 DEF Cache!Holding
<1>28. Cardinality(DOMAIN c) < Buffers
  BY <1>1, <1>7, <1>21
<1>29. Given' = addr
  <2>1. answer'.good = TRUE /\ answer'.buffer = b /\ answer'.at = addr % 2
    BY <1>3 DEF Answer
  <2>2. s2[b] + (addr % 2) = addr
    BY <1>6, <1>9
  <2> QED
    BY <1>8, <2>1, <2>2 DEF Given
<1>30. Cache!Fetch(addr, len)
  <2>1. Cached' = [s \in DOMAIN Cached \cup {addr - (addr % 2)} |->
                     IF s = addr - (addr % 2) THEN 0 ELSE Cached[s]]
    BY <1>2, <1>20, <1>26
  <2>2. Cache!Cardinality(DOMAIN Cached) < Buffers
    BY <1>20, <1>28, SameCardinality
  <2> QED
    BY <1>27, <1>29, <2>1, <2>2, Zenon DEF Cache!Fetch
<1> QED
  BY <1>19, <1>30

LEMMA BogusStep ==
    ASSUME DmaInv, NEW addr, NEW len, Asked(addr, len), Bogus(addr, len)
    PROVE  DmaInv' /\ Cache!Refuse(addr, len)
<1>1. PICK U \in SUBSET Buffer :
          /\ U = Used /\ InUse(U)
          /\ (U = Buffer => Cardinality(U) = Buffers)
          /\ firstUsed \in U \cup {NoBuffer}
          /\ (firstFree = NoBuffer => U = Buffer)
  BY InvSays
<1>2. PICK before : before = Before(addr, len)
  OBVIOUS
<1>3. /\ Found(addr, len) = NoBuffer /\ firstFree = NoBuffer
      /\ answer' = Answer(IF before = NoBuffer THEN firstUsed ELSE before, addr % 2, FALSE)
      /\ node' = node /\ firstUsed' = firstUsed /\ firstFree' = firstFree
      /\ startAddr' = startAddr /\ lastFrame' = lastFrame
      /\ audFrameCt' = audFrameCt /\ nextDMA' = nextDMA
  BY <1>2 DEF Bogus, lists
<1>4. TwoLists(node, firstUsed, firstFree, U, startAddr) /\ startAddr \in [Buffer -> Nat]
  BY <1>1 DEF InUse
<1>5. (\A d \in U : ~Holds(d, addr, len)) /\ LastBefore(before, addr, U)
  BY <1>2, <1>3, <1>4, SearchEnds
<1>6. before \in Node /\ firstUsed \in Node
  BY <1>1, <1>5 DEF LastBefore, Node
<1>7. addr % 2 \in 0 .. Length
  <2>1. Length \in Nat /\ Length > 1 /\ addr \in Nat
    BY AudioDmaAssumption DEF Asked
  <2>2. addr % 2 \in {0, 1}
    BY <2>1, EvenBelow
  <2> QED
    BY <2>1, <2>2
<1>8. answer' \in [buffer : Node, at : 0 .. Length, good : BOOLEAN] /\ answer'.good = FALSE
  BY <1>3, <1>6, <1>7 DEF Answer
<1>9. InUse(U)'
  BY <1>1, <1>3, <1>8 DEF InUse
<1>10. DmaInv' /\ Used' = U
  BY <1>9, InUseInvNext
<1>11. Cached' = Cached
  <2>1. \A s : At(s)' = At(s)
    BY <1>1, <1>3, <1>10 DEF At
  <2> QED
    BY <1>1, <1>3, <1>10, <2>1 DEF Cached
<1>12. \A s \in DOMAIN Cached : ~(s <= addr /\ addr + len <= s + Length)
  <2>1. \A s \in DOMAIN Cached : \E e \in U : s = startAddr[e]
    BY <1>1, CachedIs DEF CachedIsThat
  <2> QED
    BY <1>5, <2>1 DEF Holds
<1>13. Cache!Holding(addr, len) = {}
  BY <1>12 DEF Cache!Holding
<1>14. Cache!Cardinality(DOMAIN Cached) = Buffers
  BY <1>1, <1>3, CachedIs, SameCardinality DEF CachedIsThat
<1>15. Given' = NoBuffer
  BY <1>8 DEF Given
<1>16. Cache!Refuse(addr, len)
  BY <1>11, <1>13, <1>14, <1>15 DEF Cache!Refuse
<1> QED
  BY <1>10, <1>16

LEMMA ClearStep ==
    ASSUME DmaInv, Clear
    PROVE  DmaInv' /\ Cache!NewFrame
<1>1. PICK U \in SUBSET Buffer :
          /\ U = Used /\ InUse(U) /\ IsFiniteSet(U)
          /\ node \in Links
          /\ firstUsed \in U \cup {NoBuffer} /\ firstFree \in (Buffer \ U) \cup {NoBuffer}
          /\ \A b, c \in U : startAddr[b] = startAddr[c] => b = c
  BY InvSays
<1>2. PICK l, old, c :
          /\ l = [node |-> node, used |-> firstUsed, free |-> firstFree]
          /\ old = {b \in Buffer : lastFrame[b] + Lag < audFrameCt}
          /\ c = Chain(node, firstUsed)
  OBVIOUS
<1>3. PICK new : new = ReleaseOld(l, c, old)
  OBVIOUS
<1>4. /\ node' = new.node /\ firstUsed' = new.used /\ firstFree' = new.free
      /\ nextDMA' = 0 /\ audFrameCt' = audFrameCt + 1
      /\ answer' = Answer(NoBuffer, 0, FALSE)
      /\ startAddr' = startAddr /\ lastFrame' = lastFrame
  BY <1>2, <1>3 DEF Clear
<1>5. /\ TwoLists(node, firstUsed, firstFree, U, startAddr) /\ startAddr \in [Buffer -> Nat]
      /\ lastFrame \in [Buffer -> Nat] /\ audFrameCt \in Nat
      /\ \A d \in U : startAddr[d] % 2 = 0
  BY <1>1 DEF InUse
<1>6. l \in Roots /\ Kept(l, U, startAddr)
  BY <1>1, <1>2, <1>5 DEF Roots, Kept, Node
<1>7. PICK m : Enumerates(c, m, U, startAddr)
  BY <1>2, <1>5, UsedIs
<1>8. PICK W : W = U \ old
  OBVIOUS
<1>9. Kept(new, W, startAddr)
  BY <1>3, <1>6, <1>7, <1>8, ReleaseOldIs
<1>10. TwoLists(node', firstUsed', firstFree', W, startAddr')
  BY <1>4, <1>9 DEF Kept
<1>11. W \in SUBSET Buffer /\ Cardinality(W) \in Nat /\ \A d \in W : d \in U
  <2>1. W \in SUBSET U
    BY <1>8
  <2>2. IsFiniteSet(W)
    BY <1>1, <2>1, FS_Subset
  <2> QED
    BY <1>1, <2>1, <2>2, FS_CardinalityType
<1>12. nextDMA' \in Nat /\ nextDMA' <= Cardinality(W) /\ audFrameCt' \in Nat
  BY <1>4, <1>5, <1>11
<1>13. answer' \in [buffer : Node, at : 0 .. Length, good : BOOLEAN] /\ answer'.good = FALSE
  BY <1>4, AudioDmaAssumption DEF Answer, Node
<1>14. InUse(W)'
  BY <1>4, <1>5, <1>10, <1>11, <1>12, <1>13 DEF InUse
<1>15. DmaInv' /\ Used' = W
  BY <1>11, <1>14, InUseInvNext
<1>16. PICK k, d : k = Cached /\ d = Cached'
  OBVIOUS
<1>17. /\ \A s : s \in DOMAIN k <=> \E e \in U : s = startAddr[e]
       /\ \A e \in U : k[startAddr[e]] = audFrameCt - lastFrame[e]
  BY <1>1, <1>16, CachedIs DEF CachedIsThat
<1>18. /\ d = [s \in DOMAIN d |-> d[s]]
       /\ \A s : s \in DOMAIN d <=> \E e \in W : s = startAddr[e]
       /\ \A e \in W : d[startAddr[e]] = (audFrameCt + 1) - lastFrame[e]
  BY <1>4, <1>15, <1>16, CachedIsNext DEF CachedIsThat
<1>19. \A e \in U : e \in W <=> k[startAddr[e]] <= Lag
  <2> TAKE e \in U
  <2>1. e \in W <=> ~(lastFrame[e] + Lag < audFrameCt)
    BY <1>1, <1>2, <1>8
  <2>2. lastFrame[e] \in Nat /\ Lag \in Nat
    BY <1>1, <1>5, AudioDmaAssumption
  <2>3. k[startAddr[e]] = audFrameCt - lastFrame[e]
    BY <1>17
  <2> QED
    BY <1>5, <2>1, <2>2, <2>3
<1>20. PICK D : D = {t \in DOMAIN k : k[t] <= Lag}
  OBVIOUS
<1>21. DOMAIN d = D
  <2>1. \A s : s \in D <=> \E e \in W : s = startAddr[e]
    BY <1>11, <1>17, <1>19, <1>20
  <2>2. \A s : s \in DOMAIN d <=> s \in D
    BY <1>18, <2>1
  <2> QED
    BY <2>2
<1>22. ASSUME NEW t \in D PROVE d[t] = k[t] + 1
  <2>1. PICK e \in W : t = startAddr[e]
    BY <1>18, <1>21
  <2>2. lastFrame[e] \in Nat /\ audFrameCt \in Nat
    BY <1>5, <1>11
  <2> QED
    BY <1>11, <1>17, <1>18, <2>1, <2>2
<1>23. d = [s \in D |-> k[s] + 1]
  BY <1>18, <1>21, <1>22
<1>24. Given' = NoBuffer
  BY <1>13 DEF Given
<1>25. Cache!NewFrame
  <2>1. Cached' = [s \in {t \in DOMAIN Cached : Cached[t] <= Lag} |-> Cached[s] + 1]
    BY <1>16, <1>20, <1>23
  <2> QED
    BY <1>24, <2>1, Zenon DEF Cache!NewFrame
<1> QED
  BY <1>15, <1>25

\* A step that changes nothing.
LEMMA DmaStutter ==
    ASSUME DmaInv, UNCHANGED dmaVars
    PROVE  DmaInv' /\ UNCHANGED Cache!vars
<1>1. /\ node' = node /\ firstUsed' = firstUsed /\ firstFree' = firstFree
      /\ startAddr' = startAddr /\ lastFrame' = lastFrame
      /\ audFrameCt' = audFrameCt /\ nextDMA' = nextDMA /\ answer' = answer
  BY DEF dmaVars, lists
<1>2. Used' = Used
  BY <1>1 DEF Used
<1>3. DmaInv'
  BY <1>1, <1>2 DEF DmaInv, DmaTypeOK
<1>4. \A s : At(s)' = At(s)
  BY <1>1, <1>2 DEF At
<1>5. Cached' = Cached
  BY <1>1, <1>2, <1>4 DEF Cached
<1>6. Given' = Given
  BY <1>1 DEF Given
<1> QED
  BY <1>3, <1>5, <1>6 DEF Cache!vars

LEMMA DmaStep ==
    ASSUME DmaInv, [DmaNext]_dmaVars
    PROVE  DmaInv' /\ [Cache!Next]_(Cache!vars)
<1>1. CASE UNCHANGED dmaVars
  BY <1>1, DmaStutter
<1>2. CASE Clear
  BY <1>2, ClearStep DEF Cache!Next
<1>3. CASE \E r \in Requests : Hit(r[1], r[2]) \/ Miss(r[1], r[2]) \/ Bogus(r[1], r[2])
  <2>1. PICK r \in Requests : Hit(r[1], r[2]) \/ Miss(r[1], r[2]) \/ Bogus(r[1], r[2])
    BY <1>3
  <2>2. PICK addr, len : addr = r[1] /\ len = r[2]
    OBVIOUS
  <2>3. Asked(addr, len)
    BY <2>2, AudioDmaAssumption DEF Asked
  <2>4. Hit(addr, len) \/ Miss(addr, len) \/ Bogus(addr, len)
    BY <2>1, <2>2
  <2>5. DmaInv' /\ (Cache!Hit(addr, len) \/ Cache!Fetch(addr, len) \/ Cache!Refuse(addr, len))
    BY <2>3, <2>4, HitStep, MissStep, BogusStep
  <2>6. Cache!Next
    BY <2>2, <2>5, Zenon DEF Cache!Next
  <2> QED
    BY <2>5, <2>6
<1> QED
  BY <1>1, <1>2, <1>3 DEF DmaNext

LEMMA DmaInitCache == DmaInit => Cache!Init
<1> SUFFICES ASSUME DmaInit PROVE Cache!Init
  OBVIOUS
<1>1. DmaInv
  BY DmaInitInv
<1>2. PICK U : U = Used /\ firstUsed \in U \cup {NoBuffer} /\ InUse(U)
  BY <1>1, InvSays
<1>3. U = {}
  <2>1. TwoLists(node, firstUsed, firstFree, U, startAddr) /\ firstUsed = NoBuffer
    BY <1>2 DEF InUse, DmaInit
  <2> QED
    BY <2>1, InvIs
<1>4. PICK c : c = Cached
  OBVIOUS
<1>5. c = [s \in DOMAIN c |-> c[s]] /\ \A s : s \in DOMAIN c <=> \E b \in U : s = startAddr[b]
  BY <1>1, <1>2, <1>4, CachedIs DEF CachedIsThat
<1>6. DOMAIN c = {}
  BY <1>3, <1>5
<1>7. c = [s \in {} |-> 0]
  BY <1>5, <1>6
<1>8. Given = NoBuffer
  BY DEF DmaInit, Given, Answer
<1> QED
  BY <1>4, <1>7, <1>8 DEF Cache!Init

LEMMA DmaInvariant == DmaSpec => []DmaInv
<1>1. DmaInv /\ [DmaNext]_dmaVars => DmaInv'
  BY DmaStep
<1> QED
  BY <1>1, DmaInitInv, PTL DEF DmaSpec

\* The links always name buffers, and a frame never reads more often than there
\* are messages for reads.
THEOREM DmaTypes == DmaSpec => []DmaTypeOK
<1>1. DmaInv => DmaTypeOK
  BY DEF DmaInv
<1> QED
  BY <1>1, DmaInvariant, PTL

\* The two lists are the cache the synthesiser relies on: what is there is
\* found, nothing is lost, and every pointer points at the samples asked for
\* unless all buffers are in use.
THEOREM ListsAreCache == DmaSpec => CacheSpec
<1>1. DmaInv /\ [DmaNext]_dmaVars => [Cache!Next]_(Cache!vars)
  BY DmaStep
<1> QED
  BY <1>1, DmaInvariant, DmaInitCache, PTL DEF DmaSpec, CacheSpec, Cache!Spec
=============================================================================
