--------------------------- MODULE AssetDmaProofs ---------------------------
(***************************************************************************)
(* Reads of the asset image for any threads and priorities: what a read    *)
(* brings is what was asked for.                                           *)
(***************************************************************************)
EXTENDS AssetDma, TLAPS

HasLock(t) == at[t] \in {"locked", "dma", "copy"}

\* The lock belongs to the thread that is at work under it.
LockHeld == \A t \in Threads : HasLock(t) <=> owner = t

\* Those in line wait, each at one place.
LineWaits ==
    /\ \A i \in 1 .. Len(line) : at[line[i]] = "line"
    /\ \A i, j \in 1 .. Len(line) : line[i] = line[j] => i = j

\* What is about to be copied is what was asked for.
BounceKept == \A t \in Threads : at[t] = "copy" => bounce = Piece(t)

DmaInv == TypeOK /\ LockHeld /\ LineWaits /\ BounceKept /\ OwnData

\* What a destination or the bounce buffer may hold includes every piece.
LEMMA Contents == TypeOK => None \in Content /\ \A t \in Threads : Piece(t) \in Content
BY DEF TypeOK, Content, Piece

\* A step that leaves the line alone and wakes none of those in it.
LEMMA LineKept ==
    ASSUME TypeOK, LineWaits, line' = line, \A u \in Threads : at[u] = "line" => at'[u] = "line"
    PROVE  LineWaits'
<1>1. \A i \in 1 .. Len(line) : line[i] \in Threads
     BY DEF TypeOK
<1>  QED
     BY <1>1 DEF LineWaits

LEMMA InitInv == Init => DmaInv
<1>  SUFFICES ASSUME Init PROVE DmaInv
     OBVIOUS
<1>1. line \in Seq(Threads) /\ Len(line) = 0
     BY DEF Init
<1>2. None \in Content
     BY DEF Content
<1>3. at \in [Threads -> Stages] /\ left \in [Threads -> 1 .. MaxPieces]
     BY AssetDmaAssumption DEF AssetDmaAssumption, Init, Stages, Asleep
<1>4. dst \in [Threads -> Content] /\ bounce \in Content
     BY <1>2 DEF Init
<1>5. messages \in 0 .. Depth
     BY AssetDmaAssumption DEF AssetDmaAssumption, Init
<1>6. TypeOK
     BY <1>1, <1>3, <1>4, <1>5 DEF Init, TypeOK
<1>7. LockHeld
     BY AssetDmaAssumption DEF AssetDmaAssumption, Init, LockHeld, HasLock
<1>8. LineWaits /\ BounceKept /\ OwnData
     BY <1>1 DEF Init, LineWaits, BounceKept, OwnData
<1>  QED
     BY <1>6, <1>7, <1>8 DEF DmaInv

LEMMA WakeInv == ASSUME DmaInv, NEW t \in Threads, Wake(t) PROVE DmaInv'
<1>  USE AssetDmaAssumption DEF AssetDmaAssumption, Wake, Step, Goto, lock
<1>1. TypeOK'
     BY Contents DEF DmaInv, TypeOK, Stages, Asleep
<1>2. LockHeld'
     BY DEF DmaInv, TypeOK, LockHeld, HasLock
<1>3. LineWaits'
     BY LineKept DEF DmaInv, TypeOK
<1>4. BounceKept'
     BY DEF DmaInv, TypeOK, BounceKept, LockHeld, HasLock, LineWaits, Piece
<1>5. OwnData'
     BY DEF DmaInv, TypeOK, BounceKept, OwnData, LineWaits, Piece
<1>  QED
     BY <1>1, <1>2, <1>3, <1>4, <1>5 DEF DmaInv

LEMMA SleepInv == ASSUME DmaInv, NEW t \in Threads, Sleep(t) PROVE DmaInv'
<1>  USE AssetDmaAssumption DEF AssetDmaAssumption, Sleep, Step, Goto, lock
<1>1. TypeOK'
     BY Contents DEF DmaInv, TypeOK, Stages, Asleep
<1>2. LockHeld'
     BY DEF DmaInv, TypeOK, LockHeld, HasLock
<1>3. LineWaits'
     BY LineKept DEF DmaInv, TypeOK
<1>4. BounceKept'
     BY DEF DmaInv, TypeOK, BounceKept, LockHeld, HasLock, LineWaits, Piece
<1>5. OwnData'
     BY DEF DmaInv, TypeOK, BounceKept, OwnData, LineWaits, Piece
<1>  QED
     BY <1>1, <1>2, <1>3, <1>4, <1>5 DEF DmaInv

LEMMA StartReadInv == ASSUME DmaInv, NEW t \in Threads, StartRead(t) PROVE DmaInv'
<1>  USE AssetDmaAssumption DEF AssetDmaAssumption, StartRead, Step, Goto, lock
<1>1. TypeOK'
     BY Contents DEF DmaInv, TypeOK, Stages, Asleep
<1>2. LockHeld'
     BY DEF DmaInv, TypeOK, LockHeld, HasLock
<1>3. LineWaits'
     BY LineKept DEF DmaInv, TypeOK
<1>4. BounceKept'
     BY DEF DmaInv, TypeOK, BounceKept, LockHeld, HasLock, LineWaits, Piece
<1>5. OwnData'
     BY DEF DmaInv, TypeOK, BounceKept, OwnData, LineWaits, Piece
<1>  QED
     BY <1>1, <1>2, <1>3, <1>4, <1>5 DEF DmaInv

LEMMA TransferDoneInv == ASSUME DmaInv, NEW t \in Threads, TransferDone(t) PROVE DmaInv'
<1>  USE AssetDmaAssumption DEF AssetDmaAssumption, TransferDone, Step, Goto, lock
<1>0. None \in Content /\ Piece(t) \in Content /\ TypeOK
     BY Contents DEF DmaInv
<1>1. TypeOK'
     <2>1. at' \in [Threads -> Stages]
           BY <1>0 DEF TypeOK, Stages, Asleep
     <2>2. left' \in [Threads -> 1 .. MaxPieces]
           BY <1>0 DEF TypeOK
     <2>3. dst' \in [Threads -> Content]
           BY <1>0 DEF TypeOK
     <2>4. bounce' \in Content /\ owner' \in Threads \cup {None}
           BY <1>0 DEF TypeOK
     <2>5. line' \in Seq(Threads)
           BY <1>0 DEF TypeOK
     <2>6. messages' \in 0 .. Depth /\ overlapped' \in BOOLEAN
           BY <1>0 DEF TypeOK
     <2>7. QED
           BY <2>1, <2>2, <2>3, <2>4, <2>5, <2>6 DEF TypeOK
<1>2. LockHeld'
     BY DEF DmaInv, TypeOK, LockHeld, HasLock
<1>3. LineWaits'
     BY LineKept DEF DmaInv, TypeOK
<1>4. BounceKept'
     BY DEF DmaInv, TypeOK, BounceKept, LockHeld, HasLock, LineWaits, Piece
<1>5. OwnData'
     BY DEF DmaInv, TypeOK, BounceKept, OwnData, LineWaits, Piece
<1>  QED
     BY <1>1, <1>2, <1>3, <1>4, <1>5 DEF DmaInv

LEMMA ReadAlignedInv == ASSUME DmaInv, NEW t \in Threads, ReadAligned(t) PROVE DmaInv'
<1>  USE AssetDmaAssumption DEF AssetDmaAssumption, ReadAligned, Step, Goto, lock
<1>1. TypeOK'
     BY Contents DEF DmaInv, TypeOK, Stages, Asleep
<1>2. LockHeld'
     BY DEF DmaInv, TypeOK, LockHeld, HasLock
<1>3. LineWaits'
     BY LineKept DEF DmaInv, TypeOK
<1>4. BounceKept'
     BY DEF DmaInv, TypeOK, BounceKept, LockHeld, HasLock, LineWaits, Piece
<1>5. OwnData'
     BY DEF DmaInv, TypeOK, BounceKept, OwnData, LineWaits, Piece
<1>  QED
     BY <1>1, <1>2, <1>3, <1>4, <1>5 DEF DmaInv

LEMMA LockBounceInv == ASSUME DmaInv, NEW t \in Threads, LockBounce(t) PROVE DmaInv'
<1>  USE AssetDmaAssumption DEF AssetDmaAssumption, LockBounce, Step, Goto, lock
<1>0. None \in Content /\ Piece(t) \in Content /\ TypeOK
     BY Contents DEF DmaInv
<1>1. TypeOK'
     <2>1. at' \in [Threads -> Stages]
           BY <1>0 DEF TypeOK, Stages, Asleep
     <2>2. left' \in [Threads -> 1 .. MaxPieces]
           BY <1>0 DEF TypeOK
     <2>3. dst' \in [Threads -> Content]
           BY <1>0 DEF TypeOK
     <2>4. bounce' \in Content /\ owner' \in Threads \cup {None}
           BY <1>0 DEF TypeOK
     <2>5. line' \in Seq(Threads)
           <3>1. line \in Seq(Threads) /\ Append(line, t) \in Seq(Threads)
                 BY <1>0 DEF TypeOK
           <3>2. QED
                 BY <3>1
     <2>6. messages' \in 0 .. Depth /\ overlapped' \in BOOLEAN
           BY <1>0 DEF TypeOK
     <2>7. QED
           BY <2>1, <2>2, <2>3, <2>4, <2>5, <2>6 DEF TypeOK
<1>2. LockHeld'
     BY DEF DmaInv, TypeOK, LockHeld, HasLock
<1>3. LineWaits'
     <2>1. \A i \in 1 .. Len(line) : line[i] \in Threads /\ line[i] # t
           BY <1>0 DEF DmaInv, TypeOK, LineWaits
     <2>2. CASE owner = None
           BY <1>0, <2>1, <2>2, LineKept DEF DmaInv, TypeOK
     <2>3. CASE owner # None
           <3>1. line' = Append(line, t) /\ line \in Seq(Threads)
                 BY <1>0, <2>3 DEF TypeOK
           <3>2. /\ Len(line') = Len(line) + 1 /\ line'[Len(line) + 1] = t
                 /\ \A i \in 1 .. Len(line) : line'[i] = line[i]
                 BY <3>1
           <3>3. \A i \in 1 .. Len(line') : i \in 1 .. Len(line) \/ i = Len(line) + 1
                 BY <3>1, <3>2
           <3>4. \A i \in 1 .. Len(line) : at'[line[i]] = "line"
                 BY <1>0, <2>1, <2>3 DEF DmaInv, TypeOK, LineWaits
           <3>5. at'[t] = "line"
                 BY <1>0, <2>3 DEF TypeOK
           <3>6. QED
                 BY <2>1, <3>2, <3>3, <3>4, <3>5 DEF DmaInv, LineWaits
     <2>4. QED
           BY <2>2, <2>3
<1>4. BounceKept'
     BY DEF DmaInv, TypeOK, BounceKept, LockHeld, HasLock, LineWaits, Piece
<1>5. OwnData'
     BY DEF DmaInv, TypeOK, BounceKept, OwnData, LineWaits, Piece
<1>  QED
     BY <1>1, <1>2, <1>3, <1>4, <1>5 DEF DmaInv

LEMMA StartTransferInv == ASSUME DmaInv, NEW t \in Threads, StartTransfer(t) PROVE DmaInv'
<1>  USE AssetDmaAssumption DEF AssetDmaAssumption, StartTransfer, Step, Goto, lock
<1>1. TypeOK'
     BY Contents DEF DmaInv, TypeOK, Stages, Asleep
<1>2. LockHeld'
     BY DEF DmaInv, TypeOK, LockHeld, HasLock
<1>3. LineWaits'
     BY LineKept DEF DmaInv, TypeOK
<1>4. BounceKept'
     BY DEF DmaInv, TypeOK, BounceKept, LockHeld, HasLock, LineWaits, Piece
<1>5. OwnData'
     BY DEF DmaInv, TypeOK, BounceKept, OwnData, LineWaits, Piece
<1>  QED
     BY <1>1, <1>2, <1>3, <1>4, <1>5 DEF DmaInv

LEMMA CopyOutInv == ASSUME DmaInv, NEW t \in Threads, CopyOut(t) PROVE DmaInv'
<1>  USE AssetDmaAssumption DEF AssetDmaAssumption, CopyOut, Step, Goto, lock
<1>0. None \in Content /\ Piece(t) \in Content /\ TypeOK
     BY Contents DEF DmaInv
<1>1. TypeOK'
     <2>1. at' \in [Threads -> Stages]
           BY <1>0 DEF TypeOK, Stages, Asleep
     <2>2. left' \in [Threads -> 1 .. MaxPieces]
           BY <1>0 DEF TypeOK
     <2>3. dst' \in [Threads -> Content]
           BY <1>0 DEF TypeOK
     <2>4. bounce' \in Content /\ owner' \in Threads \cup {None}
           BY <1>0 DEF TypeOK
     <2>5. line' \in Seq(Threads)
           <3>1. line \in Seq(Threads) /\ (line # <<>> => Tail(line) \in Seq(Threads))
                 BY <1>0 DEF TypeOK
           <3>2. QED
                 BY <3>1
     <2>6. messages' \in 0 .. Depth /\ overlapped' \in BOOLEAN
           BY <1>0 DEF TypeOK
     <2>7. QED
           BY <2>1, <2>2, <2>3, <2>4, <2>5, <2>6 DEF TypeOK
<1>2. owner = t /\ \A u \in Threads : HasLock(u) => u = t
     BY <1>0 DEF DmaInv, LockHeld, HasLock
<1>3. ASSUME line = <<>> PROVE LockHeld' /\ LineWaits'
     <2>1. LockHeld'
           BY <1>0, <1>2, <1>3 DEF TypeOK, LockHeld, HasLock
     <2>2. LineWaits'
           BY <1>0, <1>3, LineKept DEF DmaInv, TypeOK
     <2>3. QED
           BY <2>1, <2>2
<1>4. ASSUME line # <<>> PROVE LockHeld' /\ LineWaits'
     <2>1. /\ Head(line) = line[1] /\ Len(Tail(line)) = Len(line) - 1 /\ Len(line) \in Nat \ {0}
           /\ \A i \in 1 .. Len(line) - 1 : Tail(line)[i] = line[i + 1]
           BY <1>0, <1>4 DEF TypeOK
     <2>2. \A i \in 1 .. Len(line) : line[i] \in Threads /\ line[i] # t
           BY <1>0 DEF DmaInv, TypeOK, LineWaits
     <2>3. \A u \in Threads \ {t, line[1]} : at'[u] = at[u]
           BY <1>0, <1>4, <2>1, <2>2 DEF TypeOK
     <2>4. at'[t] = "post" /\ at'[line[1]] = "locked" /\ owner' = line[1] /\ line' = Tail(line)
           BY <1>0, <1>4, <2>1, <2>2 DEF TypeOK
     <2>5. LockHeld'
           BY <1>2, <2>1, <2>2, <2>3, <2>4 DEF LockHeld, HasLock
     <2>6. \A i \in 1 .. Len(line) - 1 : line[i + 1] \in Threads \ {t, line[1]}
           BY <2>1, <2>2 DEF DmaInv, LineWaits
     <2>7. LineWaits'
           BY <2>1, <2>3, <2>4, <2>6 DEF DmaInv, LineWaits
     <2>8. QED
           BY <2>5, <2>7
<1>5. LockHeld' /\ LineWaits'
     BY <1>3, <1>4
<1>6. BounceKept'
     BY DEF DmaInv, TypeOK, BounceKept, LockHeld, HasLock, LineWaits, Piece
<1>7. OwnData'
     BY DEF DmaInv, TypeOK, BounceKept, OwnData, LineWaits, Piece
<1>  QED
     BY <1>1, <1>5, <1>6, <1>7 DEF DmaInv

LEMMA PostInv == ASSUME DmaInv, NEW t \in Threads, Post(t) PROVE DmaInv'
<1>  USE AssetDmaAssumption DEF AssetDmaAssumption, Post, Step, Goto, lock
<1>0. None \in Content /\ Piece(t) \in Content /\ TypeOK
     BY Contents DEF DmaInv
<1>1. TypeOK'
     <2>1. at' \in [Threads -> Stages]
           BY <1>0 DEF TypeOK, Stages, Asleep
     <2>2. left' \in [Threads -> 1 .. MaxPieces]
           BY <1>0 DEF TypeOK
     <2>3. dst' \in [Threads -> Content]
           BY <1>0 DEF TypeOK
     <2>4. bounce' \in Content /\ owner' \in Threads \cup {None}
           BY <1>0 DEF TypeOK
     <2>5. line' \in Seq(Threads)
           BY <1>0 DEF TypeOK
     <2>6. messages' \in 0 .. Depth /\ overlapped' \in BOOLEAN
           BY <1>0 DEF TypeOK
     <2>7. QED
           BY <2>1, <2>2, <2>3, <2>4, <2>5, <2>6 DEF TypeOK
<1>2. LockHeld'
     BY DEF DmaInv, TypeOK, LockHeld, HasLock
<1>3. LineWaits'
     BY LineKept DEF DmaInv, TypeOK
<1>4. BounceKept'
     BY DEF DmaInv, TypeOK, BounceKept, LockHeld, HasLock, LineWaits, Piece
<1>5. OwnData'
     BY DEF DmaInv, TypeOK, BounceKept, OwnData, LineWaits, Piece
<1>  QED
     BY <1>1, <1>2, <1>3, <1>4, <1>5 DEF DmaInv

LEMMA ReceiveInv == ASSUME DmaInv, NEW t \in Threads, Receive(t) PROVE DmaInv'
<1>  USE AssetDmaAssumption DEF AssetDmaAssumption, Receive, Step, Goto, lock
<1>0. None \in Content /\ Piece(t) \in Content /\ TypeOK
     BY Contents DEF DmaInv
<1>1. TypeOK'
     <2>1. at' \in [Threads -> Stages]
           BY <1>0 DEF TypeOK, Stages, Asleep
     <2>2. left' \in [Threads -> 1 .. MaxPieces]
           BY <1>0 DEF TypeOK
     <2>3. dst' \in [Threads -> Content]
           BY <1>0 DEF TypeOK
     <2>4. bounce' \in Content /\ owner' \in Threads \cup {None}
           BY <1>0 DEF TypeOK
     <2>5. line' \in Seq(Threads)
           BY <1>0 DEF TypeOK
     <2>6. messages' \in 0 .. Depth /\ overlapped' \in BOOLEAN
           BY <1>0 DEF TypeOK
     <2>7. QED
           BY <2>1, <2>2, <2>3, <2>4, <2>5, <2>6 DEF TypeOK
<1>2. LockHeld'
     BY DEF DmaInv, TypeOK, LockHeld, HasLock
<1>3. LineWaits'
     BY LineKept DEF DmaInv, TypeOK
<1>4. BounceKept'
     BY DEF DmaInv, TypeOK, BounceKept, LockHeld, HasLock, LineWaits, Piece
<1>5. OwnData'
     BY DEF DmaInv, TypeOK, BounceKept, OwnData, LineWaits, Piece
<1>  QED
     BY <1>1, <1>2, <1>3, <1>4, <1>5 DEF DmaInv

LEMMA NextPieceInv == ASSUME DmaInv, NEW t \in Threads, NextPiece(t) PROVE DmaInv'
<1>  USE AssetDmaAssumption DEF AssetDmaAssumption, NextPiece, Step, Goto, lock
<1>0. None \in Content /\ Piece(t) \in Content /\ TypeOK
     BY Contents DEF DmaInv
<1>1. TypeOK'
     <2>1. at' \in [Threads -> Stages]
           BY <1>0 DEF TypeOK, Stages, Asleep
     <2>2. left' \in [Threads -> 1 .. MaxPieces]
           <3>1. left \in [Threads -> 1 .. MaxPieces] /\ left[t] \in 1 .. MaxPieces
                 BY <1>0 DEF TypeOK
           <3>2. left[t] # 1 => left[t] - 1 \in 1 .. MaxPieces
                 BY <3>1
           <3>3. QED
                 BY <3>1, <3>2
     <2>3. dst' \in [Threads -> Content]
           BY <1>0 DEF TypeOK
     <2>4. bounce' \in Content /\ owner' \in Threads \cup {None}
           BY <1>0 DEF TypeOK
     <2>5. line' \in Seq(Threads)
           BY <1>0 DEF TypeOK
     <2>6. messages' \in 0 .. Depth /\ overlapped' \in BOOLEAN
           BY <1>0 DEF TypeOK
     <2>7. QED
           BY <2>1, <2>2, <2>3, <2>4, <2>5, <2>6 DEF TypeOK
<1>2. LockHeld'
     BY DEF DmaInv, TypeOK, LockHeld, HasLock
<1>3. LineWaits'
     BY LineKept DEF DmaInv, TypeOK
<1>4. BounceKept'
     BY DEF DmaInv, TypeOK, BounceKept, LockHeld, HasLock, LineWaits, Piece
<1>5. OwnData'
     BY DEF DmaInv, TypeOK, BounceKept, OwnData, LineWaits, Piece
<1>  QED
     BY <1>1, <1>2, <1>3, <1>4, <1>5 DEF DmaInv

-----------------------------------------------------------------------------
\* The inductive invariant: the lock's holder is the one thread at work under
\* it, those in line are asleep, and the bounce buffer keeps the holder's piece
\* until it is copied.
THEOREM DmaInvariant == Spec => []DmaInv
<1>1. DmaInv /\ [Next]_vars => DmaInv'
     <2>  SUFFICES ASSUME DmaInv, [Next]_vars PROVE DmaInv'
          OBVIOUS
     <2>1. CASE UNCHANGED vars
           BY <2>1 DEF vars, lock, DmaInv, TypeOK, LockHeld, HasLock, LineWaits, BounceKept,
              OwnData, Piece, Stages, Asleep, Content
     <2>2. ASSUME NEW t \in Threads, Proceed(t) PROVE DmaInv'
           BY <2>2, ReadAlignedInv, LockBounceInv, StartTransferInv, CopyOutInv, PostInv,
              ReceiveInv, NextPieceInv DEF Proceed
     <2>3. CASE Next
           BY <2>2, <2>3, WakeInv, SleepInv, StartReadInv, TransferDoneInv DEF Next
     <2>4. QED
           BY <2>1, <2>3
<1>2. QED
     BY InitInv, <1>1, PTL DEF Spec

\* Types for any threads and priorities: the queue never holds more messages
\* than it has room for (os_pi.c:71-76), and the line is one of threads.
THEOREM TypeCorrect == Spec => []TypeOK
<1>1. DmaInv => TypeOK
     BY DEF DmaInv
<1>2. QED
     BY DmaInvariant, <1>1, PTL

\* A message ends the wait of a thread, its own or another's, only when the
\* thread's memory holds the piece it asked for: by mutual exclusion on the
\* bounce buffer (gc_assets.c:533-548), and because a piece is there before
\* its message is sent.  Priorities play no part.
THEOREM ReadsBringOwnData == Spec => []OwnData
<1>1. DmaInv => OwnData
     BY DEF DmaInv
<1>2. QED
     BY DmaInvariant, <1>1, PTL
=============================================================================
