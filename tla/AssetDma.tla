------------------------------ MODULE AssetDma ------------------------------
(***************************************************************************)
(* Reading the asset image out of ARAM (src/asset_loading.c,               *)
(* platform/gc/ultra/os_pi.c, platform/gc/gc_assets.c).  The audio manager, *)
(* the game and the background loader all do; a read is served piece by    *)
(* piece, straight into the caller's memory if everything is aligned, else *)
(* through one bounce buffer under a lock.  dmacopy, which the game and    *)
(* the loader call, waits after each piece for a message on one queue of   *)
(* one message; the audio manager has a queue of its own and does not wait. *)
(* No piece is longer than MAX_TRANSFER_SIZE, which is less than the       *)
(* bounce buffer, so that a piece is one window of gc_assets_read.         *)
(***************************************************************************)
EXTENDS Integers, Sequences

CONSTANTS Threads,
          Sharers,    \* those that call dmacopy
          Priority,   \* OSPri of each thread
          MaxPieces,  \* Bound: pieces of one read
          Depth,      \* messages gDmaMesgQueue can hold
          None

ASSUME AssetDmaAssumption ==
    /\ Sharers \subseteq Threads
    /\ Priority \in [Threads -> Nat]
    /\ MaxPieces \in Nat \ {0} /\ Depth \in Nat \ {0}
    /\ None \notin Threads /\ None \notin Threads \X Nat

VARIABLES at,        \* where each thread is
          left,      \* pieces it still has to read, with the one it is at
          dst,       \* what the destination of that piece holds
          bounce,    \* what sBounce holds
          owner,     \* the thread that has sReadLock
          line,      \* those that wait for it
          messages,  \* in gDmaMesgQueue
          overlapped \* history: two reads with dmacopy have overlapped

lock == <<bounce, owner, line>>
vars == <<at, left, dst, lock, messages, overlapped>>

\* A piece of a read, which is what a transfer should bring.
Piece(t) == <<t, left[t]>>

\* "idle" is asleep elsewhere and "busy" at work elsewhere; "direct" and "dma"
\* are asleep until a transfer is done.
Asleep  == {"idle", "direct", "line", "dma", "waiting"}
Reading(t) == at[t] \notin {"idle", "busy"}

\* libogc runs the most urgent thread that can run.
CanRun(t) == \A u \in Threads : Priority[u] > Priority[t] => at[u] \in Asleep

Goto(t, stage) == at' = [at EXCEPT ![t] = stage]

Step(t, from, to) == CanRun(t) /\ at[t] = from /\ Goto(t, to)

Init ==
    /\ at = [t \in Threads |-> "idle"] /\ left = [t \in Threads |-> 1]
    /\ dst = [t \in Threads |-> None]
    /\ bounce = None /\ owner = None /\ line = <<>>
    /\ messages = 0 /\ overlapped = FALSE

-----------------------------------------------------------------------------
(* The rest of the thread: it wakes, works and goes to sleep.              *)
Wake(t) ==
    /\ at[t] = "idle" /\ Goto(t, "busy")
    /\ UNCHANGED <<left, dst, lock, messages, overlapped>>

Sleep(t) ==
    /\ Step(t, "busy", "idle")
    /\ UNCHANGED <<left, dst, lock, messages, overlapped>>

\* dmacopy, or for the audio manager osPiStartDma in __amDMA.
StartRead(t) ==
    /\ Step(t, "busy", "begin")
    /\ \E n \in 1 .. (IF t \in Sharers THEN MaxPieces ELSE 1) : left' = [left EXCEPT ![t] = n]
    /\ dst' = [dst EXCEPT ![t] = None]
    /\ overlapped' = (overlapped \/ (t \in Sharers /\ \E u \in Sharers \ {t} : Reading(u)))
    /\ UNCHANGED <<lock, messages>>

-----------------------------------------------------------------------------
(* gc_assets_read                                                          *)
ReadAligned(t) ==
    /\ Step(t, "begin", "direct")
    /\ UNCHANGED <<left, dst, lock, messages, overlapped>>

\* Mutant: no lock.
LockMissing(t) ==
    /\ Step(t, "begin", "locked")
    /\ owner' = t
    /\ UNCHANGED <<left, dst, bounce, line, messages, overlapped>>

LockBounce(t) ==
    /\ IF owner = None
       THEN Step(t, "begin", "locked") /\ owner' = t /\ UNCHANGED line
       ELSE Step(t, "begin", "line") /\ line' = Append(line, t) /\ UNCHANGED owner
    /\ UNCHANGED <<left, dst, bounce, messages, overlapped>>

StartTransfer(t) ==
    /\ Step(t, "locked", "dma")
    /\ UNCHANGED <<left, dst, lock, messages, overlapped>>

\* The ARAM engine has done the transfer a thread waits for.
TransferDone(t) ==
    \/ /\ at[t] = "direct" /\ Goto(t, "post")
       /\ dst' = [dst EXCEPT ![t] = Piece(t)]
       /\ UNCHANGED <<left, lock, messages, overlapped>>
    \/ /\ at[t] = "dma" /\ Goto(t, "copy")
       /\ bounce' = Piece(t)
       /\ UNCHANGED <<left, dst, owner, line, messages, overlapped>>

\* Mutant: the lock is kept until the last piece of the read.
CopyOutAndKeep(t) ==
    /\ Step(t, "copy", "post")
    /\ dst' = [dst EXCEPT ![t] = bounce]
    /\ IF line = <<>>
       THEN owner' = (IF left[t] = 1 THEN None ELSE t) /\ UNCHANGED line
       ELSE UNCHANGED <<owner, line>>
    /\ UNCHANGED <<left, bounce, messages, overlapped>>

\* The bounce buffer is copied and the lock passed to the first in line.
CopyOut(t) ==
    /\ CanRun(t) /\ at[t] = "copy"
    /\ dst' = [dst EXCEPT ![t] = bounce]
    /\ IF line = <<>>
       THEN Goto(t, "post") /\ owner' = None /\ UNCHANGED line
       ELSE /\ at' = [at EXCEPT ![t] = "post", ![Head(line)] = "locked"]
            /\ owner' = Head(line) /\ line' = Tail(line)
    /\ UNCHANGED <<left, bounce, messages, overlapped>>

-----------------------------------------------------------------------------
(* The message at the end of osPiStartDma, and the wait for it.            *)

\* Mutant: a full queue takes another message.
PostUnchecked(t) ==
    /\ Step(t, "post", IF t \in Sharers THEN "receive" ELSE "next")
    /\ messages' = IF t \in Sharers THEN messages + 1 ELSE messages
    /\ UNCHANGED <<left, dst, lock, overlapped>>

\* A thread that waits is handed the message; a full queue drops it.
Post(t) ==
    /\ CanRun(t) /\ at[t] = "post"
    /\ LET waiting == {u \in Sharers : at[u] = "waiting"}
       IN  \/ /\ t \notin Sharers
              /\ Goto(t, "next") /\ UNCHANGED messages
           \/ /\ t \in Sharers /\ waiting = {}
              /\ Goto(t, "receive")
              /\ messages' = IF messages < Depth THEN messages + 1 ELSE messages
           \/ /\ t \in Sharers
              /\ \E u \in waiting : at' = [at EXCEPT ![t] = "receive", ![u] = "next"]
              /\ UNCHANGED messages
    /\ UNCHANGED <<left, dst, lock, overlapped>>

Receive(t) ==
    /\ IF messages > 0
       THEN Step(t, "receive", "next") /\ messages' = messages - 1
       ELSE Step(t, "receive", "waiting") /\ UNCHANGED messages
    /\ UNCHANGED <<left, dst, lock, overlapped>>

NextPiece(t) ==
    /\ IF left[t] = 1
       THEN Step(t, "next", "busy") /\ UNCHANGED <<left, dst>>
       ELSE /\ Step(t, "next", "begin")
            /\ left' = [left EXCEPT ![t] = @ - 1]
            /\ dst' = [dst EXCEPT ![t] = None]
    /\ UNCHANGED <<lock, messages, overlapped>>

-----------------------------------------------------------------------------
\* What a thread that is reading has to do next.
Proceed(t) ==
    \/ ReadAligned(t) \/ LockBounce(t) \/ StartTransfer(t) \/ CopyOut(t)
    \/ Post(t) \/ Receive(t) \/ NextPiece(t)

Next ==
    \E t \in Threads : Wake(t) \/ Sleep(t) \/ StartRead(t) \/ TransferDone(t) \/ Proceed(t)

\* Transfers end, a thread does not work for ever without going to sleep, and
\* one that can run again and again gets on with its read.
Fairness ==
    \A t \in Threads : WF_vars(TransferDone(t)) /\ SF_vars(Sleep(t)) /\ SF_vars(Proceed(t))

Spec     == Init /\ [][Next]_vars
FairSpec == Spec /\ Fairness

-----------------------------------------------------------------------------
Stages  == {"busy", "begin", "locked", "copy", "post", "receive", "next"} \cup Asleep
Content == (Threads \X (1 .. MaxPieces)) \cup {None}

\* No more messages than the queue holds, one thread at most with the lock.
TypeOK ==
    /\ at \in [Threads -> Stages] /\ left \in [Threads -> 1 .. MaxPieces]
    /\ dst \in [Threads -> Content] /\ bounce \in Content
    /\ owner \in Threads \cup {None} /\ line \in Seq(Threads)
    /\ messages \in 0 .. Depth
    /\ overlapped \in BOOLEAN

\* A piece is there when its message is sent and when the wait for it ends,
\* whoever sent the message that ended it, and nobody else's transfer gets into
\* it between the transfer into the bounce buffer and the copy (gc_assets.c:96).
OwnData ==
    \A t \in Threads : at[t] \in {"post", "receive", "waiting", "next"} => dst[t] = Piece(t)

\* Every read ends: the audio manager's, however often less urgent threads are
\* interrupted with the lock in hand (gc_assets.c:524-531), and with dmacopy
\* every one until two of them overlap: then the queue may drop one of two
\* messages, and a thread waits for it for ever (asset_loading.c:277).
ReadsReturn ==
    \A t \in Threads : Reading(t) ~> (~Reading(t) \/ (t \in Sharers /\ overlapped))
=============================================================================
