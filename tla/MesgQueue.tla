------------------------------ MODULE MesgQueue ------------------------------
(***************************************************************************)
(* One libultra message queue as platform/gc/ultra/os_message.c builds it  *)
(* on a libogc message box, and the field validCount the shim maintains    *)
(* beside the box because game code polls it (src/save_data.c).            *)
(*                                                                         *)
(* The box and validCount are not updated together.  MQ_Send may switch to *)
(* a receiver it has just woken before osSendMesg reaches its increment,   *)
(* so every call is two steps here: the libogc call, and the bookkeeping.  *)
(* Which message travels is irrelevant to the count, hence the box is the  *)
(* number of messages it holds.                                            *)
(***************************************************************************)
EXTENDS Integers, FiniteSets

CONSTANTS Thread,    \* the threads that use this queue
          Priority,  \* their libogc priorities, larger runs first
          Capacity   \* msgCount, the number of messages the box holds

ASSUME QueueAssumption ==
    /\ IsFiniteSet(Thread)
    /\ Thread # {}
    /\ Priority \in [Thread -> Nat]
    /\ Capacity \in Nat \ {0}

VARIABLES pending,     \* messages in the libogc box
          validCount,  \* OSMesgQueue.validCount
          pc           \* where each thread is inside osSendMesg / osRecvMesg

vars == <<pending, validCount, pc>>

(***************************************************************************)
(* "sendWait" and "recvWait" are threads blocked inside MQ_Send and        *)
(* MQ_Receive; "sent" and "received" are threads past the libogc call but  *)
(* not yet past the validCount update.                                     *)
(***************************************************************************)
Stage == {"idle", "sendWait", "sent", "recvWait", "received"}

Sent     == {t \in Thread : pc[t] = "sent"}
Received == {t \in Thread : pc[t] = "received"}

Runnable(t) ==
    \/ pc[t] \in {"sent", "received"}
    \/ pc[t] = "sendWait" /\ pending < Capacity
    \/ pc[t] = "recvWait" /\ pending > 0

\* libogc always runs the most urgent runnable thread.  An idle thread may be
\* busy elsewhere or asleep, so it holds nobody back.
CanRun(t) == \A u \in Thread : Priority[u] > Priority[t] => ~Runnable(u)

Goto(t, stage) == pc' = [pc EXCEPT ![t] = stage]

(***************************************************************************)
(* osCreateMesgQueue.                                                      *)
(***************************************************************************)
Init ==
    /\ pending = 0
    /\ validCount = 0
    /\ pc = [t \in Thread |-> "idle"]

(***************************************************************************)
(* osSendMesg and osJamMesg (they differ only in the end of the box the    *)
(* message goes to).  Without OS_MESG_BLOCK a full box returns -1 and      *)
(* changes nothing, so that outcome needs no action; likewise an empty box *)
(* in osRecvMesg.                                                          *)
(***************************************************************************)
Deposit(t) ==
    /\ CanRun(t)
    /\ pc[t] \in {"idle", "sendWait"}
    /\ pending < Capacity
    /\ pending' = pending + 1
    /\ Goto(t, "sent")
    /\ UNCHANGED validCount

BlockOnFull(t) ==
    /\ CanRun(t)
    /\ pc[t] = "idle"
    /\ pending = Capacity
    /\ Goto(t, "sendWait")
    /\ UNCHANGED <<pending, validCount>>

\* Mutant: the increment of osJamMesg or osSendMesg forgotten.
CountUpForgotten(t) ==
    /\ CanRun(t)
    /\ pc[t] = "sent"
    /\ Goto(t, "idle")
    /\ UNCHANGED <<pending, validCount>>

CountUp(t) ==
    /\ CanRun(t)
    /\ pc[t] = "sent"
    /\ validCount' = validCount + 1
    /\ Goto(t, "idle")
    /\ UNCHANGED pending

(***************************************************************************)
(* osRecvMesg.  libogc hands a message straight to a waiting receiver; that *)
(* is a Deposit followed by the receiver's Withdraw.                       *)
(***************************************************************************)
Withdraw(t) ==
    /\ CanRun(t)
    /\ pc[t] \in {"idle", "recvWait"}
    /\ pending > 0
    /\ pending' = pending - 1
    /\ Goto(t, "received")
    /\ UNCHANGED validCount

BlockOnEmpty(t) ==
    /\ CanRun(t)
    /\ pc[t] = "idle"
    /\ pending = 0
    /\ Goto(t, "recvWait")
    /\ UNCHANGED <<pending, validCount>>

\* Mutant: the decrement not held back at zero.
CountDownUnguarded(t) ==
    /\ CanRun(t)
    /\ pc[t] = "received"
    /\ validCount' = validCount - 1
    /\ Goto(t, "idle")
    /\ UNCHANGED pending

\* Mutant: the decrement of osRecvMesg forgotten.
CountDownForgotten(t) ==
    /\ CanRun(t)
    /\ pc[t] = "received"
    /\ Goto(t, "idle")
    /\ UNCHANGED <<pending, validCount>>

CountDown(t) ==
    /\ CanRun(t)
    /\ pc[t] = "received"
    /\ validCount' = IF validCount > 0 THEN validCount - 1 ELSE validCount
    /\ Goto(t, "idle")
    /\ UNCHANGED pending

(***************************************************************************)
(* osSendMesg called from a handler (the retrace): no thread is dispatched *)
(* before the handler returns, so the deposit and the count are one step.  *)
(***************************************************************************)
SendFromInterrupt ==
    /\ pending < Capacity
    /\ pending' = pending + 1
    /\ validCount' = validCount + 1
    /\ UNCHANGED pc

Next ==
    \/ \E t \in Thread :
          \/ Deposit(t) \/ BlockOnFull(t) \/ CountUp(t)
          \/ Withdraw(t) \/ BlockOnEmpty(t) \/ CountDown(t)
    \/ SendFromInterrupt

Spec == Init /\ [][Next]_vars

-----------------------------------------------------------------------------
TypeOK ==
    /\ pending \in 0 .. Capacity
    /\ validCount \in Nat
    /\ pc \in [Thread -> Stage]

\* Nobody is between a libogc call and its bookkeeping.
Quiet == Sent \cup Received = {}

\* validCount never falls behind the box: whatever order the two halves of
\* concurrent sends and receives run in, the updates still owed can only bring
\* the count down to the number of messages, never below it.
NeverUndercounts ==
    validCount + Cardinality(Sent) >= pending + Cardinality(Received)

\* What the polling loop of get_si_device_status relies on: with no call in
\* flight, a zero validCount means there is no message left to drain.
NoHiddenMessage == Quiet /\ validCount = 0 => pending = 0

\* The decrement osRecvMesg skips at zero makes the count drift upwards, but
\* the drift never builds up over a session: it stays below the number of
\* threads that use the queue.
DriftBounded ==
    validCount + Cardinality(Sent) + 1
        <= pending + Cardinality(Received) + Cardinality(Thread)

\* The file header's promise that validCount is kept truthful: once every call
\* has returned, the field equals the number of messages waiting.
Truthful == Quiet => validCount = pending

=============================================================================
