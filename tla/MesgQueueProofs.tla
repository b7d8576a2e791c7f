-------------------------- MODULE MesgQueueProofs --------------------------
(***************************************************************************)
(* What os_message.c guarantees about validCount for every set of threads, *)
(* every assignment of priorities and every queue size.                    *)
(***************************************************************************)
EXTENDS MesgQueue, FiniteSetTheorems, TLAPS

\* Sent and Received are finite, and the two are disjoint parts of Thread.
LEMMA Counts ==
    ASSUME TypeOK
    PROVE  /\ IsFiniteSet(Sent) /\ IsFiniteSet(Received)
           /\ Cardinality(Sent) \in Nat /\ Cardinality(Received) \in Nat
           /\ Cardinality(Thread) \in Nat
           /\ Cardinality(Sent) + Cardinality(Received) <= Cardinality(Thread)
<1>1. IsFiniteSet(Thread) /\ Cardinality(Thread) \in Nat
  BY QueueAssumption, FS_CardinalityType
<1>2. Sent \subseteq Thread /\ Received \subseteq Thread
  BY DEF Sent, Received
<1>3. IsFiniteSet(Sent) /\ IsFiniteSet(Received)
  BY <1>1, <1>2, FS_Subset
<1>4. Cardinality(Sent) \in Nat /\ Cardinality(Received) \in Nat
  BY <1>3, FS_CardinalityType
<1>5. Sent \cap Received = {}
  BY DEF Sent, Received
<1>6. Cardinality(Sent \cup Received) = Cardinality(Sent) + Cardinality(Received)
  <2>1. Cardinality(Sent \cap Received) = 0
    BY <1>5, FS_EmptySet
  <2>2. Cardinality(Sent \cup Received) =
            Cardinality(Sent) + Cardinality(Received) - Cardinality(Sent \cap Received)
    BY <1>3, FS_Union, Zenon
  <2> QED BY <1>4, <2>1, <2>2
<1>7. Cardinality(Sent \cup Received) <= Cardinality(Thread)
  BY <1>1, <1>2, FS_Subset
<1> QED BY <1>1, <1>3, <1>4, <1>6, <1>7

-----------------------------------------------------------------------------
(* How one step moves a thread in or out of Sent and Received.             *)

\* A thread that has completed MQ_Send joins Sent and leaves Received alone.
LEMMA DepositMoves ==
    ASSUME TypeOK, NEW t \in Thread, Deposit(t)
    PROVE  /\ Cardinality(Sent') = Cardinality(Sent) + 1
           /\ Cardinality(Received') = Cardinality(Received)
<1>1. Sent' = Sent \cup {t} /\ t \notin Sent /\ Received' = Received
  BY DEF Deposit, Goto, Sent, Received, TypeOK
<1> QED BY <1>1, Counts, FS_AddElement

\* A thread that has counted its message leaves Sent.
LEMMA CountUpMoves ==
    ASSUME TypeOK, NEW t \in Thread, CountUp(t)
    PROVE  /\ Cardinality(Sent') = Cardinality(Sent) - 1
           /\ Cardinality(Received') = Cardinality(Received)
<1>1. Sent' = Sent \ {t} /\ t \in Sent /\ Received' = Received
  BY DEF CountUp, Goto, Sent, Received, TypeOK
<1> QED BY <1>1, Counts, FS_RemoveElement

\* A thread that has completed MQ_Receive joins Received.
LEMMA WithdrawMoves ==
    ASSUME TypeOK, NEW t \in Thread, Withdraw(t)
    PROVE  /\ Cardinality(Sent') = Cardinality(Sent)
           /\ Cardinality(Received') = Cardinality(Received) + 1
<1>1. Received' = Received \cup {t} /\ t \notin Received /\ Sent' = Sent
  BY DEF Withdraw, Goto, Sent, Received, TypeOK
<1> QED BY <1>1, Counts, FS_AddElement

\* A thread that has done its decrement, or skipped it, leaves Received.
LEMMA CountDownMoves ==
    ASSUME TypeOK, NEW t \in Thread, CountDown(t)
    PROVE  /\ Cardinality(Sent') = Cardinality(Sent)
           /\ Cardinality(Received') = Cardinality(Received) - 1
<1>1. Received' = Received \ {t} /\ t \in Received /\ Sent' = Sent
  BY DEF CountDown, Goto, Sent, Received, TypeOK
<1> QED BY <1>1, Counts, FS_RemoveElement

\* Every other step leaves both sets as they are.
LEMMA OthersStay ==
    ASSUME TypeOK,
           \/ \E t \in Thread : BlockOnFull(t) \/ BlockOnEmpty(t)
           \/ SendFromInterrupt
           \/ UNCHANGED vars
    PROVE  Sent' = Sent /\ Received' = Received
BY DEF BlockOnFull, BlockOnEmpty, SendFromInterrupt, vars, Goto, Sent, Received,
       TypeOK

-----------------------------------------------------------------------------
\* Type correctness of the queue: the box never holds more than msgCount
\* messages and validCount never goes below zero.
THEOREM TypeCorrect == Spec => []TypeOK
<1>1. Init => TypeOK
  BY QueueAssumption DEF Init, TypeOK, Stage
<1>2. TypeOK /\ [Next]_vars => TypeOK'
  <2> SUFFICES ASSUME TypeOK, [Next]_vars PROVE TypeOK'
    OBVIOUS
  <2> USE QueueAssumption DEF TypeOK, Stage, Goto
  <2>1. ASSUME NEW t \in Thread, Deposit(t) PROVE TypeOK'
    BY <2>1 DEF Deposit
  <2>2. ASSUME NEW t \in Thread, BlockOnFull(t) PROVE TypeOK'
    BY <2>2 DEF BlockOnFull
  <2>3. ASSUME NEW t \in Thread, CountUp(t) PROVE TypeOK'
    BY <2>3 DEF CountUp
  <2>4. ASSUME NEW t \in Thread, Withdraw(t) PROVE TypeOK'
    BY <2>4 DEF Withdraw
  <2>5. ASSUME NEW t \in Thread, BlockOnEmpty(t) PROVE TypeOK'
    BY <2>5 DEF BlockOnEmpty
  <2>6. ASSUME NEW t \in Thread, CountDown(t) PROVE TypeOK'
    BY <2>6 DEF CountDown
  <2>7. CASE SendFromInterrupt
    BY <2>7 DEF SendFromInterrupt
  <2>8. CASE UNCHANGED vars
    BY <2>8 DEF vars
  <2> QED BY <2>1, <2>2, <2>3, <2>4, <2>5, <2>6, <2>7, <2>8 DEF Next
<1> QED BY <1>1, <1>2, PTL DEF Spec

-----------------------------------------------------------------------------
\* The two bounds on validCount are inductive together with the types.
CountInv == TypeOK /\ NeverUndercounts /\ DriftBounded

\* Both bounds hold of a fresh queue: nobody is inside a call.
LEMMA CountInit == Init => CountInv
<1> SUFFICES ASSUME Init PROVE CountInv
  OBVIOUS
<1>1. TypeOK
  BY QueueAssumption DEF Init, TypeOK, Stage
<1>2. Sent = {} /\ Received = {}
  BY DEF Init, Sent, Received
<1>3. Cardinality(Sent) = 0 /\ Cardinality(Received) = 0
  BY <1>2, FS_EmptySet
<1>4. Cardinality(Thread) >= 1
  BY QueueAssumption, FS_EmptySet, FS_CardinalityType
<1> QED
  BY <1>1, <1>3, <1>4, Counts DEF Init, CountInv, NeverUndercounts, DriftBounded

\* No step of any thread, and no interrupt, breaks either bound.
LEMMA CountStep == CountInv /\ [Next]_vars /\ TypeOK' => CountInv'
<1> SUFFICES ASSUME CountInv, [Next]_vars, TypeOK'
             PROVE  NeverUndercounts' /\ DriftBounded'
  BY DEF CountInv
<1> USE DEF NeverUndercounts, DriftBounded
<1>0. TypeOK /\ pending \in Nat /\ validCount \in Nat
  BY QueueAssumption DEF CountInv, TypeOK
<1> DEFINE s == Cardinality(Sent)
           r == Cardinality(Received)
           n == Cardinality(Thread)
<1>n. s \in Nat /\ r \in Nat /\ n \in Nat /\ s + r <= n
  BY <1>0, Counts
<1>i. /\ validCount + s >= pending + r
      /\ validCount + s + 1 <= pending + r + n
  BY DEF CountInv
<1>t. Cardinality(Thread)' = Cardinality(Thread)
  OBVIOUS
<1>1. ASSUME NEW t \in Thread, Deposit(t) PROVE NeverUndercounts' /\ DriftBounded'
  <2>1. s' = s + 1 /\ r' = r
    BY <1>0, <1>1, DepositMoves
  <2>2. pending' = pending + 1 /\ validCount' = validCount
    BY <1>1 DEF Deposit
  <2> HIDE DEF s, r, n
  <2>3. /\ validCount' + s' >= pending' + r'
        /\ validCount' + s' + 1 <= pending' + r' + n
    BY <1>0, <1>n, <1>i, <2>1, <2>2
  <2> QED BY <2>3, <1>t DEF s, r, n
<1>2. ASSUME NEW t \in Thread, CountUp(t) PROVE NeverUndercounts' /\ DriftBounded'
  <2>1. s' = s - 1 /\ r' = r
    BY <1>0, <1>2, CountUpMoves
  <2>2. pending' = pending /\ validCount' = validCount + 1
    BY <1>2 DEF CountUp
  <2> HIDE DEF s, r, n
  <2>3. /\ validCount' + s' >= pending' + r'
        /\ validCount' + s' + 1 <= pending' + r' + n
    BY <1>0, <1>n, <1>i, <2>1, <2>2
  <2> QED BY <2>3, <1>t DEF s, r, n
<1>3. ASSUME NEW t \in Thread, Withdraw(t) PROVE NeverUndercounts' /\ DriftBounded'
  <2>1. s' = s /\ r' = r + 1
    BY <1>0, <1>3, WithdrawMoves
  <2>2. pending' = pending - 1 /\ validCount' = validCount
    BY <1>3 DEF Withdraw
  <2> HIDE DEF s, r, n
  <2>3. /\ validCount' + s' >= pending' + r'
        /\ validCount' + s' + 1 <= pending' + r' + n
    BY <1>0, <1>n, <1>i, <2>1, <2>2
  <2> QED BY <2>3, <1>t DEF s, r, n
<1>4. ASSUME NEW t \in Thread, CountDown(t) PROVE NeverUndercounts' /\ DriftBounded'
  <2>1. s' = s /\ r' = r - 1
    BY <1>0, <1>4, CountDownMoves
  <2>2. /\ pending' = pending
        /\ validCount' = IF validCount > 0 THEN validCount - 1 ELSE validCount
    BY <1>4 DEF CountDown
  <2>3. r >= 1
    <3>1. t \in Received
      BY <1>4 DEF CountDown, Received
    <3> QED BY <3>1, <1>0, <1>n, Counts, FS_EmptySet
  <2> HIDE DEF s, r, n
  <2>4. CASE validCount > 0
    <3>1. /\ validCount' + s' >= pending' + r'
          /\ validCount' + s' + 1 <= pending' + r' + n
      BY <1>0, <1>n, <1>i, <2>1, <2>2, <2>4
    <3> QED BY <3>1, <1>t DEF s, r, n
  \* The skipped decrement: at most n - 1 senders can owe an increment.
  <2>5. CASE validCount = 0
    <3>1. /\ validCount' + s' >= pending' + r'
          /\ validCount' + s' + 1 <= pending' + r' + n
      BY <1>0, <1>n, <1>i, <2>1, <2>2, <2>3, <2>5
    <3> QED BY <3>1, <1>t DEF s, r, n
  <2> QED BY <2>4, <2>5, <1>0
<1>5. ASSUME \/ \E t \in Thread : BlockOnFull(t) \/ BlockOnEmpty(t)
             \/ SendFromInterrupt
             \/ UNCHANGED vars
      PROVE  NeverUndercounts' /\ DriftBounded'
  <2>1. s' = s /\ r' = r
    BY <1>0, <1>5, OthersStay
  <2>2. \/ pending' = pending + 1 /\ validCount' = validCount + 1
        \/ pending' = pending /\ validCount' = validCount
    BY <1>5 DEF BlockOnFull, BlockOnEmpty, SendFromInterrupt, vars
  <2> HIDE DEF s, r, n
  <2>3. /\ validCount' + s' >= pending' + r'
        /\ validCount' + s' + 1 <= pending' + r' + n
    BY <1>0, <1>n, <1>i, <2>1, <2>2
  <2> QED BY <2>3, <1>t DEF s, r, n
<1> QED BY <1>1, <1>2, <1>3, <1>4, <1>5 DEF Next

\* validCount never falls behind the messages in the box.
THEOREM CountNeverUndercounts == Spec => []NeverUndercounts
<1>1. CountInv => NeverUndercounts
  BY DEF CountInv
<1> QED BY CountInit, CountStep, TypeCorrect, <1>1, PTL DEF Spec

\* The upward drift of validCount is bounded for the whole session.
THEOREM CountDriftBounded == Spec => []DriftBounded
<1>1. CountInv => DriftBounded
  BY DEF CountInv
<1> QED BY CountInit, CountStep, TypeCorrect, <1>1, PTL DEF Spec

\* A poller that finds validCount at zero while no call is in flight has
\* missed no message.
THEOREM PollSound == Spec => []NoHiddenMessage
<1>1. CountInv => NoHiddenMessage
  <2> SUFFICES ASSUME CountInv, Quiet, validCount = 0 PROVE pending = 0
    BY DEF NoHiddenMessage
  <2>1. Sent = {} /\ Received = {}
    BY DEF Quiet
  <2>2. Cardinality(Sent) = 0 /\ Cardinality(Received) = 0
    BY <2>1, FS_EmptySet
  <2> QED BY <2>2, QueueAssumption DEF CountInv, NeverUndercounts, TypeOK
<1> QED BY CountInit, CountStep, TypeCorrect, <1>1, PTL DEF Spec
=============================================================================
