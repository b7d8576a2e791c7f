--------------------------- MODULE FrameLoopProofs ---------------------------
(***************************************************************************)
(* FrameLoop for every queue length, priority and rate bound the           *)
(* assumptions allow: type correctness, that a submitted frame is in one   *)
(* place until it is answered, that no list is walked while the game       *)
(* thread changes what it points at, that the loop implements FrameCap,    *)
(* and that two drawn frames in a row never cost a single field each.      *)
(***************************************************************************)
EXTENDS FrameLoop, TLAPS

(***************************************************************************)
(* What each message does to interruptQ, seen through FrameQueued.         *)
(***************************************************************************)
QueueTyped == interruptQ \in Seq({"retrace", "frame"})

SingleFrame ==
    \A i, j \in 1 .. Len(interruptQ) :
        interruptQ[i] = "frame" /\ interruptQ[j] = "frame" => i = j

LEMMA AppendMoves ==
  ASSUME NEW m \in {"retrace", "frame"}, QueueTyped, SingleFrame,
         m = "frame" => ~FrameQueued,
         interruptQ' = Append(interruptQ, m)
  PROVE  /\ QueueTyped'
         /\ SingleFrame'
         /\ FrameQueued' <=> FrameQueued \/ m = "frame"
         /\ Len(interruptQ') = Len(interruptQ) + 1
<1> DEFINE n == Len(interruptQ)
<1>1. n \in Nat /\ Len(interruptQ') = n + 1 /\ QueueTyped'
  BY DEF QueueTyped
<1>2. interruptQ'[n + 1] = m /\ \A i \in 1 .. n : interruptQ'[i] = interruptQ[i]
  BY DEF QueueTyped
<1>3. FrameQueued' <=> FrameQueued \/ m = "frame"
  BY <1>1, <1>2 DEF FrameQueued
<1>4. SingleFrame'
  BY <1>1, <1>2 DEF SingleFrame, FrameQueued
<1> QED BY <1>1, <1>3, <1>4

LEMMA TailMoves ==
  ASSUME QueueTyped, SingleFrame, interruptQ # <<>>,
         interruptQ' = Tail(interruptQ)
  PROVE  /\ QueueTyped'
         /\ SingleFrame'
         /\ Head(interruptQ) = "frame" => FrameQueued /\ ~FrameQueued'
         /\ Head(interruptQ) # "frame" => (FrameQueued' <=> FrameQueued)
         /\ Len(interruptQ') = Len(interruptQ) - 1
<1> DEFINE n == Len(interruptQ)
<1>1. n \in Nat \ {0} /\ Len(interruptQ') = n - 1 /\ QueueTyped'
  BY DEF QueueTyped
<1>2. Head(interruptQ) = interruptQ[1]
      /\ \A i \in 1 .. n - 1 : interruptQ'[i] = interruptQ[i + 1]
  BY <1>1 DEF QueueTyped
<1>3. SingleFrame'
  BY <1>1, <1>2 DEF SingleFrame
<1>4. \A i \in 2 .. n : interruptQ[i] = interruptQ'[i - 1] /\ i - 1 \in 1 .. n - 1
  BY <1>1, <1>2
<1>5. ASSUME Head(interruptQ) = "frame" PROVE FrameQueued /\ ~FrameQueued'
  <2>1. FrameQueued
    BY <1>1, <1>2, <1>5 DEF FrameQueued
  <2>2. \A i \in 1 .. n - 1 : i + 1 \in 1 .. n /\ i + 1 # 1
    BY <1>1
  <2>3. ~FrameQueued'
    BY <1>1, <1>2, <1>5, <2>2 DEF FrameQueued, SingleFrame
  <2> QED BY <2>1, <2>3
<1>6. ASSUME Head(interruptQ) # "frame" PROVE FrameQueued' <=> FrameQueued
  <2>1. FrameQueued' => FrameQueued
    BY <1>1, <1>2 DEF FrameQueued
  <2>2. FrameQueued => FrameQueued'
    <3> SUFFICES ASSUME NEW i \in 1 .. n, interruptQ[i] = "frame"
                 PROVE  FrameQueued'
      BY DEF FrameQueued
    <3>1. i \in 2 .. n
      BY <1>1, <1>2, <1>6
    <3> QED BY <3>1, <1>1, <1>4 DEF FrameQueued
  <2> QED BY <2>1, <2>2
<1> QED BY <1>1, <1>3, <1>5, <1>6

-----------------------------------------------------------------------------
(***************************************************************************)
(* Type correctness: no queue grows past its length, whatever overtakes    *)
(* what.                                                                   *)
(***************************************************************************)
USE FrameLoopAssumption DEF FrameLoopAssumption

LEMMA TypeInit == Init => TypeOK
<1> SUFFICES ASSUME Init PROVE TypeOK
  OBVIOUS
<1>1. interruptQ \in Seq({"retrace", "frame"}) /\ Len(interruptQ) = 0
  BY DEF Init
<1>2. unkTask \in BOOLEAN /\ running \in BOOLEAN /\ skipGfx \in BOOLEAN
  BY DEF Init
<1> QED BY <1>1, <1>2 DEF Init, TypeOK

LEMMA AwaitTyped ==
  ASSUME TypeOK, AwaitFrame
  PROVE  running' \in BOOLEAN /\ gfxQ' \in 0 .. ClientDepth
<1>1. CASE AwaitsFrame
  <2>1. running' \in BOOLEAN
    BY <1>1 DEF AwaitFrame
  <2>2. gfxQ' \in 0 .. ClientDepth
    BY <1>1 DEF AwaitFrame, TypeOK
  <2> QED BY <2>1, <2>2
<1>2. CASE ~AwaitsFrame
  <2>1. gfxQ' = gfxQ /\ running' = running
    BY <1>2 DEF AwaitFrame
  <2> QED BY <2>1 DEF TypeOK
<1> QED BY <1>1, <1>2

LEMMA TypeStep == TypeOK /\ [Next]_vars => TypeOK'
<1> SUFFICES ASSUME TypeOK, [Next]_vars PROVE TypeOK'
  OBVIOUS
<1> USE DEF TypeOK
<1>1. CASE Retrace
  BY <1>1 DEF Retrace, schedVars, audioVars, gameVars
<1>2. CASE SchedNext
  <2> USE DEF audioVars, gameVars, TakeInterrupt, Posted
  <2>1. CASE HandleRetrace
    BY <2>1 DEF HandleRetrace, StillHeld, HeldReleased, Counted
  <2>2. CASE WalkFrame
    BY <2>2 DEF WalkFrame
  <2>3. CASE CompleteFrame
    <3>1. CASE PastCap
      BY <2>3, <3>1 DEF CompleteFrame
    <3>2. CASE ~PastCap
      <4>1. unkTask' \in BOOLEAN
        BY <2>3, <3>2 DEF CompleteFrame
      <4> QED BY <2>3, <3>2, <4>1 DEF CompleteFrame
    <3> QED BY <3>1, <3>2
  <2>4. CASE DrainCmdQueue
    BY <2>4 DEF DrainCmdQueue, AudioTaskWaiting
  <2> QED BY <1>2, <2>1, <2>2, <2>3, <2>4 DEF SchedNext
<1>3. CASE AudioNext
  <2> USE DEF schedVars, gameVars, Posted
  <2>1. CASE TakeAudioFrame
    BY <2>1 DEF TakeAudioFrame
  <2>2. CASE SubmitAudio
    BY <2>2 DEF SubmitAudio
  <2>3. CASE TakeAudioReply
    BY <2>3 DEF TakeAudioReply
  <2> QED BY <1>3, <2>1, <2>2, <2>3 DEF AudioNext
<1>4. CASE GameNext
  <2> USE DEF GameStep, schedVars, audioVars
  <2>1. CASE SubmitFrame
    BY <2>1 DEF SubmitFrame
  <2>2. CASE Resume
    BY <2>2 DEF Resume
  <2>3. CASE SkipFrame
    BY <2>3 DEF SkipFrame
  <2>4. CASE Blackout
    BY <2>4 DEF Blackout
  <2>5. CASE BeginUnload
    BY <2>5 DEF BeginUnload
  <2>6. CASE UnloadLevelGame
    <3>1. running' \in BOOLEAN /\ gfxQ' \in 0 .. ClientDepth
      BY <2>6, AwaitTyped DEF UnloadLevelGame
    <3>2. skipGfx' \in BOOLEAN
      BY <2>6 DEF UnloadLevelGame
    <3> QED BY <2>6, <3>1, <3>2 DEF UnloadLevelGame
  <2>7. CASE UnloadLevelMenu
    BY <2>7 DEF UnloadLevelMenu
  <2>8. CASE LoadLevel
    BY <2>8 DEF LoadLevel
  <2>9. CASE FinishBuild
    BY <2>9 DEF FinishBuild
  <2>10. CASE EndFrame
    <3>1. running' \in BOOLEAN /\ gfxQ' \in 0 .. ClientDepth
      BY <2>10, AwaitTyped DEF EndFrame
    <3>2. skipGfx' \in BOOLEAN
      BY <2>10 DEF EndFrame
    <3> QED BY <2>10, <3>1, <3>2 DEF EndFrame
  <2>11. CASE MeasureFrame
    BY <2>11 DEF MeasureFrame
  <2>12. CASE PaceFrame
    BY <2>12 DEF PaceFrame
  <2>13. CASE SwapFrame
    BY <2>13 DEF SwapFrame
  <2> QED BY <1>4, <2>1, <2>2, <2>3, <2>4, <2>5, <2>6, <2>7, <2>8, <2>9, <2>10, <2>11, <2>12, <2>13 DEF GameNext
<1>5. CASE UNCHANGED vars
  BY <1>5 DEF vars, schedVars, audioVars, gameVars, queues
<1> QED BY <1>1, <1>2, <1>3, <1>4, <1>5 DEF Next

\* Every variable keeps its type, and every queue its length.
THEOREM TypeCorrect == Spec => []TypeOK
BY TypeInit, TypeStep, PTL DEF Spec

-----------------------------------------------------------------------------
(***************************************************************************)
(* The frame in flight.  OneFrameInFlight is not inductive alone: a second *)
(* frame could be submitted while one is out unless the loop has always    *)
(* waited for the first by then, which hangs on the two flags that let the *)
(* loop skip the wait; and a list could be freed while it is walked unless *)
(* the walk happens while the game thread is still inside its send.        *)
(***************************************************************************)
FrameOnce ==
    /\ running <=> FrameQueued \/ sched = "walk" \/ unkTask \/ gfxQ > 0
    /\ ~(FrameQueued /\ sched = "walk")
    /\ ~(FrameQueued /\ unkTask)
    /\ ~(FrameQueued /\ gfxQ > 0)
    /\ ~(sched = "walk" /\ unkTask)
    /\ ~(sched = "walk" /\ gfxQ > 0)
    /\ ~(unkTask /\ gfxQ > 0)
    /\ SingleFrame
    /\ gfxQ <= 1

AwaitedInTime ==
    /\ game \in {"top", "fb", "pace"} => ~running
    /\ running => drawTimer # 1 /\ ~skipGfx
    /\ skipGfx => game \notin {"top", "sent", "fb", "pace"}

WalkedDuringSend == FrameQueued \/ sched = "walk" => game = "sent"

FrameInv == TypeOK /\ FrameOnce /\ AwaitedInTime /\ WalkedDuringSend

LEMMA OnceMeansOnePlace == FrameOnce => OneFrameInFlight
<1> SUFFICES ASSUME FrameOnce PROVE OneFrameInFlight
  OBVIOUS
<1>1. "queued" \in FramePlaces <=> FrameQueued
  BY DEF FramePlaces
<1>2. "walking" \in FramePlaces <=> sched = "walk"
  BY DEF FramePlaces
<1>3. "held" \in FramePlaces <=> unkTask
  BY DEF FramePlaces
<1>4. "answered" \in FramePlaces <=> gfxQ > 0
  BY DEF FramePlaces
<1>5. FramePlaces \subseteq {"queued", "walking", "held", "answered"}
  BY DEF FramePlaces
<1>6. running <=> FramePlaces # {}
  BY <1>1, <1>2, <1>3, <1>4, <1>5 DEF FrameOnce
<1>7. \A p, q \in FramePlaces : p = q
  BY <1>1, <1>2, <1>3, <1>4, <1>5 DEF FrameOnce
<1> QED BY <1>6, <1>7 DEF FrameOnce, SingleFrame, OneFrameInFlight

LEMMA FrameInvInit == Init => FrameInv
<1> SUFFICES ASSUME Init PROVE FrameInv
  OBVIOUS
<1>1. Len(interruptQ) = 0
  BY DEF Init
<1>2. ~FrameQueued /\ SingleFrame
  BY <1>1 DEF FrameQueued, SingleFrame
<1>3. FrameOnce
  BY <1>2 DEF Init, FrameOnce
<1>4. AwaitedInTime /\ WalkedDuringSend
  BY <1>2 DEF Init, AwaitedInTime, WalkedDuringSend
<1> QED BY <1>3, <1>4, TypeInit DEF FrameInv

\* A step that leaves interruptQ alone leaves the frame in it alone.
LEMMA QueueStays ==
  ASSUME UNCHANGED interruptQ
  PROVE  (FrameQueued' <=> FrameQueued) /\ (SingleFrame' <=> SingleFrame)
BY DEF FrameQueued, SingleFrame

LEMMA FrameInvRetrace == FrameInv /\ Retrace => FrameInv'
<1> SUFFICES ASSUME FrameInv, Retrace PROVE FrameInv'
  OBVIOUS
<1>1. TypeOK'
  BY TypeStep DEF FrameInv, Next
<1>2. (FrameQueued' <=> FrameQueued) /\ SingleFrame'
  <2>1. CASE Len(interruptQ) < QueueDepth
    BY <2>1, AppendMoves, "retrace" # "frame" DEF Retrace, FrameInv, TypeOK, FrameOnce, QueueTyped
  <2>2. CASE ~(Len(interruptQ) < QueueDepth)
    BY <2>2, QueueStays DEF Retrace, FrameInv, FrameOnce
  <2> QED BY <2>1, <2>2
<1>3. UNCHANGED <<sched, unkTask, gfxQ, running, game, drawTimer, skipGfx>>
  BY DEF Retrace, schedVars, gameVars
<1> QED BY <1>1, <1>2, <1>3 DEF FrameInv, FrameOnce, AwaitedInTime, WalkedDuringSend

LEMMA FrameInvSched == FrameInv /\ SchedNext => FrameInv'
<1> SUFFICES ASSUME FrameInv, SchedNext PROVE FrameInv'
  OBVIOUS
<1> DEFINE Others == <<running, game, drawTimer, skipGfx>>
<1>1. TypeOK'
  BY TypeStep DEF FrameInv, Next
<1>2. QueueTyped /\ SingleFrame
  BY DEF FrameInv, FrameOnce, TypeOK, QueueTyped
<1>3. CASE HandleRetrace
  <2>1. (FrameQueued' <=> FrameQueued) /\ SingleFrame'
    BY <1>2, <1>3, TailMoves, "retrace" # "frame" DEF HandleRetrace, TakeInterrupt
  <2>2. UNCHANGED Others
    BY <1>3 DEF HandleRetrace, gameVars
  <2>3. sched = "wait" /\ sched' = "drain"
    BY <1>3 DEF HandleRetrace, TakeInterrupt
  <2>4. CASE HeldReleased
    <3>1. unkTask /\ ~unkTask' /\ gfxQ = 0
      <4>1. unkTask
        BY <2>4 DEF HeldReleased
      <4>2. ~unkTask'
        BY <1>3, <2>4 DEF HandleRetrace, StillHeld
      <4>3. gfxQ = 0
        BY <4>1 DEF FrameInv, FrameOnce, TypeOK
      <4> QED BY <4>1, <4>2, <4>3
    <3>2. gfxQ' = 1
      BY <1>3, <2>4, <3>1 DEF HandleRetrace, Posted
    <3> QED BY <1>1, <2>1, <2>2, <2>3, <3>1, <3>2
            DEF FrameInv, FrameOnce, AwaitedInTime, WalkedDuringSend
  <2>5. CASE ~HeldReleased
    <3>1. (unkTask' <=> unkTask) /\ gfxQ' = gfxQ
      BY <1>3, <2>5 DEF HandleRetrace, StillHeld
    <3> QED BY <1>1, <2>1, <2>2, <2>3, <3>1
            DEF FrameInv, FrameOnce, AwaitedInTime, WalkedDuringSend
  <2> QED BY <2>4, <2>5
<1>4. CASE WalkFrame
  <2>1. FrameQueued /\ ~FrameQueued' /\ SingleFrame'
    BY <1>2, <1>4, TailMoves DEF WalkFrame, TakeInterrupt
  <2>2. UNCHANGED Others /\ UNCHANGED <<unkTask, gfxQ>>
    BY <1>4 DEF WalkFrame, gameVars
  <2>3. sched' = "walk"
    BY <1>4 DEF WalkFrame
  <2> QED BY <1>1, <2>1, <2>2, <2>3
          DEF FrameInv, FrameOnce, AwaitedInTime, WalkedDuringSend
<1>5. CASE CompleteFrame
  <2>1. (FrameQueued' <=> FrameQueued) /\ (SingleFrame' <=> SingleFrame)
    BY <1>5, QueueStays DEF CompleteFrame
  <2>2. UNCHANGED Others
    BY <1>5 DEF CompleteFrame, gameVars
  <2>3. sched = "walk" /\ sched' = "drain"
    BY <1>5 DEF CompleteFrame
  <2>4. ~FrameQueued /\ ~unkTask /\ gfxQ = 0 /\ running
    BY <2>3 DEF FrameInv, FrameOnce, TypeOK
  <2>5. \/ unkTask' /\ gfxQ' = 0
        \/ ~unkTask' /\ gfxQ' = 1
    BY <1>5, <2>4 DEF CompleteFrame, Posted
  <2> QED BY <1>1, <1>2, <2>1, <2>2, <2>3, <2>4, <2>5
          DEF FrameInv, FrameOnce, AwaitedInTime, WalkedDuringSend
<1>6. CASE DrainCmdQueue
  <2>1. (FrameQueued' <=> FrameQueued) /\ (SingleFrame' <=> SingleFrame)
    BY <1>6, QueueStays DEF DrainCmdQueue
  <2>2. UNCHANGED Others /\ UNCHANGED <<unkTask, gfxQ>>
    BY <1>6 DEF DrainCmdQueue, gameVars
  <2>3. sched # "walk" /\ sched' # "walk"
    BY <1>6 DEF DrainCmdQueue
  <2> QED BY <1>1, <1>2, <2>1, <2>2, <2>3
          DEF FrameInv, FrameOnce, AwaitedInTime, WalkedDuringSend
<1> QED BY <1>3, <1>4, <1>5, <1>6 DEF SchedNext

LEMMA FrameInvAudio == FrameInv /\ AudioNext => FrameInv'
<1> SUFFICES ASSUME FrameInv, AudioNext PROVE FrameInv'
  OBVIOUS
<1>1. TypeOK'
  BY TypeStep DEF FrameInv, Next
<1>2. UNCHANGED <<interruptQ, sched, unkTask, gfxQ, running, game, drawTimer,
                  skipGfx>>
  BY DEF AudioNext, TakeAudioFrame, SubmitAudio, TakeAudioReply, schedVars, gameVars
<1> QED BY <1>1, <1>2, QueueStays
        DEF FrameInv, FrameOnce, AwaitedInTime, WalkedDuringSend

\* The game thread runs only while the scheduler waits for a message: what
\* the order of the two priorities buys.
LEMMA GameRunsWhenIdle ==
  ASSUME CanRun("game")
  PROVE  sched = "wait" /\ interruptQ = <<>>
<1>1. Priority["sched"] \in 0 .. 255 /\ Priority["game"] \in 0 .. 255
  BY DEF Thread
<1>2. LwpPriority(Priority["sched"]) > LwpPriority(Priority["game"])
  <2> DEFINE s == Priority["sched"]  g == Priority["game"]
  <2>1. s \in Nat /\ g \in Nat /\ g < s /\ s <= 127 /\ g >= 1
    BY <1>1, PriorityAssumption
  <2> HIDE DEF s, g
  <2>2. LwpPriority(s) = s /\ LwpPriority(g) = g
    BY <2>1 DEF LwpPriority
  <2>3. LwpPriority(s) > LwpPriority(g)
    BY <2>1, <2>2
  <2> QED BY <2>3 DEF s, g
<1>3. ~Runnable("sched")
  BY <1>2 DEF CanRun, Thread
<1> QED BY <1>3 DEF Runnable

LEMMA FrameInvGame == FrameInv /\ GameNext => FrameInv'
<1> SUFFICES ASSUME FrameInv, GameNext PROVE FrameInv'
  OBVIOUS
<1> USE DEF GameStep, schedVars
<1>1. TypeOK'
  BY TypeStep DEF FrameInv, Next
<1>2. UNCHANGED <<sched, unkTask>>
  BY DEF GameNext, SubmitFrame, Resume, SkipFrame, Blackout, BeginUnload,
         UnloadLevelGame, UnloadLevelMenu, LoadLevel, FinishBuild, EndFrame,
         MeasureFrame, PaceFrame, SwapFrame
<1>3. CASE SubmitFrame
  <2>1. ~running /\ ~skipGfx
    BY <1>3 DEF SubmitFrame, FrameInv, AwaitedInTime
  <2>2. ~FrameQueued /\ sched # "walk" /\ ~unkTask /\ gfxQ = 0
    BY <2>1 DEF FrameInv, FrameOnce, TypeOK
  <2>3. FrameQueued' /\ SingleFrame'
    BY <1>3, <2>2, AppendMoves DEF SubmitFrame, FrameInv, FrameOnce, TypeOK, QueueTyped
  <2>4. running' /\ game' = "sent" /\ drawTimer' = 0 /\ ~skipGfx' /\ gfxQ' = gfxQ
    BY <1>3, <2>1 DEF SubmitFrame
  <2> QED BY <1>1, <1>2, <2>2, <2>3, <2>4
          DEF FrameInv, FrameOnce, AwaitedInTime, WalkedDuringSend
<1>4. ASSUME UNCHANGED <<interruptQ, gfxQ>>, CanRun("game"),
             running' <=> running,
             AwaitedInTime'
      PROVE  FrameInv'
  <2>1. FrameOnce'
    BY <1>2, <1>4, QueueStays DEF FrameInv, FrameOnce
  <2>2. WalkedDuringSend'
    BY <1>2, <1>4, GameRunsWhenIdle DEF WalkedDuringSend, FrameQueued
  <2> QED BY <1>1, <1>4, <2>1, <2>2 DEF FrameInv
<1>5. CASE Resume
  BY <1>5, <1>4 DEF Resume, FrameInv, AwaitedInTime
<1>6. CASE SkipFrame
  BY <1>6, <1>4 DEF SkipFrame, FrameInv, AwaitedInTime
<1>7. CASE Blackout
  BY <1>7, <1>4 DEF Blackout, FrameInv, AwaitedInTime
<1>8. CASE BeginUnload
  BY <1>8, <1>4 DEF BeginUnload, FrameInv, AwaitedInTime
<1>9. CASE UnloadLevelMenu
  BY <1>9, <1>4 DEF UnloadLevelMenu, FrameInv, AwaitedInTime
<1>10. CASE LoadLevel
  BY <1>10, <1>4 DEF LoadLevel, FrameInv, AwaitedInTime
<1>11. CASE FinishBuild
  BY <1>11, <1>4 DEF FinishBuild, FrameInv, AwaitedInTime
<1>12. CASE MeasureFrame
  BY <1>12, <1>4 DEF MeasureFrame, FrameInv, AwaitedInTime
<1>13. CASE PaceFrame
  BY <1>13, <1>4 DEF PaceFrame, FrameInv, AwaitedInTime
<1>14. CASE SwapFrame
  BY <1>14, <1>4 DEF SwapFrame, FrameInv, AwaitedInTime
<1>15. ASSUME AwaitFrame, CanRun("game"), UNCHANGED interruptQ
       PROVE  FrameOnce' /\ WalkedDuringSend' /\ ~running'
  <2>1. WalkedDuringSend'
    BY <1>2, <1>15, GameRunsWhenIdle DEF WalkedDuringSend, FrameQueued
  <2>2. CASE AwaitsFrame
    <3>1. gfxQ = 1 /\ gfxQ' = 0 /\ ~running'
      BY <1>15, <2>2 DEF AwaitFrame, FrameInv, FrameOnce, TypeOK
    <3>2. ~FrameQueued /\ sched # "walk" /\ ~unkTask
      BY <3>1 DEF FrameInv, FrameOnce
    <3> QED BY <1>2, <1>15, <2>1, <3>1, <3>2, QueueStays DEF FrameInv, FrameOnce
  <2>3. CASE ~AwaitsFrame
    <3>1. ~running
      BY <2>3 DEF AwaitsFrame, FrameInv, AwaitedInTime
    <3>2. gfxQ' = gfxQ /\ running' = running
      BY <1>15, <2>3 DEF AwaitFrame
    <3> QED BY <1>2, <1>15, <2>1, <3>1, <3>2, QueueStays DEF FrameInv, FrameOnce
  <2> QED BY <2>2, <2>3
<1>16. CASE UnloadLevelGame
  <2>1. FrameOnce' /\ WalkedDuringSend' /\ ~running'
    BY <1>15, <1>16 DEF UnloadLevelGame
  <2>2. game' = "free"
    BY <1>16 DEF UnloadLevelGame
  <2> QED BY <1>1, <2>1, <2>2 DEF FrameInv, AwaitedInTime
<1>17. CASE EndFrame
  <2>1. FrameOnce' /\ WalkedDuringSend' /\ ~running'
    BY <1>15, <1>17 DEF EndFrame
  <2>2. ~skipGfx'
    BY <1>17 DEF EndFrame
  <2> QED BY <1>1, <2>1, <2>2 DEF FrameInv, AwaitedInTime
<1> QED BY <1>3, <1>5, <1>6, <1>7, <1>8, <1>9, <1>10, <1>11, <1>12, <1>13,
           <1>14, <1>16, <1>17 DEF GameNext

LEMMA FrameInvStep == FrameInv /\ [Next]_vars => FrameInv'
<1> SUFFICES ASSUME FrameInv, [Next]_vars PROVE FrameInv'
  OBVIOUS
<1>1. CASE UNCHANGED vars
  BY <1>1, QueueStays, TypeStep
  DEF vars, schedVars, gameVars, queues, FrameInv, FrameOnce, AwaitedInTime,
      WalkedDuringSend
<1> QED BY <1>1, FrameInvRetrace, FrameInvSched, FrameInvAudio, FrameInvGame DEF Next

\* The strengthening the two theorems below and the refinement rest on.
THEOREM FrameInvariant == Spec => []FrameInv
BY FrameInvInit, FrameInvStep, PTL DEF Spec

\* One answer per frame and no frame lost, overwritten or answered twice.
THEOREM FramesAnsweredOnce == Spec => []OneFrameInFlight
<1>1. FrameInv => OneFrameInFlight
  BY OnceMeansOnePlace DEF FrameInv
<1> QED BY <1>1, FrameInvariant, PTL

\* Nothing is built or freed under a display list being walked.
THEOREM ListsIntact == Spec => []WalkedListIntact
<1>1. FrameInv => WalkedListIntact
  BY DEF FrameInv, WalkedDuringSend, WalkedListIntact
<1> QED BY <1>1, FrameInvariant, PTL

-----------------------------------------------------------------------------
(***************************************************************************)
(* The refinement of FrameCap: submitting is Submit, a retrace that is     *)
(* handled is Retrace or AnswerOnRetrace, completing a frame is Answer or  *)
(* nothing, and everything else is nothing.                                *)
(***************************************************************************)
Waiting == FrameQueued \/ sched = "walk" \/ unkTask

LEMMA CapInit == Init => Cap!Init
<1> SUFFICES ASSUME Init PROVE Cap!Init
  OBVIOUS
<1>1. ~FrameQueued
  BY DEF Init, FrameQueued
<1> QED BY <1>1 DEF Init, Cap!Init

LEMMA CapStutter ==
  ASSUME Waiting' <=> Waiting, frameCount' = frameCount
  PROVE  UNCHANGED Cap!vars
BY DEF Waiting, Cap!vars

LEMMA CapStep == FrameInv /\ [Next]_vars => [Cap!Next]_(Cap!vars)
<1> SUFFICES ASSUME FrameInv, [Next]_vars PROVE [Cap!Next]_(Cap!vars)
  OBVIOUS
<1>1. QueueTyped /\ SingleFrame /\ frameCount \in 0 .. 2
  BY DEF FrameInv, FrameOnce, TypeOK, QueueTyped
<1>2. CASE HandleRetrace
  <2>1. FrameQueued' <=> FrameQueued
    BY <1>1, <1>2, TailMoves, "retrace" # "frame" DEF HandleRetrace, TakeInterrupt
  <2>2. sched # "walk" /\ sched' # "walk"
    BY <1>2 DEF HandleRetrace, TakeInterrupt
  <2>3. CASE HeldReleased
    <3>1. unkTask /\ Counted = 2
      BY <2>3 DEF HeldReleased
    <3>2. ~unkTask' /\ frameCount' = 0
      BY <1>2, <2>3 DEF HandleRetrace, StillHeld
    <3>3. ~FrameQueued
      BY <3>1 DEF FrameInv, FrameOnce
    <3> QED BY <1>1, <2>1, <2>2, <3>1, <3>2, <3>3
            DEF Cap!Next, Cap!AnswerOnRetrace, Cap!Passed, Counted
  <2>4. CASE ~HeldReleased
    <3>1. (unkTask' <=> unkTask) /\ frameCount' = Counted
      BY <1>2, <2>4 DEF HandleRetrace, StillHeld
    <3> QED BY <1>1, <2>1, <2>2, <3>1 DEF Cap!Next, Cap!Retrace, Cap!Passed, Counted
  <2> QED BY <2>3, <2>4
<1>3. CASE WalkFrame
  <2>1. FrameQueued
    BY <1>1, <1>3, TailMoves DEF WalkFrame, TakeInterrupt
  <2>2. Waiting /\ Waiting' /\ frameCount' = frameCount
    BY <1>3, <2>1 DEF WalkFrame, Waiting
  <2> QED BY <2>2, CapStutter
<1>4. CASE CompleteFrame
  <2>1. sched = "walk" /\ sched' # "walk"
    BY <1>4 DEF CompleteFrame
  <2>2. ~FrameQueued /\ ~FrameQueued' /\ ~unkTask
    BY <1>4, <2>1, QueueStays DEF CompleteFrame, FrameInv, FrameOnce
  <2>3. CASE PastCap
    <3>1. frameCount = 2 /\ frameCount' = 0 /\ ~unkTask'
      BY <1>1, <1>4, <2>2, <2>3 DEF CompleteFrame, PastCap
    <3> QED BY <2>1, <2>2, <3>1 DEF Cap!Next, Cap!Answer
  <2>4. CASE ~PastCap
    <3>1. Waiting /\ Waiting' /\ frameCount' = frameCount
      BY <1>4, <2>1, <2>4 DEF CompleteFrame, Waiting
    <3> QED BY <3>1, CapStutter
  <2> QED BY <2>3, <2>4
<1>5. CASE SubmitFrame
  <2>1. ~Waiting
    BY <1>5 DEF SubmitFrame, GameStep, FrameInv, FrameOnce, AwaitedInTime, Waiting
  <2>2. FrameQueued'
    BY <1>1, <1>5, <2>1, AppendMoves DEF SubmitFrame, Waiting
  <2>3. UNCHANGED <<sched, unkTask, frameCount>>
    BY <1>5 DEF SubmitFrame, GameStep, schedVars
  <2> QED BY <2>1, <2>2, <2>3 DEF Cap!Next, Cap!Submit, Waiting
<1>6. ASSUME UNCHANGED <<sched, unkTask, frameCount>>, FrameQueued' <=> FrameQueued
      PROVE  UNCHANGED Cap!vars
  BY <1>6, CapStutter DEF Waiting
<1>7. CASE Retrace
  <2>1. UNCHANGED <<sched, unkTask, frameCount>>
    BY <1>7 DEF Retrace, schedVars
  <2>2. FrameQueued' <=> FrameQueued
    <3>1. CASE Len(interruptQ) < QueueDepth
      BY <1>1, <1>7, <3>1, AppendMoves, "retrace" # "frame" DEF Retrace
    <3>2. CASE ~(Len(interruptQ) < QueueDepth)
      BY <1>7, <3>2, QueueStays DEF Retrace
    <3> QED BY <3>1, <3>2
  <2> QED BY <1>6, <2>1, <2>2
<1>8. CASE DrainCmdQueue
  <2>1. sched # "walk" /\ sched' # "walk" /\ UNCHANGED <<unkTask, frameCount>>
    BY <1>8 DEF DrainCmdQueue
  <2>2. FrameQueued' <=> FrameQueued
    BY <1>8, QueueStays DEF DrainCmdQueue
  <2>3. Waiting' <=> Waiting
    BY <2>1, <2>2 DEF Waiting
  <2> QED BY <2>1, <2>3, CapStutter
<1>9. CASE AudioNext
  <2>1. UNCHANGED <<sched, unkTask, frameCount, interruptQ>>
    BY <1>9 DEF AudioNext, TakeAudioFrame, SubmitAudio, TakeAudioReply, schedVars
  <2> QED BY <1>6, <2>1, QueueStays
<1>10. CASE GameNext /\ ~SubmitFrame
  <2>1. UNCHANGED <<sched, unkTask, frameCount, interruptQ>>
    BY <1>10 DEF GameNext, Resume, SkipFrame, Blackout, BeginUnload,
         UnloadLevelGame, UnloadLevelMenu, LoadLevel, FinishBuild, EndFrame,
         MeasureFrame, PaceFrame, SwapFrame, GameStep, schedVars
  <2> QED BY <1>6, <2>1, QueueStays
<1>11. CASE UNCHANGED vars
  BY <1>6, <1>11, QueueStays DEF vars, schedVars, queues
<1> QED BY <1>2, <1>3, <1>4, <1>5, <1>7, <1>8, <1>9, <1>10, <1>11
        DEF Next, SchedNext

\* The scheduler, the audio manager and the game loop together keep FrameCap's
\* promise: no two answers within two retraces.
THEOREM CapImplemented == Spec => CapSpec
BY CapInit, CapStep, FrameInvariant, PTL DEF Spec, CapSpec, Cap!Spec

-----------------------------------------------------------------------------
(***************************************************************************)
(* The pace of the game loop.  Two queues count the same retraces: the     *)
(* scheduler up to two, from its last answer, and the video queue up to    *)
(* its length, from the last one the game loop took.  While a frame waits, *)
(* what the scheduler has counted is covered by what the previous frame    *)
(* has cost and what is still in the video queue; an answer needs a count  *)
(* of two, so by the time the loop measures, the two frames have cost      *)
(* three fields.  A video queue of one message would lose count: a retrace *)
(* it drops is one the scheduler has counted.                              *)
(***************************************************************************)
InFrame == game \in {"sent", "build", "unload", "free", "end", "fb"}

RetracesCovered ==
    /\ InFrame /\ streak >= 1 /\ ~Waiting => frameCount <= videoQ
    /\ InFrame /\ streak = 2 /\ Waiting   => frameCount <= rate + videoQ
    /\ InFrame /\ streak = 2 /\ ~Waiting  => rate + videoQ >= 2
    /\ game = "pace" => rate >= 1
    /\ game = "pace" /\ streak >= 1 => frameCount + 1 <= rate + videoQ
    /\ game = "top" /\ streak >= 1  => frameCount <= rate + videoQ

LEMMA CoveredInit == Init => RetracesCovered
BY DEF Init, RetracesCovered, InFrame

\* Steps that move neither a frame nor a retrace.
LEMMA CoveredStays ==
  ASSUME RetracesCovered, Waiting' <=> Waiting,
         UNCHANGED <<frameCount, videoQ, rate, streak>>,
         \/ game' = game
         \/ InFrame /\ InFrame'
  PROVE  RetracesCovered'
BY DEF RetracesCovered, InFrame

LEMMA CoveredRetrace ==
  FrameInv /\ RetracesCovered /\ ClientDepth >= 2 /\ HandleRetrace => RetracesCovered'
<1> SUFFICES ASSUME FrameInv, RetracesCovered, ClientDepth >= 2, HandleRetrace
             PROVE  RetracesCovered'
  OBVIOUS
<1>1. /\ frameCount \in 0 .. 2 /\ videoQ \in 0 .. ClientDepth
      /\ rate \in Nat /\ streak \in 0 .. 2
  BY DEF FrameInv, TypeOK
<1>2. FrameQueued' <=> FrameQueued
  BY TailMoves, "retrace" # "frame"
  DEF HandleRetrace, TakeInterrupt, FrameInv, FrameOnce, TypeOK, QueueTyped
<1>3. sched # "walk" /\ sched' # "walk" /\ UNCHANGED <<game, rate, streak>>
  BY DEF HandleRetrace, TakeInterrupt, gameVars
<1>4. \/ videoQ' = videoQ + 1
      \/ videoQ' = videoQ /\ videoQ >= 2
  BY <1>1 DEF HandleRetrace, Posted
<1>5. CASE HeldReleased
  <2>1. unkTask /\ Counted = 2
    BY <1>5 DEF HeldReleased
  <2>2. frameCount >= 1 /\ frameCount' = 0 /\ ~unkTask'
    <3>1. ~unkTask'
      BY <1>5 DEF HandleRetrace, StillHeld
    <3>2. frameCount' = 0
      BY <1>5 DEF HandleRetrace
    <3>3. frameCount >= 1
      BY <1>1, <2>1 DEF Counted
    <3> QED BY <3>1, <3>2, <3>3
  <2>3. Waiting /\ ~Waiting'
    BY <1>2, <1>3, <2>1, <2>2 DEF Waiting, FrameInv, FrameOnce
  <2>4. game \notin {"top", "pace"}
    BY <2>1 DEF FrameInv, FrameOnce, AwaitedInTime
  <2> QED BY <1>1, <1>3, <1>4, <2>2, <2>3, <2>4 DEF RetracesCovered, InFrame
<1>6. CASE ~HeldReleased
  <2>1. Waiting' <=> Waiting
    BY <1>2, <1>3, <1>6 DEF HandleRetrace, StillHeld, Waiting
  <2>2. frameCount' \in 0 .. 2 /\ frameCount' <= frameCount + 1
    BY <1>1, <1>6 DEF HandleRetrace, Counted
  <2> QED BY <1>1, <1>3, <1>4, <2>1, <2>2 DEF RetracesCovered, InFrame
<1> QED BY <1>5, <1>6

LEMMA CoveredSched ==
  FrameInv /\ RetracesCovered /\ ClientDepth >= 2 /\ SchedNext => RetracesCovered'
<1> SUFFICES ASSUME FrameInv, RetracesCovered, ClientDepth >= 2, SchedNext
             PROVE  RetracesCovered'
  OBVIOUS
<1>1. CASE WalkFrame
  <2>1. FrameQueued
    BY <1>1, TailMoves
    DEF WalkFrame, TakeInterrupt, FrameInv, FrameOnce, TypeOK, QueueTyped
  <2>2. Waiting /\ Waiting'
    BY <1>1, <2>1 DEF WalkFrame, Waiting
  <2> QED BY <1>1, <2>2, CoveredStays DEF WalkFrame, gameVars
<1>2. CASE CompleteFrame
  <2>1. sched = "walk" /\ sched' # "walk" /\ UNCHANGED <<game, rate, streak, videoQ>>
    BY <1>2 DEF CompleteFrame, gameVars
  <2>2. ~FrameQueued /\ ~FrameQueued' /\ ~unkTask /\ game \notin {"top", "pace"}
    BY <1>2, <2>1, QueueStays
    DEF CompleteFrame, FrameInv, FrameOnce, AwaitedInTime
  <2>3. CASE PastCap
    <3>1. frameCount = 2 /\ frameCount' = 0 /\ Waiting /\ ~Waiting'
      BY <1>2, <2>1, <2>2, <2>3 DEF CompleteFrame, PastCap, Waiting, FrameInv, TypeOK
    <3>2. videoQ \in Nat
      BY DEF FrameInv, TypeOK
    <3> QED BY <2>1, <2>2, <3>1, <3>2 DEF RetracesCovered, InFrame
  <2>4. CASE ~PastCap
    <3>1. Waiting /\ Waiting' /\ frameCount' = frameCount
      BY <1>2, <2>1, <2>4 DEF CompleteFrame, Waiting
    <3> QED BY <2>1, <3>1, CoveredStays
  <2> QED BY <2>3, <2>4
<1>3. CASE DrainCmdQueue
  <2>1. Waiting' <=> Waiting
    BY <1>3, QueueStays DEF DrainCmdQueue, Waiting
  <2> QED BY <1>3, <2>1, CoveredStays DEF DrainCmdQueue, gameVars
<1> QED BY <1>1, <1>2, <1>3, CoveredRetrace DEF SchedNext

\* A frame is out only between its submission and its measurement.
LEMMA OutOfFrame ==
  ASSUME FrameInv, game \in {"top", "fb", "pace"}
  PROVE  ~Waiting
BY DEF FrameInv, FrameOnce, AwaitedInTime, Waiting

LEMMA CoveredGame == FrameInv /\ RetracesCovered /\ GameNext => RetracesCovered'
<1> SUFFICES ASSUME FrameInv, RetracesCovered, GameNext PROVE RetracesCovered'
  OBVIOUS
<1>1. /\ frameCount \in 0 .. 2 /\ videoQ \in Nat
      /\ rate \in Nat /\ streak \in 0 .. 2
  BY DEF FrameInv, TypeOK
<1>2. UNCHANGED <<sched, unkTask, frameCount>>
  BY DEF GameNext, SubmitFrame, Resume, SkipFrame, Blackout, BeginUnload,
         UnloadLevelGame, UnloadLevelMenu, LoadLevel, FinishBuild, EndFrame,
         MeasureFrame, PaceFrame, SwapFrame, GameStep, schedVars
<1>3. CASE SubmitFrame
  <2>1. game = "top" /\ game' = "sent" /\ UNCHANGED <<rate, videoQ>>
        /\ streak' = IF streak < 2 THEN streak + 1 ELSE 2
    BY <1>3 DEF SubmitFrame, GameStep
  <2>2. ~Waiting
    BY <2>1, OutOfFrame
  <2>3. Waiting'
    BY <1>3, <2>2, AppendMoves
    DEF SubmitFrame, Waiting, FrameInv, FrameOnce, TypeOK, QueueTyped
  <2> QED BY <1>1, <1>2, <2>1, <2>3 DEF RetracesCovered, InFrame
<1>4. CASE ~SubmitFrame
  <2>1. UNCHANGED interruptQ
    BY <1>4 DEF GameNext, Resume, SkipFrame, Blackout, BeginUnload,
         UnloadLevelGame, UnloadLevelMenu, LoadLevel, FinishBuild, EndFrame,
         MeasureFrame, PaceFrame, SwapFrame
  <2>2. Waiting' <=> Waiting
    BY <1>2, <2>1, QueueStays DEF Waiting
  <2>3. CASE SkipFrame
    <3>1. game' = "build" /\ streak' = 0
      BY <2>3 DEF SkipFrame, GameStep
    <3> QED BY <3>1 DEF RetracesCovered, InFrame
  <2>4. CASE MeasureFrame
    <3>1. game = "fb" /\ game' = "pace" /\ rate' = 1 + videoQ /\ videoQ' = 0
          /\ streak' = streak
      BY <2>4 DEF MeasureFrame, GameStep
    <3>2. ~Waiting
      BY <3>1, OutOfFrame
    <3> QED BY <1>1, <1>2, <3>1, <3>2 DEF RetracesCovered, InFrame
  <2>5. CASE PaceFrame
    <3>1. game = "pace" /\ game' = "pace" /\ rate' = rate + 1 /\ videoQ' = videoQ - 1
          /\ streak' = streak
      BY <2>5 DEF PaceFrame, GameStep
    <3> QED BY <1>1, <1>2, <3>1 DEF RetracesCovered, InFrame
  <2>6. CASE SwapFrame
    <3>1. game = "pace" /\ game' = "top" /\ videoQ > 0 /\ videoQ' = videoQ - 1
          /\ UNCHANGED <<rate, streak>>
      BY <2>6 DEF SwapFrame, GameStep
    <3> QED BY <1>1, <1>2, <3>1 DEF RetracesCovered, InFrame
  <2>7. CASE \/ Resume \/ Blackout \/ BeginUnload \/ UnloadLevelGame
             \/ UnloadLevelMenu \/ LoadLevel \/ FinishBuild \/ EndFrame
    <3>1. InFrame /\ InFrame' /\ UNCHANGED <<rate, streak, videoQ>>
      BY <2>7 DEF Resume, Blackout, BeginUnload, UnloadLevelGame, UnloadLevelMenu,
           LoadLevel, FinishBuild, EndFrame, GameStep, InFrame
    <3> QED BY <1>2, <2>2, <3>1, CoveredStays
  <2> QED BY <1>4, <2>3, <2>4, <2>5, <2>6, <2>7 DEF GameNext
<1> QED BY <1>3, <1>4

LEMMA CoveredStep ==
  FrameInv /\ RetracesCovered /\ ClientDepth >= 2 /\ [Next]_vars => RetracesCovered'
<1> SUFFICES ASSUME FrameInv, RetracesCovered, ClientDepth >= 2, [Next]_vars
             PROVE  RetracesCovered'
  OBVIOUS
<1>1. CASE Retrace
  <2>1. FrameQueued' <=> FrameQueued
    <3>1. CASE Len(interruptQ) < QueueDepth
      BY <1>1, <3>1, AppendMoves, "retrace" # "frame"
      DEF Retrace, FrameInv, FrameOnce, TypeOK, QueueTyped
    <3>2. CASE ~(Len(interruptQ) < QueueDepth)
      BY <1>1, <3>2, QueueStays DEF Retrace
    <3> QED BY <3>1, <3>2
  <2>2. Waiting' <=> Waiting
    BY <1>1, <2>1 DEF Retrace, Waiting, schedVars
  <2> QED BY <1>1, <2>2, CoveredStays DEF Retrace, schedVars, gameVars
<1>2. CASE AudioNext
  <2>1. UNCHANGED <<sched, unkTask, interruptQ, frameCount, videoQ, rate, streak, game>>
    BY <1>2 DEF AudioNext, TakeAudioFrame, SubmitAudio, TakeAudioReply, schedVars,
                gameVars
  <2>2. Waiting' <=> Waiting
    BY <2>1, QueueStays DEF Waiting
  <2> QED BY <2>1, <2>2, CoveredStays
<1>3. CASE UNCHANGED vars
  <2>1. Waiting' <=> Waiting
    BY <1>3, QueueStays DEF vars, schedVars, queues, Waiting
  <2> QED BY <1>3, <2>1, CoveredStays DEF vars, schedVars, gameVars, queues
<1> QED BY <1>1, <1>2, <1>3, CoveredSched, CoveredGame DEF Next

\* What the measurement of a frame finds.
LEMMA MeasuredSlow ==
  FrameInv /\ RetracesCovered /\ [Next]_vars
     => [game = "fb" /\ game' = "pace" /\ streak = 2 => rate + rate' >= 3]_vars
<1> SUFFICES ASSUME FrameInv, RetracesCovered, Next,
                    game = "fb", game' = "pace", streak = 2
             PROVE  rate + rate' >= 3
  OBVIOUS
<1>1. rate \in Nat /\ videoQ \in Nat
  BY DEF FrameInv, TypeOK
<1>2. MeasureFrame
  BY DEF Next, Retrace, SchedNext, HandleRetrace, WalkFrame, CompleteFrame,
         DrainCmdQueue, AudioNext, TakeAudioFrame, SubmitAudio, TakeAudioReply,
         GameNext, SubmitFrame, Resume, SkipFrame, Blackout, BeginUnload,
         UnloadLevelGame, UnloadLevelMenu, LoadLevel, FinishBuild, EndFrame,
         PaceFrame, SwapFrame, GameStep, gameVars
<1>3. ~Waiting
  BY OutOfFrame
<1>4. rate + videoQ >= 2
  BY <1>3 DEF RetracesCovered, InFrame
<1> QED BY <1>1, <1>2, <1>4 DEF MeasureFrame

\* No two drawn frames in a row cost a single field each, as long as the video
\* queue holds two retraces (gVideoMesgQueue holds eight).
THEOREM FastFramesApart ==
  ASSUME ClientDepth >= 2
  PROVE  Spec => NeverTwoFastFrames
<1>1. ClientDepth >= 2
  OBVIOUS
<1>2. RetracesCovered /\ FrameInv /\ [Next]_vars => RetracesCovered'
  BY <1>1, CoveredStep
<1>3. Spec => []RetracesCovered
  BY <1>2, CoveredInit, FrameInvariant, PTL DEF Spec
<1> QED BY <1>3, FrameInvariant, MeasuredSlow, PTL DEF Spec, NeverTwoFastFrames
=============================================================================
