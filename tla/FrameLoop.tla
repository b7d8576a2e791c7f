----------------------------- MODULE FrameLoop -----------------------------
(***************************************************************************)
(* The three threads that make a frame and the interrupt that paces them:  *)
(* the scheduler (platform/gc/ultra/os_sched.c), the audio manager         *)
(* (src/audiomgr.c) and the game loop (src/thread3_main.c with             *)
(* src/rcp_dkr.c and platform/gc/gc_video.c).                              *)
(*                                                                         *)
(* The console has one core and libogc runs the most urgent thread that    *)
(* can run, so a step of a thread is allowed only when no more urgent      *)
(* thread is runnable.  A blocking osRecvMesg or osSendMesg is the guard   *)
(* of the action that follows it.  A queue whose messages are all alike is *)
(* the number of messages in it.                                           *)
(***************************************************************************)
EXTENDS Naturals, Sequences

CONSTANTS Priority,    \* OSPri of each thread, as given to osCreateThread
          QueueDepth,  \* OS_SC_MAX_MESGS, length of the scheduler's queues
          ClientDepth, \* length of each client's retrace queue
          MaxRate,     \* sMaxUpdateRate
          AdaptAfter   \* fast frames in a row before gVideoDeltaTime drops

Thread == {"sched", "audio", "game"}

ASSUME FrameLoopAssumption ==
    /\ Priority \in [Thread -> 0 .. 255]
    /\ QueueDepth \in Nat \ {0}
    /\ ClientDepth \in Nat \ {0}
    /\ MaxRate \in Nat \ {0}
    /\ AdaptAfter \in Nat \ {0}

\* The two orders between threads that correctness needs (13 > 12 > 10 there).
ASSUME PriorityAssumption ==
    /\ Priority["game"] < Priority["sched"]
    /\ Priority["sched"] <= 127
    /\ Priority["game"] >= 1

VARIABLES
    sched,        \* where sched_main is: "wait", "walk" (a display list), "drain"
    interruptQ,   \* sc->interruptQ: "retrace" and "frame" messages
    cmdQ,         \* sc->cmdQ: audio tasks
    frameCount,   \* sc->frameCount, counted up to two
    unkTask,      \* sc->unkTask # NULL: the frame whose answer is held back
    parity,       \* sAudioRetraceParity
    gfxQ,         \* gGfxTaskMesgQueue: answers to frames
    videoQ,       \* gVideoMesgQueue: retraces for fb_update
    audioFrameQ,  \* __am.audioFrameMsgQ
    audioReplyQ,  \* __am.audioReplyMsgQ
    audio,        \* where __amMain is: "wait", "build", "reply"
    game,         \* where main_game_loop is
    running,      \* gGfxTaskIsRunning
    drawTimer,    \* gDrawFrameTimer
    skipGfx,      \* gSkipGfxTask
    streak,       \* iterations in a row that submitted a frame, up to two
    rate,         \* tempUpdateRate in fb_update
    deltaTime,    \* gVideoDeltaTime
    deltaCounter  \* gVideoDeltaCounter

schedVars == <<sched, frameCount, unkTask, parity>>
audioVars == <<audio>>
gameVars  == <<game, running, drawTimer, skipGfx, streak, rate, deltaTime,
               deltaCounter>>
queues    == <<interruptQ, cmdQ, gfxQ, videoQ, audioFrameQ, audioReplyQ>>

vars == <<schedVars, audioVars, gameVars, queues>>

-----------------------------------------------------------------------------
(* Who may run.                                                            *)

\* Mutant: priorities read upside down, as on systems where 0 is most urgent.
PriorityUpsideDown(p) == 127 - p

\* libogc's own range, 1 to 127; lowest is the idle thread's.
LwpPriority(p) == IF p < 1 THEN 1 ELSE IF p > 127 THEN 127 ELSE p

\* gfxtask_wait would wait: a frame is out, has not been waited for already in
\* this iteration, and the screen is not blacked out.
AwaitsFrame == running /\ ~skipGfx /\ drawTimer # 1

GameBlocked ==
    \/ game \in {"unload", "end"} /\ AwaitsFrame /\ gfxQ = 0
    \/ game = "pace" /\ videoQ = 0
    \/ game = "top" /\ drawTimer = 0 /\ Len(interruptQ) = QueueDepth

Runnable(t) ==
    CASE t = "sched" -> sched # "wait" \/ interruptQ # <<>>
      [] t = "audio" -> \/ audio = "wait"  /\ audioFrameQ > 0
                        \/ audio = "build"
                        \/ audio = "reply" /\ audioReplyQ > 0
      [] t = "game"  -> ~GameBlocked

CanRun(t) ==
    \A u \in Thread :
        LwpPriority(Priority[u]) > LwpPriority(Priority[t]) => ~Runnable(u)

\* Mutant: a full queue takes one more message.
PostedWhenFull(queue, depth) == queue + 1

\* A message sent without OS_MESG_BLOCK is dropped by a full queue.
Posted(queue, depth) == IF queue < depth THEN queue + 1 ELSE queue

-----------------------------------------------------------------------------
Init ==
    /\ sched = "wait"
    /\ frameCount = 0
    /\ unkTask = FALSE
    /\ parity = 0
    /\ interruptQ = <<>>
    /\ cmdQ = 0 /\ gfxQ = 0 /\ videoQ = 0 /\ audioFrameQ = 0 /\ audioReplyQ = 0
    /\ audio = "wait"
    /\ game = "top"
    /\ running = FALSE
    /\ drawTimer = 0
    /\ skipGfx = FALSE
    /\ streak = 0
    /\ rate = 0
    /\ deltaTime = 2
    /\ deltaCounter = 0

(***************************************************************************)
(* The retrace interrupt.                                                  *)
(***************************************************************************)
Retrace ==
    /\ interruptQ' = IF Len(interruptQ) < QueueDepth
                     THEN Append(interruptQ, "retrace") ELSE interruptQ
    /\ UNCHANGED <<schedVars, audioVars, gameVars,
                   cmdQ, gfxQ, videoQ, audioFrameQ, audioReplyQ>>

-----------------------------------------------------------------------------
(* The scheduler.                                                          *)

\* Takes the message sched_main waits for.
TakeInterrupt(msg) ==
    /\ CanRun("sched")
    /\ sched = "wait"
    /\ interruptQ # <<>>
    /\ Head(interruptQ) = msg
    /\ interruptQ' = Tail(interruptQ)

Counted == IF frameCount < 2 THEN frameCount + 1 ELSE 2

\* Mutant: a held answer goes out with the next retrace, without the cap.
HeldReleasedAtOnce == unkTask

\* handle_retrace answers the held frame once this retrace makes two.
HeldReleased == unkTask /\ Counted = 2

\* Mutant: unkTask is not cleared when its answer is sent.
HeldForever == unkTask

\* Mutant: unkTask is cleared by every retrace, answered or not.
HeldDropped == FALSE

StillHeld == unkTask /\ ~HeldReleased

HandleRetrace ==
    /\ TakeInterrupt("retrace")
    /\ sched' = "drain"
    /\ parity' = 1 - parity
    /\ unkTask' = StillHeld
    /\ frameCount' = IF HeldReleased THEN 0 ELSE Counted
    /\ gfxQ' = IF HeldReleased THEN Posted(gfxQ, ClientDepth) ELSE gfxQ
    /\ videoQ' = Posted(videoQ, ClientDepth)
    /\ audioFrameQ' = IF parity' = 1 THEN audioFrameQ
                      ELSE Posted(audioFrameQ, ClientDepth)
    /\ UNCHANGED <<audioVars, gameVars, cmdQ, audioReplyQ>>

\* run_task on a graphics task: the list is walked on the CPU ...
WalkFrame ==
    /\ TakeInterrupt("frame")
    /\ sched' = "walk"
    /\ UNCHANGED <<frameCount, unkTask, parity, audioVars, gameVars,
                   cmdQ, gfxQ, videoQ, audioFrameQ, audioReplyQ>>

\* Mutant: every frame is answered as soon as it is walked.
AlwaysPastCap == TRUE

PastCap == frameCount > 1

\* ... and answered, unless it comes too soon after the previous answer.
CompleteFrame ==
    /\ CanRun("sched")
    /\ sched = "walk"
    /\ sched' = "drain"
    /\ \/ /\ ~PastCap
          /\ unkTask' = TRUE
          /\ UNCHANGED <<frameCount, gfxQ>>
       \/ /\ PastCap
          /\ gfxQ' = Posted(gfxQ, ClientDepth)
          /\ frameCount' = 0
          /\ UNCHANGED unkTask
    /\ UNCHANGED <<parity, audioVars, gameVars,
                   interruptQ, cmdQ, videoQ, audioFrameQ, audioReplyQ>>

\* Mutant: audio tasks looked for on interruptQ only.
CmdQueueIgnored == FALSE

AudioTaskWaiting == cmdQ > 0

\* drain_cmd_queue: every audio task waiting is run and answered.
DrainCmdQueue ==
    /\ CanRun("sched")
    /\ sched = "drain"
    /\ \/ /\ AudioTaskWaiting
          /\ cmdQ' = cmdQ - 1
          /\ audioReplyQ' = Posted(audioReplyQ, ClientDepth)
          /\ UNCHANGED sched
       \/ /\ ~AudioTaskWaiting
          /\ sched' = "wait"
          /\ UNCHANGED <<cmdQ, audioReplyQ>>
    /\ UNCHANGED <<frameCount, unkTask, parity, audioVars, gameVars,
                   interruptQ, gfxQ, videoQ, audioFrameQ>>

-----------------------------------------------------------------------------
(* The audio manager.                                                      *)

TakeAudioFrame ==
    /\ CanRun("audio")
    /\ audio = "wait"
    /\ audioFrameQ > 0
    /\ audioFrameQ' = audioFrameQ - 1
    /\ audio' = "build"
    /\ UNCHANGED <<schedVars, gameVars,
                   interruptQ, cmdQ, gfxQ, videoQ, audioReplyQ>>

\* __amHandleFrameMsg: builds a command list and queues it.  The scheduler is
\* not woken: it finds the task after its next interruptQ message.
SubmitAudio ==
    /\ CanRun("audio")
    /\ audio = "build"
    /\ cmdQ' = Posted(cmdQ, QueueDepth)
    /\ audio' = "reply"
    /\ UNCHANGED <<schedVars, gameVars,
                   interruptQ, gfxQ, videoQ, audioFrameQ, audioReplyQ>>

TakeAudioReply ==
    /\ CanRun("audio")
    /\ audio = "reply"
    /\ audioReplyQ > 0
    /\ audioReplyQ' = audioReplyQ - 1
    /\ audio' = "wait"
    /\ UNCHANGED <<schedVars, gameVars,
                   interruptQ, cmdQ, gfxQ, videoQ, audioFrameQ>>

-----------------------------------------------------------------------------
(* The game loop: "top" -> "sent" -> "build" (-> "free") -> "end" -> "fb"  *)
(* -> "pace" -> "top".                                                     *)

GameStep(from, to) ==
    /\ CanRun("game")
    /\ game = from
    /\ game' = to
    /\ UNCHANGED <<schedVars, audioVars, cmdQ, audioFrameQ, audioReplyQ>>

\* gfxtask_run_xbus.  osSendMesg returns to the game thread only later, in
\* Resume: the scheduler it wakes is more urgent.
SubmitFrame ==
    /\ GameStep("top", "sent")
    /\ drawTimer = 0
    /\ Len(interruptQ) < QueueDepth
    /\ interruptQ' = Append(interruptQ, "frame")
    /\ running' = TRUE
    /\ streak' = IF streak < 2 THEN streak + 1 ELSE 2
    /\ UNCHANGED <<drawTimer, skipGfx, rate, deltaTime, deltaCounter, gfxQ, videoQ>>

Resume ==
    /\ GameStep("sent", "build")
    /\ UNCHANGED <<running, drawTimer, skipGfx, streak, rate, deltaTime,
                   deltaCounter, interruptQ, gfxQ, videoQ>>

\* While the screen is blacked out the iteration submits nothing.
SkipFrame ==
    /\ GameStep("top", "build")
    /\ drawTimer > 0
    /\ drawTimer' = drawTimer - 1
    /\ streak' = 0
    /\ UNCHANGED <<running, skipGfx, rate, deltaTime, deltaCounter,
                   interruptQ, gfxQ, videoQ>>

\* set_frame_blackout_timer, on leaving a level or changing a cutscene.
Blackout ==
    /\ GameStep("build", "build")
    /\ drawTimer' = 2
    /\ UNCHANGED <<running, skipGfx, streak, rate, deltaTime, deltaCounter,
                   interruptQ, gfxQ, videoQ>>

\* gfxtask_wait, with the conditions its two callers put on it.
AwaitFrame ==
    IF AwaitsFrame
    THEN /\ gfxQ > 0
         /\ gfxQ' = gfxQ - 1
         /\ running' = FALSE
    ELSE UNCHANGED <<gfxQ, running>>

\* unload_level_game up to level_free: the frame is waited for first.
BeginUnload ==
    /\ GameStep("build", "unload")
    /\ UNCHANGED <<running, drawTimer, skipGfx, streak, rate, deltaTime,
                   deltaCounter, interruptQ, gfxQ, videoQ>>

UnloadLevelGame ==
    /\ GameStep("unload", "free")
    /\ AwaitFrame
    /\ skipGfx' = TRUE
    /\ UNCHANGED <<drawTimer, streak, rate, deltaTime, deltaCounter,
                   interruptQ, videoQ>>

\* unload_level_menu frees the level without waiting; so does
\* alloc_displaylist_heap with both display lists.
UnloadLevelMenu ==
    /\ GameStep("build", "free")
    /\ UNCHANGED <<running, drawTimer, skipGfx, streak, rate, deltaTime,
                   deltaCounter, interruptQ, gfxQ, videoQ>>

\* The next level is loaded; the rest of the mode handler follows.
LoadLevel ==
    /\ GameStep("free", "build")
    /\ UNCHANGED <<running, drawTimer, skipGfx, streak, rate, deltaTime,
                   deltaCounter, interruptQ, gfxQ, videoQ>>

FinishBuild ==
    /\ GameStep("build", "end")
    /\ UNCHANGED <<running, drawTimer, skipGfx, streak, rate, deltaTime,
                   deltaCounter, interruptQ, gfxQ, videoQ>>

EndFrame ==
    /\ GameStep("end", "fb")
    /\ AwaitFrame
    /\ drawTimer' = IF drawTimer = 1 THEN 0 ELSE drawTimer
    /\ skipGfx' = FALSE
    /\ UNCHANGED <<streak, rate, deltaTime, deltaCounter, interruptQ, videoQ>>

\* fb_update up to its pacing loop: the retraces this frame has already cost
\* give its rate, and the rate adapts gVideoDeltaTime.
MeasureFrame ==
    /\ GameStep("fb", "pace")
    /\ rate' = 1 + videoQ
    /\ videoQ' = 0
    /\ LET fast == rate' < deltaTime
           nth  == deltaCounter + 1
       IN  /\ deltaCounter' = IF fast /\ nth < AdaptAfter THEN nth ELSE 0
           /\ deltaTime' = IF \/ fast /\ nth >= AdaptAfter
                              \/ ~fast /\ rate' <= MaxRate
                           THEN rate' ELSE deltaTime
    /\ UNCHANGED <<running, drawTimer, skipGfx, streak, interruptQ, gfxQ>>

PaceFrame ==
    /\ GameStep("pace", "pace")
    /\ rate < deltaTime
    /\ videoQ > 0
    /\ videoQ' = videoQ - 1
    /\ rate' = rate + 1
    /\ UNCHANGED <<running, drawTimer, skipGfx, streak, deltaTime, deltaCounter,
                   interruptQ, gfxQ>>

\* osViSwapBuffer, and the retrace the flip waits for.
SwapFrame ==
    /\ GameStep("pace", "top")
    /\ rate >= deltaTime
    /\ videoQ > 0
    /\ videoQ' = videoQ - 1
    /\ UNCHANGED <<running, drawTimer, skipGfx, streak, rate, deltaTime,
                   deltaCounter, interruptQ, gfxQ>>

-----------------------------------------------------------------------------
SchedNext == HandleRetrace \/ WalkFrame \/ CompleteFrame \/ DrainCmdQueue

AudioNext == TakeAudioFrame \/ SubmitAudio \/ TakeAudioReply

GameNext ==
    \/ SubmitFrame \/ Resume \/ SkipFrame \/ Blackout
    \/ BeginUnload \/ UnloadLevelGame \/ UnloadLevelMenu \/ LoadLevel
    \/ FinishBuild \/ EndFrame \/ MeasureFrame \/ PaceFrame \/ SwapFrame

Next == Retrace \/ SchedNext \/ AudioNext \/ GameNext

(***************************************************************************)
(* The retrace keeps coming; a thread that may run does; the scheduler and *)
(* the audio manager do not take the whole processor, so that the game     *)
(* thread gets its turn again and again; and the game modes return.        *)
(***************************************************************************)
Fairness ==
    /\ WF_vars(Retrace)
    /\ WF_vars(SchedNext)
    /\ SF_vars(AudioNext)
    /\ []<>CanRun("game")
    /\ SF_vars(SubmitFrame \/ Resume \/ SkipFrame \/ UnloadLevelGame
               \/ LoadLevel \/ EndFrame)
    /\ SF_vars(FinishBuild)
    /\ SF_vars(MeasureFrame \/ PaceFrame \/ SwapFrame)

Spec     == Init /\ [][Next]_vars
FairSpec == Spec /\ Fairness

-----------------------------------------------------------------------------
TypeOK ==
    /\ sched \in {"wait", "walk", "drain"}
    /\ interruptQ \in Seq({"retrace", "frame"})
    /\ Len(interruptQ) <= QueueDepth
    /\ cmdQ \in 0 .. QueueDepth
    /\ frameCount \in 0 .. 2
    /\ unkTask \in BOOLEAN
    /\ parity \in {0, 1}
    /\ gfxQ \in 0 .. ClientDepth
    /\ videoQ \in 0 .. ClientDepth
    /\ audioFrameQ \in 0 .. ClientDepth
    /\ audioReplyQ \in 0 .. ClientDepth
    /\ audio \in {"wait", "build", "reply"}
    /\ game \in {"top", "sent", "build", "unload", "free", "end", "fb", "pace"}
    /\ running \in BOOLEAN
    /\ drawTimer \in 0 .. 2
    /\ skipGfx \in BOOLEAN
    /\ streak \in 0 .. 2
    /\ rate \in Nat
    /\ deltaTime \in Nat
    /\ deltaCounter \in Nat

-----------------------------------------------------------------------------
(* Where a submitted frame can be, until the game loop takes its answer.   *)
FrameQueued == \E i \in 1 .. Len(interruptQ) : interruptQ[i] = "frame"
FramePlaces ==
    {p \in {"queued", "walking", "held", "answered"} :
        \/ p = "queued"   /\ FrameQueued
        \/ p = "walking"  /\ sched = "walk"
        \/ p = "held"     /\ unkTask
        \/ p = "answered" /\ gfxQ > 0}

\* "Both must get exactly one message per task or the loop stalls" (os_sched.c
\* on the reply): while the game loop believes a frame is out it is in exactly
\* one place, and otherwise in none, so that no held frame is overwritten, none
\* is answered twice and no answer is left over for a later frame.
OneFrameInFlight ==
    /\ running <=> FramePlaces # {}
    /\ \A p, q \in FramePlaces : p = q
    /\ \A i, j \in 1 .. Len(interruptQ) :
          interruptQ[i] = "frame" /\ interruptQ[j] = "frame" => i = j
    /\ gfxQ <= 1

\* The scheduler walks display lists in place.  unload_level_menu and
\* alloc_displaylist_heap free what the list points at, and the heap it is in,
\* without waiting for the frame; that is sound only because the walk is over
\* before the game thread gets to run again.
WalkedListIntact ==
    game \in {"build", "free"} => ~FrameQueued /\ sched # "walk"

\* The frame cap as the game logic sees it: even when the adaptive rate has
\* come down to a single field, it never stays there for two drawn frames,
\* for the second has cost two fields before fb_update begins to pace it.
NeverTwoFastFrames ==
    [][game = "fb" /\ game' = "pace" /\ streak = 2 => rate + rate' >= 3]_vars

\* The answers follow the promise of FrameCap: never two within two retraces.
Cap == INSTANCE FrameCap WITH
           waiting <- FrameQueued \/ sched = "walk" \/ unkTask,
           since   <- frameCount
CapSpec == Cap!Spec

\* The loop never stops: each iteration is followed by another one.
GameAlive == []<>(game = "top")

\* An audio task is queued where the scheduler does not wait, and is answered
\* all the same.
AudioAnswered == audio = "reply" ~> audio = "wait"
=============================================================================
