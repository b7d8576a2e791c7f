------------------------------ MODULE FrameCap ------------------------------
(***************************************************************************)
(* What the scheduler promises the game loop about pace: a frame is        *)
(* answered exactly once, and never sooner than two retraces after the     *)
(* previous answer.  That is the 30 (25 on PAL) frames per second the      *)
(* game is written for; FrameLoop implements it.                           *)
(***************************************************************************)
EXTENDS Naturals

VARIABLES waiting,  \* a frame has been submitted and not yet answered
          since     \* retraces since the last answer, counted up to two

vars == <<waiting, since>>

Passed(n) == IF n < 2 THEN n + 1 ELSE n

Init == waiting = FALSE /\ since = 0

Submit ==
    /\ ~waiting
    /\ waiting' = TRUE
    /\ UNCHANGED since

Retrace ==
    /\ since' = Passed(since)
    /\ UNCHANGED waiting

Answer ==
    /\ waiting
    /\ since = 2
    /\ waiting' = FALSE
    /\ since' = 0

\* The retrace that makes two is answered from within its own handler.
AnswerOnRetrace ==
    /\ waiting
    /\ Passed(since) = 2
    /\ waiting' = FALSE
    /\ since' = 0

Next == Submit \/ Retrace \/ Answer \/ AnswerOnRetrace

Spec == Init /\ [][Next]_vars
=============================================================================
