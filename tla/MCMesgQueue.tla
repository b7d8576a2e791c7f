---------------------------- MODULE MCMesgQueue ----------------------------
(* A queue of two messages shared by three threads of different priority.  *)
EXTENDS MesgQueue, TLC

CONSTANTS sched, audio, game   \* priorities 13, 12 and 10 in the game

MCThread == {sched, audio, game}
MCPriority == (sched :> 13) @@ (audio :> 12) @@ (game :> 10)

\* Bounds the run when a mutant lets the count grow.
CountBound == validCount <= 8
=============================================================================
