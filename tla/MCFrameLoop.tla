---------------------------- MODULE MCFrameLoop ----------------------------
(* The loop with the priorities of thread3_main.c and audio.c, and queues   *)
(* short enough to overflow.                                                *)
EXTENDS FrameLoop

MCPriority == [sched |-> 13, audio |-> 12, game |-> 10]
=============================================================================
