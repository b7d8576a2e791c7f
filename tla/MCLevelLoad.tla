---------------------------- MODULE MCLevelLoad ----------------------------
(* Two levels, so that one replaces another, and the delay of the code.    *)
EXTENDS LevelLoad
=============================================================================
