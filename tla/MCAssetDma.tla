---------------------------- MODULE MCAssetDma ----------------------------
(* The three threads with their priorities, reads of up to two pieces.     *)
EXTENDS AssetDma
MCPriority == [audio |-> 12, game |-> 10, loader |-> 8]
=============================================================================
