----------------------------- MODULE MCMemPool -----------------------------
(* Four units hold a block between two free ones and a fourth that keeps   *)
(* the second apart from the end.  One array entry more than there can be  *)
(* blocks (MCMemPool.cfg) or fewer than that (MCMemPoolSlots.cfg).         *)
EXTENDS MemPool
=============================================================================
