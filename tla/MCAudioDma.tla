---------------------------- MODULE MCAudioDma ----------------------------
(* Buffers of four bytes over eight addresses, so that stretches overlap,  *)
(* meet and lie apart, and more requests in a frame than buffers.          *)
EXTENDS AudioDma
MCRequests == {<<addr, len>> : addr \in 0 .. 7, len \in {1, 3}}

\* Only the number of frames since a buffer was used matters, of a free one
\* nothing at all, and no step looks at the last answer.
Ages == LET used == Used
        IN  [b \in Buffer |-> IF b \in used THEN <<startAddr[b], audFrameCt - lastFrame[b]>> ELSE <<>>]
View == <<lists, Ages, nextDMA, answer.good>>
=============================================================================
