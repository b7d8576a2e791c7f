---------------------------- MODULE MCAudioOut ----------------------------
(* The code's four blocks, of two frames each, and a ring of four frames,  *)
(* which a buffer that needs three and comes to five would overfill.       *)
EXTENDS AudioOut

MCDrifts == {-1, 0, 2}

\* A frame's number only matters in relation to the last one heard, and a slot
\* of the ring only from when it is written to when it is read.
Since(id)  == IF id = Silence THEN Silence ELSE (id - heard) % Ids
InRing(i)  == (i - read) % Ring < ring_used
View == <<[i \in DOMAIN ring |-> IF InRing(i) THEN Since(ring[i]) ELSE Silence],
          read, write, left, Since(pushed),
          [b \in DOMAIN block |-> [i \in DOMAIN block[b] |-> Since(block[b][i])]],
          dmaIndex, filled, irq, playing, pos, again>>
=============================================================================
