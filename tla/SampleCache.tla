--------------------------- MODULE SampleCache ----------------------------
(***************************************************************************)
(* What the audio manager promises the synthesiser: samples asked for are  *)
(* fetched into a cached stretch unless one holds them already, and a      *)
(* stretch stays until some frames have gone by without a use of it.  Only *)
(* when every stretch is in use and none holds the samples is there no     *)
(* answer.  AudioDma implements it with two linked lists of buffers.       *)
(***************************************************************************)
EXTENDS Integers, FiniteSets

CONSTANTS Capacity,   \* stretches that can be cached
          Length,     \* samples in one
          Lag,        \* frames without a use that a stretch outlives
          Requests,   \* what the synthesiser may ask for: <<address, length>>
          NoSamples

VARIABLES cache,      \* frames since its last use, by address of a stretch
          answer      \* the address the last answer points at, or NoSamples

vars == <<cache, answer>>

Holding(addr, len) == {s \in DOMAIN cache : s <= addr /\ addr + len <= s + Length}

Init == cache = [s \in {} |-> 0] /\ answer = NoSamples

\* The samples are cached.
Hit(addr, len) ==
    /\ \E s \in Holding(addr, len) : cache' = [cache EXCEPT ![s] = 0]
    /\ answer' = addr

\* They are not; a stretch begins at an even address.
Fetch(addr, len) ==
    /\ Holding(addr, len) = {} /\ Cardinality(DOMAIN cache) < Capacity
    /\ LET start == addr - (addr % 2)
       IN  cache' = [s \in DOMAIN cache \cup {start} |-> IF s = start THEN 0 ELSE cache[s]]
    /\ answer' = addr

\* They are not, and all stretches are in use.
Refuse(addr, len) ==
    /\ Holding(addr, len) = {} /\ Cardinality(DOMAIN cache) = Capacity
    /\ answer' = NoSamples
    /\ UNCHANGED cache

NewFrame ==
    /\ cache' = [s \in {t \in DOMAIN cache : cache[t] <= Lag} |-> cache[s] + 1]
    /\ answer' = NoSamples

Next ==
    \/ \E r \in Requests : Hit(r[1], r[2]) \/ Fetch(r[1], r[2]) \/ Refuse(r[1], r[2])
    \/ NewFrame

Spec == Init /\ [][Next]_vars
=============================================================================
