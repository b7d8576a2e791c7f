---------------------------- MODULE MCGhostFile ----------------------------
(* A file of two recordings of a page needs three pages with its header.   *)
(* The two pages left take both notes of one page or the one of two, and   *)
(* the three notes fill the directory.                                     *)
EXTENDS GhostFile, TLC
CONSTANTS t1, t2, t3, adv, save, times
MCTracks == {t1, t2, t3}
MCNoteSize == (adv :> 1) @@ (save :> 1) @@ (times :> 2)
MCValues == PageValues
Symmetry == {g @@ n : g \in Permutations(MCTracks), n \in Permutations({adv, save})}

\* What a page of no note holds is never read, osPfsAllocateFile clears it.
\* The lines of a closed menu are read only if a checksum fails when it opens.
ImageView(image) ==
    <<image.dir, [p \in 0 .. Cardinality(UNION {{i} \X RangeOf(image.dir[i]) : i \in UsedIn(image.dir)}) - 1
                    |-> image.data[p]]>>
View == <<ImageView(Image), IF stored = Unreadable THEN <<>> ELSE ImageView(stored),
          loaded, ready, pending, inMenu, IF inMenu THEN menu ELSE {}>>

\* Bound: no two stores in a row fail and leave an older image behind.
OneStaleStore ==
    (loaded /\ loaded' /\ Image' # Image /\ stored' = stored) => stored \in {Image, Unreadable}
=============================================================================
