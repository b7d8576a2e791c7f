------------------------------ MODULE PakProofs ------------------------------
(***************************************************************************)
(* The Controller Pak for every number of pages and directory entries:     *)
(* notes stay packed, and an operation on one of them leaves the others    *)
(* alone.  And the ghosts' file in it, for every number of entries, pages  *)
(* and tracks: what the game does to the pak is what a pak allows, every   *)
(* entry of the table leads to a recording of its track, and the menu      *)
(* shows what it erases.                                                   *)
(***************************************************************************)
EXTENDS GhostFile, FiniteSetTheorems, TLAPS

\* Packed with the page at which the notes end.
PackedTo(d, end) ==
    /\ \A i \in UsedIn(d) : d[i].count > 0
    /\ \A i, j \in UsedIn(d) : i # j =>
          /\ d[i].name # d[j].name
          /\ RangeOf(d[i]) \cap RangeOf(d[j]) = {}
    /\ UNION {RangeOf(d[i]) : i \in UsedIn(d)} = 0 .. end - 1

Dirs == [FileNo -> Entry]

-----------------------------------------------------------------------------
(* Arithmetic of a packed directory.                                       *)

\* A page belongs to a note exactly if it lies before the end.
LEMMA PageOfNote ==
    ASSUME NEW d \in Dirs, NEW end \in 0 .. Pages, PackedTo(d, end), NEW p \in Int
    PROVE  p \in 0 .. end - 1 <=> \E i \in UsedIn(d) : p \in RangeOf(d[i])
  BY DEF PackedTo

\* Every note lies before the end.
LEMMA NoteBeforeEnd ==
    ASSUME NEW d \in Dirs, NEW end \in 0 .. Pages, PackedTo(d, end), NEW i \in UsedIn(d)
    PROVE  d[i].start + d[i].count <= end
<1>1. d[i].start \in Nat /\ d[i].count \in Nat /\ d[i].count > 0
  BY DEF Dirs, Entry, UsedIn, PackedTo
<1>2. d[i].start + d[i].count - 1 \in RangeOf(d[i])
  BY <1>1 DEF RangeOf
<1>3. d[i].start + d[i].count - 1 \in 0 .. end - 1
  BY <1>1, <1>2, PageOfNote
<1> QED BY <1>1, <1>3

\* The last page before the end is the last page of some note.
LEMMA NoteAtEnd ==
    ASSUME NEW d \in Dirs, NEW end \in 0 .. Pages, PackedTo(d, end), end > 0
    PROVE  \E i \in UsedIn(d) : d[i].start + d[i].count = end
<1>1. PICK i \in UsedIn(d) : end - 1 \in RangeOf(d[i])
  BY PageOfNote
<1>2. d[i].start \in Nat /\ d[i].count \in Nat
  BY DEF Dirs, Entry, UsedIn
<1>3. end - 1 < d[i].start + d[i].count
  BY <1>1, <1>2 DEF RangeOf
<1>4. d[i].start + d[i].count <= end
  BY NoteBeforeEnd
<1> QED BY <1>2, <1>3, <1>4

\* first_free_page is the end of the notes.
LEMMA FirstFreePage ==
    ASSUME dir \in Dirs, NEW end \in 0 .. Pages, PackedTo(dir, end)
    PROVE  first_free_page = end
<1> DEFINE ends == {0} \cup {dir[i].start + dir[i].count : i \in Used}
<1>1. \A f \in ends : f \in Nat /\ f <= end
  BY NoteBeforeEnd DEF Used, UsedIn, Dirs, Entry
<1>2. end \in ends
  BY NoteAtEnd DEF Used
<1>3. \A e \in ends : (\A f \in ends : f <= e) => e = end
  BY <1>1, <1>2
<1> HIDE DEF ends
<1>4. (CHOOSE e \in ends : \A f \in ends : f <= e) = end
  BY <1>1, <1>2, <1>3
<1> QED BY <1>4 DEF first_free_page, ends

\* pages_used is the end of the notes as well: there are as many pairs of a note
\* and a page of it as there are pages before the end.
LEMMA PagesUsed ==
    ASSUME dir \in Dirs, NEW end \in 0 .. Pages, PackedTo(dir, end)
    PROVE  pages_used = end
<1> DEFINE T == UNION {{i} \X RangeOf(dir[i]) : i \in Used}
           f == [x \in T |-> x[2]]
<1>1. \A x \in T : x[1] \in Used /\ x[2] \in RangeOf(dir[x[1]]) /\ x = <<x[1], x[2]>>
  OBVIOUS
<1>2. \A i \in Used : \A p \in RangeOf(dir[i]) : <<i, p>> \in T
  OBVIOUS
<1>3. \A i \in Used : \A p \in RangeOf(dir[i]) : p \in 0 .. end - 1
  BY DEF PackedTo, Used
<1> HIDE DEF T
<1>4. f \in [T -> 0 .. end - 1]
  BY <1>1, <1>3
<1>5. \A x, y \in T : f[x] = f[y] => x = y
  <2> SUFFICES ASSUME NEW x \in T, NEW y \in T, x[2] = y[2] PROVE x = y
    OBVIOUS
  <2>1. x[1] = y[1]
    BY <1>1 DEF PackedTo, Used
  <2> QED BY <1>1, <2>1
<1>6. \A p \in 0 .. end - 1 : \E x \in T : f[x] = p
  <2> SUFFICES ASSUME NEW p \in 0 .. end - 1 PROVE \E x \in T : f[x] = p
    OBVIOUS
  <2>1. PICK i \in Used : p \in RangeOf(dir[i])
    BY PageOfNote DEF Used
  <2>2. <<i, p>> \in T
    BY <1>2, <2>1
  <2> WITNESS <<i, p>> \in T
  <2> QED BY <2>2
<1>7. f \in Injection(T, 0 .. end - 1) /\ f \in Surjection(T, 0 .. end - 1)
  BY <1>4, <1>5, <1>6 DEF Injection, Surjection, IsInjective
<1>8. IsFiniteSet(0 .. end - 1) /\ Cardinality(0 .. end - 1) = end
  BY FS_Interval
<1>9. Cardinality(T) = Cardinality(0 .. end - 1)
  BY <1>7, <1>8, FS_Injection
<1> QED BY <1>8, <1>9 DEF pages_used, T

-----------------------------------------------------------------------------
(* What the operations do to a packed directory.                           *)

\* The least entry of a name is the only one, so none is found only if there
\* is none.
LEMMA FindEntry ==
    ASSUME dir \in Dirs, NEW end \in 0 .. Pages, PackedTo(dir, end), NEW n \in Names
    PROVE  find_entry(n) = {i \in Used : dir[i].name = n}
<1>1. \A i, j \in Used : dir[i].name = dir[j].name => i = j
  BY DEF PackedTo, Used
<1>2. \A i \in Used : i <= i
  BY DEF Used, UsedIn, FileNo
<1> QED BY <1>1, <1>2 DEF find_entry

LEMMA BlankPacked == PackedTo(Blank.dir, 0) /\ Blank \in Images
<1>1. UsedIn(Blank.dir) = {}
  BY DEF Blank, Unused, UsedIn
<1>2. 0 .. 0 - 1 = {}
  OBVIOUS
<1>3. PackedTo(Blank.dir, 0)
  BY <1>1, <1>2 DEF PackedTo
<1>4. Blank \in Images
  BY ControllerPakAssumption DEF ControllerPakAssumption, Blank, Unused, Images, Entry
<1> QED BY <1>3, <1>4

\* A new note goes to the end.
LEMMA AllocatePacked ==
    ASSUME dir \in Dirs, NEW end \in 0 .. Pages, PackedTo(dir, end),
           NEW slot \in FileNo \ Used, NEW n \in Names, NEW need \in Nat, need > 0,
           find_entry(n) = {}, end + need <= Pages,
           NEW d, d = [dir EXCEPT ![slot] = [used |-> TRUE, name |-> n,
                                             start |-> end, count |-> need]]
    PROVE  /\ d \in Dirs
           /\ UsedIn(d) = Used \cup {slot}
           /\ PackedTo(d, end + need)
<1>1. d \in Dirs
  BY DEF Dirs, Entry
<1>2. UsedIn(d) = Used \cup {slot} /\ \A i \in Used : d[i] = dir[i]
  BY DEF UsedIn, Used, Dirs
<1>3. /\ d[slot].used /\ d[slot].name = n
      /\ d[slot].start = end /\ d[slot].count = need
  BY DEF Dirs
<1>4. RangeOf(d[slot]) = end .. end + need - 1
  BY <1>3 DEF RangeOf
<1>5. \A i \in Used : dir[i].name # n
  BY FindEntry
<1>6. \A i \in Used : RangeOf(dir[i]) \cap RangeOf(d[slot]) = {}
  <2> SUFFICES ASSUME NEW i \in Used, NEW p \in RangeOf(dir[i]), p \in RangeOf(d[slot])
               PROVE  FALSE
    OBVIOUS
  <2>1. p \in 0 .. end - 1
    BY DEF PackedTo, Used
  <2> QED BY <1>4, <2>1
<1>7. UNION {RangeOf(d[i]) : i \in UsedIn(d)} = 0 .. end + need - 1
  <2>1. UNION {RangeOf(d[i]) : i \in UsedIn(d)}
          = (UNION {RangeOf(dir[i]) : i \in Used}) \cup RangeOf(d[slot])
    BY <1>2
  <2>2. UNION {RangeOf(dir[i]) : i \in Used} = 0 .. end - 1
    BY DEF PackedTo, Used
  <2>3. end \in Nat
    BY ControllerPakAssumption DEF ControllerPakAssumption
  <2>4. (0 .. end - 1) \cup (end .. end + need - 1) = 0 .. end + need - 1
    BY <2>3
  <2> QED BY <1>4, <2>1, <2>2, <2>4
<1>8. \A i, j \in UsedIn(d) : i # j =>
          /\ d[i].name # d[j].name
          /\ RangeOf(d[i]) \cap RangeOf(d[j]) = {}
  <2>1. \A i, j \in Used : i # j =>
            /\ dir[i].name # dir[j].name
            /\ RangeOf(dir[i]) \cap RangeOf(dir[j]) = {}
    BY DEF PackedTo, Used
  <2>2. \A i \in Used : d[i].name = dir[i].name /\ RangeOf(d[i]) = RangeOf(dir[i])
    BY <1>2
  <2> HIDE DEF PackedTo
  <2> QED BY ONLY <1>2, <1>3, <1>5, <1>6, <2>1, <2>2
<1>9. \A i \in UsedIn(d) : d[i].count > 0
  BY <1>2, <1>3 DEF PackedTo, Used
<1>10. PackedTo(d, end + need)
  <2>1. end \in Nat
    BY ControllerPakAssumption DEF ControllerPakAssumption
  <2>2. end + (need - 1) = (end + need) - 1
    BY <2>1
  <2> QED BY ONLY <1>7, <1>8, <1>9, <2>2 DEF PackedTo
<1> QED BY <1>1, <1>2, <1>10

\* The directory that releasing entry f leaves.
Released(f) ==
    [i \in FileNo |->
       IF i = f THEN Unused
       ELSE IF dir[i].used /\ dir[i].start > dir[f].start
            THEN [dir[i] EXCEPT !.start = @ - dir[f].count]
            ELSE dir[i]]

\* Where the other notes lie: wholly in front of the released one or wholly
\* behind it, and then they move down by its size.
LEMMA ReleaseMoves ==
    ASSUME dir \in Dirs, NEW end \in 0 .. Pages, PackedTo(dir, end), NEW f \in Used,
           NEW i \in Used \ {f}
    PROVE  /\ Released(f)[i].used
           /\ Released(f)[i].name = dir[i].name
           /\ Released(f)[i].count = dir[i].count
           /\ \/ /\ dir[i].start + dir[i].count <= dir[f].start
                 /\ Released(f)[i].start = dir[i].start
              \/ /\ dir[i].start >= dir[f].start + dir[f].count
                 /\ Released(f)[i].start = dir[i].start - dir[f].count
<1>1. /\ dir[f].start \in Nat /\ dir[f].count \in Nat /\ dir[f].count > 0
      /\ dir[i].start \in Nat /\ dir[i].count \in Nat /\ dir[i].count > 0
      /\ dir[i].used /\ i \in FileNo
      /\ dir[i] \in Entry
  BY DEF Dirs, Entry, Used, UsedIn, PackedTo
<1>2. RangeOf(dir[i]) \cap RangeOf(dir[f]) = {}
  BY DEF PackedTo, Used
<1>3. \/ dir[i].start + dir[i].count <= dir[f].start
      \/ dir[i].start >= dir[f].start + dir[f].count
  <2> SUFFICES ASSUME dir[i].start + dir[i].count > dir[f].start,
                      dir[i].start < dir[f].start + dir[f].count
               PROVE  FALSE
    BY <1>1
  <2>1. CASE dir[i].start <= dir[f].start
    <3>1. dir[f].start \in RangeOf(dir[i]) /\ dir[f].start \in RangeOf(dir[f])
      BY <1>1, <2>1 DEF RangeOf
    <3> QED BY <1>2, <3>1
  <2>2. CASE dir[i].start > dir[f].start
    <3>1. dir[i].start \in RangeOf(dir[i]) /\ dir[i].start \in RangeOf(dir[f])
      BY <1>1, <2>2 DEF RangeOf
    <3> QED BY <1>2, <3>1
  <2> QED BY <1>1, <2>1, <2>2
<1>4. CASE dir[i].start + dir[i].count <= dir[f].start
  <2>1. Released(f)[i] = dir[i]
    BY <1>1, <1>4 DEF Released
  <2> QED BY <1>1, <1>4, <2>1
<1>5. CASE dir[i].start >= dir[f].start + dir[f].count
  <2>1. Released(f)[i] = [dir[i] EXCEPT !.start = @ - dir[f].count]
    BY <1>1, <1>5 DEF Released
  <2> QED BY <1>1, <1>5, <2>1 DEF Entry
<1> QED BY <1>3, <1>4, <1>5

LEMMA ReleasePacked ==
    ASSUME dir \in Dirs, NEW end \in 0 .. Pages, PackedTo(dir, end), NEW f \in Used
    PROVE  /\ Released(f) \in Dirs
           /\ UsedIn(Released(f)) = Used \ {f}
           /\ end - dir[f].count \in 0 .. Pages
           /\ PackedTo(Released(f), end - dir[f].count)
<1> DEFINE d == Released(f)
           gap == dir[f].start
           size == dir[f].count
<1>1. \A i \in Used : /\ i \in FileNo
                      /\ dir[i].start \in Nat /\ dir[i].count \in Nat /\ dir[i].count > 0
  BY DEF Dirs, Entry, Used, UsedIn, PackedTo
<1>2. gap + size <= end
  BY NoteBeforeEnd DEF Used
<1>3. UsedIn(d) = Used \ {f}
  <2>1. \A i \in Used \ {f} : d[i].used
    BY ReleaseMoves
  <2>2. ~d[f].used
    BY <1>1 DEF Released, Unused
  <2>3. \A i \in FileNo \ Used : i # f /\ ~d[i].used
    BY DEF Released, Used, UsedIn
  <2> QED BY <1>1, <2>1, <2>2, <2>3 DEF UsedIn
<1>4. d \in Dirs
  <2> SUFFICES ASSUME NEW i \in FileNo PROVE d[i] \in Entry
    BY DEF Released, Dirs
  <2>1. CASE i = f
    BY <2>1 DEF Released, Unused, Entry
  <2>2. CASE i \notin Used
    <3>1. d[i] = dir[i]
      BY <2>2 DEF Released, Used, UsedIn
    <3> QED BY <3>1 DEF Dirs
  <2>3. CASE i \in Used \ {f}
    <3>1. d[i].start \in Nat
      BY <1>1, <2>3, ReleaseMoves
    <3>2. d[i] = dir[i] \/ d[i] = [dir[i] EXCEPT !.start = @ - size]
      BY <2>3 DEF Released
    <3>3. dir[i] \in Entry
      BY DEF Dirs
    <3> QED BY <3>1, <3>2, <3>3 DEF Entry
  <2> QED BY <2>1, <2>2, <2>3
<1>5. \A i \in Used \ {f} : RangeOf(d[i]) =
          IF dir[i].start < gap THEN RangeOf(dir[i])
          ELSE dir[i].start - size .. dir[i].start - size + dir[i].count - 1
  <2> SUFFICES ASSUME NEW i \in Used \ {f}
               PROVE  RangeOf(d[i]) = IF dir[i].start < gap THEN RangeOf(dir[i])
                        ELSE dir[i].start - size .. dir[i].start - size + dir[i].count - 1
    OBVIOUS
  <2> QED BY <1>1, ReleaseMoves DEF RangeOf
<1>6. \A i \in UsedIn(d) : d[i].count > 0
  BY <1>1, <1>3, ReleaseMoves
<1>7. \A i, j \in UsedIn(d) : i # j =>
          /\ d[i].name # d[j].name
          /\ RangeOf(d[i]) \cap RangeOf(d[j]) = {}
  <2> SUFFICES ASSUME NEW i \in Used \ {f}, NEW j \in Used \ {f}, i # j
               PROVE  /\ d[i].name # d[j].name
                      /\ RangeOf(d[i]) \cap RangeOf(d[j]) = {}
    BY <1>3
  <2>1. d[i].name = dir[i].name /\ d[j].name = dir[j].name
    BY ReleaseMoves
  <2>2. RangeOf(dir[i]) \cap RangeOf(dir[j]) = {} /\ dir[i].name # dir[j].name
    BY DEF PackedTo, Used
  <2>3. ASSUME NEW p \in RangeOf(d[i]), p \in RangeOf(d[j]) PROVE FALSE
    <3>0. /\ d[i].start \in Int /\ d[i].count \in Nat
          /\ d[j].start \in Int /\ d[j].count \in Nat
      BY <1>1, ReleaseMoves
    <3>1. /\ p \in Int
          /\ d[i].start <= p /\ p < d[i].start + d[i].count
          /\ d[j].start <= p /\ p < d[j].start + d[j].count
      BY <2>3, <3>0 DEF RangeOf
    <3>2. \/ p \in RangeOf(dir[i]) /\ p \in RangeOf(dir[j])
          \/ p + size \in RangeOf(dir[i]) /\ p + size \in RangeOf(dir[j])
      BY <1>1, <3>1, ReleaseMoves DEF RangeOf
    <3> QED BY <2>2, <3>2
  <2> QED BY <2>1, <2>2, <2>3
<1>8. UNION {RangeOf(d[i]) : i \in UsedIn(d)} = 0 .. end - size - 1
  <2>1. ASSUME NEW i \in Used \ {f}, NEW p \in RangeOf(d[i])
        PROVE  p \in 0 .. end - size - 1
    <3>1. dir[i].start + dir[i].count <= end
      BY NoteBeforeEnd DEF Used
    <3> QED BY <1>1, <1>2, <2>1, <3>1, ReleaseMoves DEF RangeOf
  <2>2. ASSUME NEW p \in 0 .. end - size - 1
        PROVE  \E i \in Used \ {f} : p \in RangeOf(d[i])
    <3>1. CASE p < gap
      <4>1. PICK i \in Used : p \in RangeOf(dir[i])
        BY <1>1, <2>2, PageOfNote DEF Used
      <4>2. i # f
        BY <1>1, <3>1, <4>1 DEF RangeOf
      <4>3. p \in RangeOf(d[i])
        BY <1>1, <3>1, <4>1, <4>2, ReleaseMoves DEF RangeOf
      <4> QED BY <4>2, <4>3
    <3>2. CASE p >= gap
      <4>1. PICK i \in Used : p + size \in RangeOf(dir[i])
        <5>1. p + size \in 0 .. end - 1
          BY <1>1, <2>2
        <5> QED BY <5>1, PageOfNote DEF Used
      <4>2. i # f
        BY <1>1, <3>2, <4>1 DEF RangeOf
      <4>3. p \in RangeOf(d[i])
        BY <1>1, <3>2, <4>1, <4>2, ReleaseMoves DEF RangeOf
      <4> QED BY <4>2, <4>3
    <3> QED BY <1>1, <2>2, <3>1, <3>2
  <2> QED BY <1>3, <2>1, <2>2
<1>9. end - size \in 0 .. Pages
  BY <1>1, <1>2, ControllerPakAssumption DEF ControllerPakAssumption
<1> QED BY <1>3, <1>4, <1>6, <1>7, <1>8, <1>9 DEF PackedTo

-----------------------------------------------------------------------------
(* The invariant.  A blob is as sound as the image it was stored from: a   *)
(* load brings it back.  This is also where stores cut within the pages    *)
(* do no harm, a directory is stored whole or not at all.                  *)

Sound(d) == PackedDir(d) /\ \A i \in UsedIn(d) : d[i].name \in Names

PakInv ==
    /\ TypeOK
    /\ Sound(dir)
    /\ stored # Unreadable => Sound(stored.dir)
    /\ ready => loaded

LEMMA PackedEnd ==
    ASSUME NEW d PROVE PackedDir(d) <=> \E end \in 0 .. Pages : PackedTo(d, end)
  BY DEF PackedDir, PackedTo

LEMMA BlankSound == Sound(Blank.dir) /\ UsedIn(Blank.dir) = {} /\ Blank \in Images
<1>1. UsedIn(Blank.dir) = {}
  BY DEF Blank, Unused, UsedIn
<1>2. 0 \in 0 .. Pages
  BY ControllerPakAssumption DEF ControllerPakAssumption
<1> QED BY <1>1, <1>2, BlankPacked, PackedEnd DEF Sound

\* Whatever a store leaves on the medium is sound if the image stored is.
LEMMA StoreSound ==
    ASSUME PakInv, Image' \in Images, Sound(dir'), pak_store
    PROVE  /\ stored' \in Images \cup {Unreadable}
           /\ stored' # Unreadable => Sound(stored'.dir)
<1>1. CASE stored' \in {Image', stored, Unreadable}
  BY <1>1 DEF PakInv, TypeOK, Image
<1>2. ASSUME stored # Unreadable, NEW end \in SectorEnds, stored' = TornAt(Image', end)
      PROVE  stored' \in Images /\ Sound(stored'.dir)
  <2>1. stored \in Images
    BY <1>2 DEF PakInv, TypeOK
  <2>2. stored'.dir = dir'
    BY <1>2 DEF TornAt, Image
  <2> QED BY <1>2, <2>1, <2>2 DEF TornAt, Images, Image
<1> QED BY <1>1, <1>2 DEF pak_store

LEMMA PakInit == Init => PakInv
<1> SUFFICES ASSUME Init PROVE PakInv
  OBVIOUS
<1>1. Image = Blank
  BY DEF Init, Image, Blank
<1>2. dir = Blank.dir
  BY DEF Init
<1> QED BY <1>1, <1>2, BlankSound DEF Init, PakInv, TypeOK

LEMMA AllocateInv ==
    ASSUME PakInv, NEW n \in Names, NEW need \in Nat, osPfsAllocateFile(n, need)
    PROVE  PakInv'
<1>1. dir \in Dirs /\ data \in [PageNo -> Values]
  BY DEF PakInv, TypeOK, Images, Image, Dirs
<1>2. PICK end \in 0 .. Pages : PackedTo(dir, end)
  BY PackedEnd DEF PakInv, Sound
<1>3. first_free_page = end /\ pages_used = end
  BY <1>1, <1>2, FirstFreePage, PagesUsed
<1>4. PICK slot \in FileNo \ Used :
          dir' = [dir EXCEPT ![slot] = [used |-> TRUE, name |-> n,
                                        start |-> end, count |-> need]]
  BY <1>3 DEF osPfsAllocateFile
<1>5. need > 0 /\ find_entry(n) = {} /\ end + need <= Pages
  BY <1>3 DEF osPfsAllocateFile
<1>6. dir' \in Dirs /\ UsedIn(dir') = Used \cup {slot} /\ PackedTo(dir', end + need)
  BY <1>1, <1>2, <1>4, <1>5, AllocatePacked
<1>7. Sound(dir')
  <2>1. end + need \in 0 .. Pages
    BY <1>5, ControllerPakAssumption DEF ControllerPakAssumption
  <2>2. ASSUME NEW i \in UsedIn(dir') PROVE dir'[i].name \in Names
    <3>1. CASE i = slot
      BY <1>1, <1>4, <3>1 DEF Dirs
    <3>2. CASE i \in Used /\ i # slot
      BY <1>1, <1>4, <3>2 DEF Dirs, PakInv, Sound, Used, UsedIn
    <3> QED BY <1>6, <2>2, <3>1, <3>2
  <2> QED BY <1>6, <2>1, <2>2, PackedEnd DEF Sound
<1>8. data' \in [PageNo -> Values]
  BY <1>1, ControllerPakAssumption DEF ControllerPakAssumption, osPfsAllocateFile
<1>9. Image' \in Images
  BY <1>6, <1>8 DEF Image, Images, Dirs
<1>10. pak_store /\ UNCHANGED <<loaded, ready>>
  BY DEF osPfsAllocateFile
<1> QED BY <1>7, <1>9, <1>10, StoreSound DEF PakInv, TypeOK

\* What osPfsDeleteFile makes of the directory and the pages.
LEMMA DeleteStep ==
    ASSUME PakInv, NEW n \in Names, osPfsDeleteFile(n),
           NEW end \in 0 .. Pages, PackedTo(dir, end)
    PROVE  \E f \in Used :
              /\ dir[f].name = n
              /\ dir' = Released(f)
              /\ data' = [p \in PageNo |->
                            IF p \in dir[f].start .. end - dir[f].count - 1
                            THEN data[p + dir[f].count] ELSE data[p]]
<1>1. dir \in Dirs
  BY DEF PakInv, TypeOK, Images, Image, Dirs
<1>2. PICK f \in find_entry(n) : pak_release(f)
  BY DEF osPfsDeleteFile
<1>3. f \in Used /\ dir[f].name = n
  BY <1>2 DEF find_entry
<1>4. first_free_page = end
  BY <1>1, FirstFreePage
<1>5. dir' = Released(f)
  BY <1>2 DEF pak_release, Released
<1> QED BY <1>2, <1>3, <1>4, <1>5 DEF pak_release

LEMMA DeleteInv ==
    ASSUME PakInv, NEW n \in Names, osPfsDeleteFile(n)
    PROVE  PakInv'
<1>1. dir \in Dirs /\ data \in [PageNo -> Values]
  BY DEF PakInv, TypeOK, Images, Image, Dirs
<1>2. PICK end \in 0 .. Pages : PackedTo(dir, end)
  BY PackedEnd DEF PakInv, Sound
<1>3. PICK f \in Used :
          /\ dir[f].name = n
          /\ dir' = Released(f)
          /\ data' = [p \in PageNo |->
                        IF p \in dir[f].start .. end - dir[f].count - 1
                        THEN data[p + dir[f].count] ELSE data[p]]
  BY <1>2, DeleteStep
<1>4. /\ dir' \in Dirs /\ UsedIn(dir') = Used \ {f}
      /\ end - dir[f].count \in 0 .. Pages /\ PackedTo(dir', end - dir[f].count)
  BY <1>1, <1>2, <1>3, ReleasePacked
<1>5. Sound(dir')
  <2>1. \A i \in UsedIn(dir') : dir'[i].name \in Names
    BY <1>1, <1>2, <1>3, <1>4, ReleaseMoves DEF PakInv, Sound, Used
  <2> QED BY <1>4, <2>1, PackedEnd DEF Sound
<1>6. data' \in [PageNo -> Values]
  <2>1. dir[f].start \in Nat /\ dir[f].count \in Nat
    BY <1>1 DEF Dirs, Entry, Used, UsedIn
  <2>2. ASSUME NEW p \in PageNo, p \in dir[f].start .. end - dir[f].count - 1
        PROVE  p + dir[f].count \in PageNo
    BY <2>1, <2>2, ControllerPakAssumption DEF ControllerPakAssumption, PageNo
  <2> QED BY <1>1, <1>3, <2>2
<1>7. Image' \in Images
  BY <1>4, <1>6 DEF Image, Images, Dirs
<1>8. pak_store /\ UNCHANGED <<loaded, ready>>
  BY DEF osPfsDeleteFile
<1> QED BY <1>5, <1>7, <1>8, StoreSound DEF PakInv, TypeOK

LEMMA WriteInv ==
    ASSUME PakInv, NEW f \in FileNo, NEW w \in Pieces, WriteFile(f, w)
    PROVE  PakInv'
<1>1. data \in [PageNo -> Values]
  BY DEF PakInv, TypeOK, Images, Image
<1>2. \A k \in DOMAIN w : w[k] \in Values
  BY DEF Pieces
<1>3. data' \in [PageNo -> Values]
  BY <1>1, <1>2 DEF WriteFile
<1>4. UNCHANGED <<dir, loaded, ready>> /\ pak_store
  BY DEF WriteFile
<1>5. Image' \in Images /\ Sound(dir')
  BY <1>3, <1>4 DEF PakInv, TypeOK, Image, Images
<1> QED BY <1>4, <1>5, StoreSound DEF PakInv, TypeOK

\* A step that brings in a whole sound image.
LEMMA BecomeSound ==
    ASSUME NEW image \in Images, Sound(image.dir), Become(image)
    PROVE  Image' \in Images /\ Sound(dir')
  BY DEF Become, Image, Images

LEMMA PakStep == PakInv /\ [PakNext]_pakVars => PakInv'
<1> SUFFICES ASSUME PakInv, [PakNext]_pakVars PROVE PakInv'
  OBVIOUS
<1>1. ASSUME NEW present \in BOOLEAN, osPfsInit(present) PROVE PakInv'
  <2>1. Image' \in Images /\ Sound(dir')
    <3>1. CASE UNCHANGED <<dir, data>>
      BY <3>1 DEF PakInv, TypeOK, Image
    <3>2. CASE Become(Blank)
      BY <3>2, BlankSound, BecomeSound
    <3>3. CASE stored # Unreadable /\ Become(stored)
      BY <3>3, BecomeSound DEF PakInv, TypeOK
    <3> QED BY <1>1, <3>1, <3>2, <3>3 DEF osPfsInit, pak_load
  <2>2. loaded' \in BOOLEAN /\ (ready' => loaded')
    BY <1>1 DEF osPfsInit, pak_load, PakInv, TypeOK
  <2> QED BY <1>1, <2>1, <2>2 DEF osPfsInit, PakInv, TypeOK
<1>2. CASE osPfsReFormat
  <2>1. Image' \in Images /\ Sound(dir')
    BY <1>2, BlankSound, BecomeSound DEF osPfsReFormat
  <2> QED BY <1>2, <2>1, StoreSound DEF osPfsReFormat, PakInv, TypeOK
<1>3. ASSUME NEW n \in Names, NEW need \in Nat, osPfsAllocateFile(n, need) PROVE PakInv'
  BY <1>3, AllocateInv
<1>4. ASSUME NEW n \in Names, osPfsDeleteFile(n) PROVE PakInv'
  BY <1>4, DeleteInv
<1>5. ASSUME NEW f \in FileNo, NEW w \in Pieces, WriteFile(f, w) PROVE PakInv'
  BY <1>5, WriteInv
<1>6. CASE PowerCut
  <2>1. Image' \in Images /\ Sound(dir')
    BY <1>6, BlankSound, BecomeSound DEF PowerCut
  <2> QED BY <1>6, <2>1 DEF PowerCut, PakInv, TypeOK
<1>7. CASE UNCHANGED pakVars
  BY <1>7 DEF pakVars, PakInv, TypeOK, Image
<1> QED BY <1>1, <1>2, <1>3, <1>4, <1>5, <1>6, <1>7 DEF PakNext

\* The pak and its blob keep their types (os_pfs.c:57-66).
THEOREM PakTypeOK == PakSpec => []TypeOK
<1>1. PakInv => TypeOK
  BY DEF PakInv
<1> QED BY PakInit, PakStep, <1>1, PTL DEF PakSpec

\* Notes stay packed from page zero up, without overlap, under any sequence of
\* allocations, deletions, failed stores, reloads and power cuts.
THEOREM PakPacked == PakSpec => []Packed
<1>1. PakInv => Packed
  BY DEF PakInv, Sound, Packed
<1> QED BY PakInit, PakStep, <1>1, PTL DEF PakSpec

-----------------------------------------------------------------------------
(* The refinement.  Names are distinct, so what a note holds is what the   *)
(* pages of its entry hold; and what an operation does not mean to change  *)
(* it may move but not alter.                                              *)

PagesOf(image, i) ==
    [k \in 0 .. image.dir[i].count - 1 |-> image.data[image.dir[i].start + k]]

\* A function that gives under each name the pages of that name's entry.
ByEntry(notes, image, d) ==
    /\ DOMAIN notes = {d[i].name : i \in UsedIn(d)}
    /\ notes = [n \in DOMAIN notes |-> notes[n]]
    /\ \A i \in UsedIn(d) : notes[d[i].name] = PagesOf(image, i)

LEMMA NotesByEntry ==
    ASSUME NEW image, NEW d, d = image.dir, PackedDir(d)
    PROVE  ByEntry(NotesOf(image), image, d)
<1> DEFINE of(n) == CHOOSE i \in UsedIn(d) : d[i].name = n
<1>1. \A i, j \in UsedIn(d) : d[i].name = d[j].name => i = j
  BY DEF PackedDir
<1>2. ASSUME NEW i \in UsedIn(d) PROVE of(d[i].name) = i
  BY <1>1
<1>3. NotesOf(image) = [n \in {d[i].name : i \in UsedIn(d)} |-> PagesOf(image, of(n))]
  BY DEF NotesOf, PagesOf
<1>4. DOMAIN NotesOf(image) = {d[i].name : i \in UsedIn(d)}
  BY <1>3
<1>5. NotesOf(image) = [n \in DOMAIN NotesOf(image) |-> NotesOf(image)[n]]
  BY <1>3
<1> HIDE DEF of
<1>6. ASSUME NEW i \in UsedIn(d) PROVE NotesOf(image)[d[i].name] = PagesOf(image, i)
  BY <1>2, <1>3
<1> QED BY <1>4, <1>5, <1>6 DEF ByEntry

LEMMA NoNotesOfBlank == NotesOf(Blank) = NS!NoNotes
<1>1. UsedIn(Blank.dir) = {}
  BY BlankSound
<1> QED BY <1>1 DEF NotesOf, NS!NoNotes

\* The blob's notes as NoteStore's kept.
Stored == NotesOf(IF stored = Unreadable THEN Blank ELSE stored)

LEMMA StoreIsSave ==
    ASSUME SectorEnds = {}, pak_store
    PROVE  Stored' \in {NotesOf(Image'), Stored, NS!NoNotes}
<1>1. stored' \in {Image', stored, Unreadable}
  BY DEF pak_store
<1>2. CASE stored' = Unreadable
  BY <1>2, NoNotesOfBlank DEF Stored
<1>3. CASE stored' # Unreadable /\ stored' = Image'
  BY <1>3 DEF Stored
<1>4. CASE stored' = stored
  BY <1>4 DEF Stored
<1> QED BY <1>1, <1>2, <1>3, <1>4

\* A new note starts empty and the others stay.
LEMMA AllocateNotes ==
    ASSUME PakInv, NEW n \in Names, NEW need \in Nat, osPfsAllocateFile(n, need)
    PROVE  /\ n \notin DOMAIN NotesOf(Image)
           /\ n \in DOMAIN NotesOf(Image')
           /\ NotesOf(Image')[n] = [k \in 0 .. need - 1 |-> Zero]
           /\ [m \in DOMAIN NotesOf(Image') \ {n} |-> NotesOf(Image')[m]] = NotesOf(Image)
<1>1. dir \in Dirs /\ data \in [PageNo -> Values]
  BY DEF PakInv, TypeOK, Images, Image, Dirs
<1>2. PICK end \in 0 .. Pages : PackedTo(dir, end)
  BY PackedEnd DEF PakInv, Sound
<1>3. first_free_page = end /\ pages_used = end
  BY <1>1, <1>2, FirstFreePage, PagesUsed
<1>4. PICK slot \in FileNo \ Used :
          dir' = [dir EXCEPT ![slot] = [used |-> TRUE, name |-> n,
                                        start |-> end, count |-> need]]
  BY <1>3 DEF osPfsAllocateFile
<1>5. /\ need > 0 /\ find_entry(n) = {} /\ end + need <= Pages
      /\ data' = [p \in PageNo |-> IF p \in end .. end + need - 1 THEN Zero ELSE data[p]]
  BY <1>3 DEF osPfsAllocateFile
<1>6. UsedIn(dir') = Used \cup {slot}
  BY <1>1, <1>2, <1>4, <1>5, AllocatePacked
<1>7. end \in Nat /\ Pages \in Nat
  BY ControllerPakAssumption DEF ControllerPakAssumption
<1>8. ASSUME NEW i \in Used
      PROVE  /\ dir'[i] = dir[i]
             /\ PagesOf(Image', i) = PagesOf(Image, i)
  <2>1. dir'[i] = dir[i]
    BY <1>1, <1>4
  <2>2. dir[i].start \in Nat /\ dir[i].count \in Nat
    BY <1>1 DEF Dirs, Entry, Used, UsedIn
  <2>3. dir[i].start + dir[i].count <= end
    BY <1>1, <1>2, NoteBeforeEnd DEF Used
  <2>4. ASSUME NEW k \in 0 .. dir[i].count - 1
        PROVE  data'[dir[i].start + k] = data[dir[i].start + k]
    <3> DEFINE p == dir[i].start + k
    <3>0. p \in Nat /\ p < end
      BY <1>7, <2>2, <2>3, <2>4
    <3>1. p \in PageNo /\ p \notin end .. end + need - 1
      BY <1>7, <3>0 DEF PageNo
    <3> HIDE DEF p
    <3>2. data'[p] = data[p]
      BY <1>5, <3>1
    <3> QED BY <3>2 DEF p
  <2> QED BY <2>1, <2>4 DEF PagesOf, Image
<1>9. dir'[slot].name = n
  BY <1>1, <1>4 DEF Dirs
<1>10. PagesOf(Image', slot) = [k \in 0 .. need - 1 |-> Zero]
  <2>1. dir'[slot].start = end /\ dir'[slot].count = need
    BY <1>1, <1>4 DEF Dirs
  <2>2. ASSUME NEW k \in 0 .. need - 1 PROVE data'[end + k] = Zero
    BY <1>5, <1>7, <2>2 DEF PageNo
  <2> QED BY <2>1, <2>2 DEF PagesOf, Image
<1>11. PackedDir(dir) /\ PackedDir(dir')
  BY AllocateInv DEF PakInv, Sound
<1>0. Image.dir = dir /\ Image'.dir = dir'
  BY DEF Image
<1>12. /\ DOMAIN NotesOf(Image) = {dir[i].name : i \in Used}
       /\ NotesOf(Image) = [m \in DOMAIN NotesOf(Image) |-> NotesOf(Image)[m]]
       /\ \A i \in Used : NotesOf(Image)[dir[i].name] = PagesOf(Image, i)
  <2>1. ByEntry(NotesOf(Image), Image, dir)
    BY <1>0, <1>11, NotesByEntry
  <2> QED BY <2>1 DEF ByEntry, Used
<1>13. /\ DOMAIN NotesOf(Image') = {dir'[i].name : i \in UsedIn(dir')}
       /\ \A i \in UsedIn(dir') : NotesOf(Image')[dir'[i].name] = PagesOf(Image', i)
  <2>1. ByEntry(NotesOf(Image'), Image', dir')
    BY <1>0, <1>11, NotesByEntry
  <2> QED BY <2>1 DEF ByEntry
<1>14. \A i \in Used : dir[i].name # n
  BY <1>1, <1>2, <1>5, FindEntry
<1>15. DOMAIN NotesOf(Image') \ {n} = DOMAIN NotesOf(Image)
  BY <1>6, <1>8, <1>9, <1>12, <1>13, <1>14
<1>16. ASSUME NEW m \in DOMAIN NotesOf(Image) PROVE NotesOf(Image')[m] = NotesOf(Image)[m]
  BY <1>6, <1>8, <1>12, <1>13
<1>17. [m \in DOMAIN NotesOf(Image') \ {n} |-> NotesOf(Image')[m]] = NotesOf(Image)
  BY ONLY <1>12, <1>15, <1>16
<1>18. n \in DOMAIN NotesOf(Image') /\ NotesOf(Image')[n] = PagesOf(Image', slot)
  BY <1>6, <1>9, <1>13
<1> QED BY <1>10, <1>12, <1>14, <1>17, <1>18

\* Deleting a note moves others and changes none.
LEMMA DeleteNotes ==
    ASSUME PakInv, NEW n \in Names, osPfsDeleteFile(n)
    PROVE  /\ n \in DOMAIN NotesOf(Image)
           /\ NotesOf(Image') = [m \in DOMAIN NotesOf(Image) \ {n} |-> NotesOf(Image)[m]]
<1>1. dir \in Dirs
  BY DEF PakInv, TypeOK, Images, Image, Dirs
<1>2. PICK end \in 0 .. Pages : PackedTo(dir, end)
  BY PackedEnd DEF PakInv, Sound
<1>3. PICK f \in Used :
          /\ dir[f].name = n
          /\ dir' = Released(f)
          /\ data' = [p \in PageNo |->
                        IF p \in dir[f].start .. end - dir[f].count - 1
                        THEN data[p + dir[f].count] ELSE data[p]]
  BY <1>2, DeleteStep
<1>4. UsedIn(dir') = Used \ {f}
  BY <1>1, <1>2, <1>3, ReleasePacked
<1>5. end \in Nat /\ Pages \in Nat /\ end <= Pages
  BY ControllerPakAssumption DEF ControllerPakAssumption
<1>6. ASSUME NEW i \in Used \ {f}
      PROVE  /\ dir'[i].name = dir[i].name
             /\ PagesOf(Image', i) = PagesOf(Image, i)
  <2>1. /\ dir[f].start \in Nat /\ dir[f].count \in Nat
        /\ dir[i].start \in Nat /\ dir[i].count \in Nat
    BY <1>1 DEF Dirs, Entry, Used, UsedIn
  <2>2. dir[i].start + dir[i].count <= end
    BY <1>1, <1>2, NoteBeforeEnd DEF Used
  <2>3. /\ dir'[i].name = dir[i].name /\ dir'[i].count = dir[i].count
        /\ \/ /\ dir[i].start + dir[i].count <= dir[f].start
              /\ dir'[i].start = dir[i].start
           \/ /\ dir[i].start >= dir[f].start + dir[f].count
              /\ dir'[i].start = dir[i].start - dir[f].count
    BY <1>1, <1>2, <1>3, ReleaseMoves
  <2>4. ASSUME NEW k \in 0 .. dir[i].count - 1
        PROVE  data'[dir'[i].start + k] = data[dir[i].start + k]
    <3>1. CASE dir'[i].start = dir[i].start /\ dir[i].start + dir[i].count <= dir[f].start
      <4> DEFINE p == dir[i].start + k
      <4>1. p \in PageNo /\ p \notin dir[f].start .. end - dir[f].count - 1
        BY <1>5, <2>1, <2>2, <2>4, <3>1 DEF PageNo
      <4> HIDE DEF p
      <4>2. data'[p] = data[p]
        BY <1>3, <4>1
      <4> QED BY <3>1, <4>2 DEF p
    <3>2. CASE /\ dir[i].start >= dir[f].start + dir[f].count
               /\ dir'[i].start = dir[i].start - dir[f].count
      <4> DEFINE p == dir'[i].start + k
      <4>1. /\ p \in PageNo /\ p \in dir[f].start .. end - dir[f].count - 1
            /\ p + dir[f].count = dir[i].start + k
        BY <1>5, <2>1, <2>2, <2>4, <3>2 DEF PageNo
      <4> HIDE DEF p
      <4>2. data'[p] = data[p + dir[f].count]
        BY <1>3, <4>1
      <4> QED BY <4>1, <4>2 DEF p
    <3> QED BY <2>3, <3>1, <3>2
  <2> QED BY <2>3, <2>4 DEF PagesOf, Image
<1>7. PackedDir(dir) /\ PackedDir(dir')
  BY DeleteInv DEF PakInv, Sound
<1>0. Image.dir = dir /\ Image'.dir = dir'
  BY DEF Image
<1>8. /\ DOMAIN NotesOf(Image) = {dir[i].name : i \in Used}
      /\ \A i \in Used : NotesOf(Image)[dir[i].name] = PagesOf(Image, i)
  <2>1. ByEntry(NotesOf(Image), Image, dir)
    BY <1>0, <1>7, NotesByEntry
  <2> QED BY <2>1 DEF ByEntry, Used
<1>9. /\ DOMAIN NotesOf(Image') = {dir'[i].name : i \in UsedIn(dir')}
      /\ NotesOf(Image') = [m \in DOMAIN NotesOf(Image') |-> NotesOf(Image')[m]]
      /\ \A i \in UsedIn(dir') : NotesOf(Image')[dir'[i].name] = PagesOf(Image', i)
  <2>1. ByEntry(NotesOf(Image'), Image', dir')
    BY <1>0, <1>7, NotesByEntry
  <2> QED BY <2>1 DEF ByEntry
<1>10. \A i \in Used \ {f} : dir[i].name # n
  BY <1>2, <1>3 DEF PackedTo, Used
<1>11. DOMAIN NotesOf(Image') = DOMAIN NotesOf(Image) \ {n}
  BY <1>3, <1>4, <1>6, <1>8, <1>9, <1>10
<1>12. ASSUME NEW m \in DOMAIN NotesOf(Image') PROVE NotesOf(Image')[m] = NotesOf(Image)[m]
  BY <1>4, <1>6, <1>8, <1>9
<1>13. n \in DOMAIN NotesOf(Image)
  BY <1>3, <1>8
<1> QED BY ONLY <1>9, <1>11, <1>12, <1>13

\* Writing to a note changes no other note and no note's size.
LEMMA WriteNotes ==
    ASSUME PakInv, NEW f \in FileNo, NEW w \in Pieces, WriteFile(f, w)
    PROVE  LET n == dir[f].name IN
           /\ n \in Names /\ n \in DOMAIN NotesOf(Image)
           /\ n \in DOMAIN NotesOf(Image')
           /\ NotesOf(Image')[n] \in [DOMAIN NotesOf(Image)[n] -> Values]
           /\ [m \in DOMAIN NotesOf(Image') \ {n} |-> NotesOf(Image')[m]]
                = [m \in DOMAIN NotesOf(Image) \ {n} |-> NotesOf(Image)[m]]
<1> DEFINE n == dir[f].name
<1>1. dir \in Dirs /\ data' \in [PageNo -> Values]
  BY WriteInv DEF PakInv, TypeOK, Images, Image, Dirs
<1>2. PICK end \in 0 .. Pages : PackedTo(dir, end)
  BY PackedEnd DEF PakInv, Sound
<1>3. /\ f \in Used /\ dir' = dir
      /\ data' = [p \in PageNo |->
                    IF p \in RangeOf(dir[f]) /\ p - dir[f].start \in DOMAIN w
                    THEN w[p - dir[f].start] ELSE data[p]]
  BY DEF WriteFile
<1>4. n \in Names
  BY <1>3 DEF PakInv, Sound, Used
<1>5. ASSUME NEW i \in Used
      PROVE  /\ DOMAIN PagesOf(Image, i) = 0 .. dir[i].count - 1
             /\ DOMAIN PagesOf(Image', i) = 0 .. dir[i].count - 1
             /\ \A k \in 0 .. dir[i].count - 1 : dir[i].start + k \in RangeOf(dir[i])
             /\ \A k \in 0 .. dir[i].count - 1 : dir[i].start + k \in PageNo
  <2>1. dir[i].start \in Nat /\ dir[i].count \in Nat
    BY <1>1 DEF Dirs, Entry, Used, UsedIn
  <2>2. dir[i].start + dir[i].count <= end /\ end \in Nat /\ end <= Pages /\ Pages \in Nat
    BY <1>1, <1>2, NoteBeforeEnd, ControllerPakAssumption DEF Used, ControllerPakAssumption
  <2>3. DOMAIN PagesOf(Image, i) = 0 .. dir[i].count - 1
    BY DEF PagesOf, Image
  <2>4. DOMAIN PagesOf(Image', i) = 0 .. dir[i].count - 1
    BY <1>3 DEF PagesOf, Image
  <2>5. ASSUME NEW k \in 0 .. dir[i].count - 1
        PROVE  dir[i].start + k \in RangeOf(dir[i]) /\ dir[i].start + k \in PageNo
    BY <2>1, <2>2, <2>5 DEF RangeOf, PageNo
  <2> QED BY <2>3, <2>4, <2>5
<1>6. ASSUME NEW i \in Used \ {f} PROVE PagesOf(Image', i) = PagesOf(Image, i)
  <2>1. RangeOf(dir[i]) \cap RangeOf(dir[f]) = {}
    BY <1>2, <1>3 DEF PackedTo, Used
  <2>2. ASSUME NEW k \in 0 .. dir[i].count - 1
        PROVE  data'[dir[i].start + k] = data[dir[i].start + k]
    BY <1>3, <1>5, <2>1, <2>2
  <2> QED BY <1>3, <2>2 DEF PagesOf, Image
<1>7. PagesOf(Image', f) \in [0 .. dir[f].count - 1 -> Values]
  <2>1. ASSUME NEW k \in 0 .. dir[f].count - 1 PROVE data'[dir[f].start + k] \in Values
    BY <1>1, <1>3, <1>5
  <2> QED BY <1>3, <2>1 DEF PagesOf, Image
<1>8. PackedDir(dir)
  BY WriteInv DEF PakInv, Sound
<1>0. Image.dir = dir /\ Image'.dir = dir
  BY <1>3 DEF Image
<1>9. /\ DOMAIN NotesOf(Image) = {dir[i].name : i \in Used}
      /\ \A i \in Used : NotesOf(Image)[dir[i].name] = PagesOf(Image, i)
  <2>1. ByEntry(NotesOf(Image), Image, dir)
    BY <1>0, <1>8, NotesByEntry
  <2> QED BY <2>1 DEF ByEntry, Used
<1>10. /\ DOMAIN NotesOf(Image') = {dir[i].name : i \in Used}
       /\ \A i \in Used : NotesOf(Image')[dir[i].name] = PagesOf(Image', i)
  <2>1. ByEntry(NotesOf(Image'), Image', dir)
    BY <1>0, <1>8, NotesByEntry
  <2> QED BY <2>1 DEF ByEntry, Used
<1>11. ASSUME NEW m \in DOMAIN NotesOf(Image) \ {n}
       PROVE  NotesOf(Image')[m] = NotesOf(Image)[m]
  BY <1>6, <1>9, <1>10
<1>12. n \in DOMAIN NotesOf(Image) /\ n \in DOMAIN NotesOf(Image')
  BY <1>3, <1>9, <1>10
<1>13. NotesOf(Image')[n] \in [DOMAIN NotesOf(Image)[n] -> Values]
  BY <1>3, <1>5, <1>7, <1>9, <1>10
<1>14. [m \in DOMAIN NotesOf(Image') \ {n} |-> NotesOf(Image')[m]]
         = [m \in DOMAIN NotesOf(Image) \ {n} |-> NotesOf(Image)[m]]
  BY <1>9, <1>10, <1>11
<1> QED BY <1>4, <1>12, <1>13, <1>14

-----------------------------------------------------------------------------
(* Every step of the pak is a step of the note store or changes nothing    *)
(* that store has, provided no store is cut between the directory and the  *)
(* pages.                                                                  *)

LEMMA PakInitRefines == Init => NS!Init
<1> SUFFICES ASSUME Init PROVE NS!Init
  OBVIOUS
<1>1. Image = Blank
  BY DEF Init, Image, Blank
<1>2. stored = Unreadable /\ loaded = FALSE
  BY DEF Init
<1>3. NotesOf(Image) = NS!NoNotes
  BY <1>1, NoNotesOfBlank
<1>4. NotesOf(IF stored = Unreadable THEN Blank ELSE stored) = NS!NoNotes
  BY <1>2, NoNotesOfBlank
<1> QED BY <1>2, <1>3, <1>4 DEF NS!Init

LEMMA PakStepRefines ==
    ASSUME SectorEnds = {}, PakInv, [PakNext]_pakVars
    PROVE  [NS!Next]_(NS!vars)
<1>1. ASSUME NEW present \in BOOLEAN, osPfsInit(present) PROVE [NS!Next]_(NS!vars)
  <2>1. stored' = stored
    BY <1>1 DEF osPfsInit
  <2>2. CASE UNCHANGED <<dir, data, loaded>>
    BY <2>1, <2>2 DEF NS!vars, Image
  <2>3. CASE ~loaded /\ loaded' = TRUE /\ Become(Blank)
    <3>1. Image' = Blank
      BY <2>3 DEF Become, Image, Blank
    <3>2. NotesOf(Image)' = NS!NoNotes
      BY <3>1, NoNotesOfBlank
    <3>3. NS!Load
      BY <2>1, <2>3, <3>2 DEF NS!Load
    <3> QED BY <3>3 DEF NS!Next
  <2>4. CASE ~loaded /\ loaded' = TRUE /\ stored # Unreadable /\ Become(stored)
    <3>1. stored \in Images
      BY <2>4 DEF PakInv, TypeOK
    <3>2. Image' = stored
      BY <2>4, <3>1 DEF Become, Image, Images
    <3>3. NotesOf(Image)' = NotesOf(IF stored = Unreadable THEN Blank ELSE stored)
      BY <2>4, <3>2
    <3>4. NS!Load
      BY <2>1, <2>4, <3>3 DEF NS!Load
    <3> QED BY <3>4 DEF NS!Next
  <2>5. loaded \in BOOLEAN
    BY DEF PakInv, TypeOK
  <2> QED BY <1>1, <2>2, <2>3, <2>4, <2>5 DEF osPfsInit, pak_load
<1>2. CASE osPfsReFormat
  <2>1. Image' = Blank
    BY <1>2 DEF osPfsReFormat, Become, Image, Blank
  <2>2. NotesOf(Image)' = NS!NoNotes
    BY <2>1, NoNotesOfBlank
  <2>3. NS!Save
    BY <1>2, StoreIsSave DEF osPfsReFormat, Stored, NS!Save
  <2>4. NS!Format
    BY <1>2, <2>2, <2>3 DEF osPfsReFormat, NS!Format
  <2> QED BY <2>4 DEF NS!Next
<1>3. ASSUME NEW n \in Names, NEW need \in Nat, osPfsAllocateFile(n, need)
      PROVE  [NS!Next]_(NS!vars)
  <2>1. loaded = TRUE /\ loaded' = loaded
    BY <1>3 DEF osPfsAllocateFile, PakInv, TypeOK
  <2>2. NS!Save
    BY <1>3, StoreIsSave DEF osPfsAllocateFile, Stored, NS!Save
  <2>3. NS!Create(n)
    BY <1>3, <2>1, <2>2, AllocateNotes DEF NS!Create, NS!Others
  <2> QED BY <2>3 DEF NS!Next
<1>4. ASSUME NEW n \in Names, osPfsDeleteFile(n) PROVE [NS!Next]_(NS!vars)
  <2>1. loaded = TRUE /\ loaded' = loaded
    BY <1>4 DEF osPfsDeleteFile, PakInv, TypeOK
  <2>2. NS!Save
    BY <1>4, StoreIsSave DEF osPfsDeleteFile, Stored, NS!Save
  <2>3. NS!Delete(n)
    BY <1>4, <2>1, <2>2, DeleteNotes DEF NS!Delete, NS!Others
  <2> QED BY <2>3 DEF NS!Next
<1>5. ASSUME NEW f \in FileNo, NEW w \in Pieces, WriteFile(f, w) PROVE [NS!Next]_(NS!vars)
  <2>1. loaded = TRUE /\ loaded' = loaded
    BY <1>5 DEF WriteFile, PakInv, TypeOK
  <2>2. NS!Save
    BY <1>5, StoreIsSave DEF WriteFile, Stored, NS!Save
  <2>3. PICK n \in Names : n = dir[f].name
    BY <1>5, WriteNotes
  <2>4. /\ n \in DOMAIN NotesOf(Image) /\ n \in DOMAIN NotesOf(Image')
        /\ NotesOf(Image')[n] \in [DOMAIN NotesOf(Image)[n] -> Values]
        /\ [m \in DOMAIN NotesOf(Image') \ {n} |-> NotesOf(Image')[m]]
             = [m \in DOMAIN NotesOf(Image) \ {n} |-> NotesOf(Image)[m]]
    BY <1>5, <2>3, WriteNotes
  <2>5. NS!Write(n)
    BY <2>1, <2>2, <2>4 DEF NS!Write, NS!Others
  <2> QED BY <2>5 DEF NS!Next
<1>6. CASE PowerCut
  <2>1. Image' = Blank
    BY <1>6 DEF PowerCut, Become, Image, Blank
  <2>2. NotesOf(Image)' = NS!NoNotes
    BY <2>1, NoNotesOfBlank
  <2>3. NS!PowerCut
    BY <1>6, <2>2 DEF PowerCut, NS!PowerCut
  <2> QED BY <2>3 DEF NS!Next
<1>7. CASE UNCHANGED pakVars
  BY <1>7 DEF pakVars, Image, NS!vars
<1> QED BY <1>1, <1>2, <1>3, <1>4, <1>5, <1>6, <1>7 DEF PakNext

\* The pak implements the store of notes when a torn store makes the blob
\* unreadable: deleting a note moves the others without changing them, and a
\* reboot finds the notes of the last store, those before it, or none
\* (os_pfs.c:157-175).
THEOREM PakIsNoteStore ==
    ASSUME SectorEnds = {}
    PROVE  PakSpec => IsNoteStore
<1>1. PakInv /\ [PakNext]_pakVars => [NS!Next]_(NS!vars)
  BY PakStepRefines
<1> QED BY PakInit, PakStep, PakInitRefines, <1>1, PTL DEF PakSpec, IsNoteStore, NS!Spec

-----------------------------------------------------------------------------
(* The ghosts' file.                                                       *)

\* Where the recordings lie: one behind the other, after the table.
Off(i) == 1 + i * GhostPages

LEMMA Offsets ==
    /\ \A i \in Nat : Off(i) \in Nat /\ Off(i) >= 1 /\ Off(i + 1) = Off(i) + GhostPages
    /\ \A i, j \in Nat : i < j => Off(i) + GhostPages <= Off(j)
    /\ FilePages = Off(MaxGhosts)
<1> USE GhostFileAssumption DEF GhostFileAssumption
<1>1. \A i \in Nat : i * GhostPages \in Nat
  OBVIOUS
<1>2. \A i \in Nat : (i + 1) * GhostPages = i * GhostPages + GhostPages
  OBVIOUS
<1>3. \A i \in Nat : Off(i) \in Nat /\ Off(i) >= 1 /\ Off(i + 1) = Off(i) + GhostPages
  BY <1>1, <1>2 DEF Off
<1>4. ASSUME NEW i \in Nat, NEW j \in Nat, i < j PROVE Off(i) + GhostPages <= Off(j)
  <2>1. PICK d \in Nat : j = (i + 1) + d
    <3>1. j - (i + 1) \in Nat /\ j = (i + 1) + (j - (i + 1))
      BY <1>4
    <3> QED BY <3>1
  <2>2. j * GhostPages = (i + 1) * GhostPages + d * GhostPages
    BY <2>1
  <2>3. d * GhostPages \in Nat /\ i * GhostPages \in Nat
    BY <1>1
  <2> QED BY <1>2, <2>2, <2>3 DEF Off
<1> QED BY <1>3, <1>4 DEF Off, FilePages

\* A page of a recording is a page of the file, and of no other recording.
LEMMA PageOf ==
    ASSUME NEW i \in 0 .. MaxGhosts - 1, NEW p \in 0 .. GhostPages - 1
    PROVE  /\ Off(i) + p \in 1 .. FilePages - 1
           /\ \A j \in Nat : j # i => Off(i) + p \notin Off(j) .. Off(j) + GhostPages - 1
<1> USE GhostFileAssumption DEF GhostFileAssumption
<1>1. i \in Nat /\ MaxGhosts \in Nat /\ i < MaxGhosts /\ GhostPages \in Nat
  OBVIOUS
<1>2. Off(i) \in Nat /\ Off(i) >= 1 /\ Off(MaxGhosts) \in Nat /\ FilePages = Off(MaxGhosts)
  BY <1>1, Offsets
<1>3. Off(i) + GhostPages <= Off(MaxGhosts)
  BY <1>1, Offsets
<1>4. ASSUME NEW j \in Nat, j # i PROVE Off(i) + p \notin Off(j) .. Off(j) + GhostPages - 1
  <2>1. Off(j) \in Nat
    BY Offsets
  <2>2. Off(i) + GhostPages <= Off(j) \/ Off(j) + GhostPages <= Off(i)
    BY <1>1, <1>4, Offsets
  <2> QED BY <1>1, <1>2, <2>1, <2>2
<1> QED BY <1>1, <1>2, <1>3, <1>4

-----------------------------------------------------------------------------
(* A file whose first k entries are in use.                                *)

Whole(F, i, t, time) ==
    \A p \in 0 .. GhostPages - 1 : F[Off(i) + p] = Recording(t, time)[p]

InUse(F, k) ==
    /\ k \in 0 .. MaxGhosts
    /\ F \in [0 .. FilePages - 1 -> PageValues]
    /\ F[0] \in [table : Tables]
    /\ \A i \in 0 .. MaxGhosts : F[0].table[i].off = Off(IF i < k THEN i ELSE k)
    /\ \A i \in k .. MaxGhosts : F[0].table[i].track = NoTrack
    /\ \A i \in 0 .. k - 1 :
          /\ F[0].table[i].track \in Tracks
          /\ \E time \in Times : Whole(F, i, F[0].table[i].track, time)
    /\ \A i, j \in 0 .. k - 1 : F[0].table[i].track = F[0].table[j].track => i = j

\* The note between its allocation and the write.
ZeroFile == [p \in 0 .. FilePages - 1 |-> Zero]

LEMMA TableOf ==
    ASSUME NEW k, InUse(File, k), Exists
    PROVE  Signed /\ Table = File[0].table
  BY DEF InUse, Signed, Table

LEMMA SizesOf ==
    ASSUME NEW k, InUse(File, k), Exists, NEW i \in 0 .. MaxGhosts - 1
    PROVE  Table[i + 1].off - Table[i].off = IF i < k THEN GhostPages ELSE 0
<1> USE GhostFileAssumption DEF GhostFileAssumption
<1>1. /\ i \in 0 .. MaxGhosts /\ i + 1 \in 0 .. MaxGhosts /\ i \in Nat
      /\ k \in Nat /\ GhostPages \in Nat
  BY DEF InUse
<1>2. /\ Table[i].off = Off(IF i < k THEN i ELSE k)
      /\ Table[i + 1].off = Off(IF i + 1 < k THEN i + 1 ELSE k)
  BY <1>1, TableOf DEF InUse
<1>3. CASE i < k
  <2>1. (IF i + 1 < k THEN i + 1 ELSE k) = i + 1 /\ (IF i < k THEN i ELSE k) = i
    BY <1>1, <1>3
  <2>2. Table[i].off = Off(i) /\ Table[i + 1].off = Off(i + 1)
    BY <1>2, <2>1
  <2>3. Off(i) \in Nat /\ Off(i + 1) = Off(i) + GhostPages
    BY <1>1, Offsets
  <2> QED BY <1>1, <1>3, <2>2, <2>3
<1>4. CASE ~(i < k)
  <2>1. Table[i].off = Off(k) /\ Table[i + 1].off = Off(k)
    BY <1>1, <1>2, <1>4
  <2> QED BY <1>1, <1>4, <2>1, Offsets
<1> QED BY <1>3, <1>4

-----------------------------------------------------------------------------
(* Saving a recording.                                                     *)

LEMMA Recordings ==
    ASSUME NEW t \in Tracks, NEW time \in Times, NEW p \in 0 .. GhostPages - 1
    PROVE  /\ Recording(t, time)[p] = [track |-> t, time |-> time, part |-> p]
           /\ Recording(t, time)[p] \in PageValues
  BY DEF Recording, PageValues

\* The file with a recording at entry g: one entry in use more if that was the
\* first unused one, and the other recordings where they were.
LEMMA FileWithPages ==
    ASSUME NEW k, InUse(File, k), Exists, NEW g \in 0 .. MaxGhosts - 1, g <= k,
           NEW t \in Tracks, NEW time \in Times,
           NEW w, w = FileWith(g, t, time),
           NEW m, m = IF g = k THEN k + 1 ELSE k
    PROVE  /\ w \in [0 .. FilePages - 1 -> PageValues]
           /\ w[0] = [table |-> [i \in 0 .. MaxGhosts |->
                        [track |-> IF i = g THEN t
                                   ELSE IF i = MaxGhosts THEN NoTrack
                                   ELSE File[0].table[i].track,
                         off   |-> Off(IF i < m THEN i ELSE m)]]]
           /\ w[0] \in [table : Tables]
           /\ Whole(w, g, t, time)
           /\ \A i \in (0 .. k - 1) \ {g} : \A p \in 0 .. GhostPages - 1 :
                 w[Off(i) + p] = File[Off(i) + p]
<1> DEFINE size(i)  == Table[i + 1].off - Table[i].off
           shift    == GhostPages - size(g)
           table    == [i \in 0 .. MaxGhosts |->
                          [track |-> IF i = g THEN t
                                     ELSE IF i = MaxGhosts THEN NoTrack ELSE Table[i].track,
                           off   |-> IF i <= g THEN Table[i].off ELSE Table[i].off + shift]]
           of(p)    == {i \in Index : p - table[i].off \in 0 .. size(i) - 1}
<1>1. w = [p \in DOMAIN File |->
             IF p = 0 THEN [table |-> table]
             ELSE IF p - table[g].off \in 0 .. GhostPages - 1
                  THEN Recording(t, time)[p - table[g].off]
             ELSE IF of(p) # {}
                  THEN LET i == CHOOSE i \in of(p) : TRUE
                       IN  File[Table[i].off + (p - table[i].off)]
             ELSE Junk]
  BY DEF FileWith
<1>2. /\ k \in Nat /\ k <= MaxGhosts /\ MaxGhosts \in Nat /\ GhostPages \in Nat /\ GhostPages > 0
      /\ g \in Nat /\ g < MaxGhosts /\ m \in Nat /\ m <= MaxGhosts
  BY GhostFileAssumption DEF GhostFileAssumption, InUse
<1>3. DOMAIN File = 0 .. FilePages - 1 /\ \A p \in 0 .. FilePages - 1 : File[p] \in PageValues
  BY DEF InUse
<1>4. /\ Table = File[0].table
      /\ \A i \in 0 .. MaxGhosts :
            /\ Table[i].off = Off(IF i < k THEN i ELSE k)
            /\ Table[i].track \in Tracks \cup {NoTrack}
  BY TableOf DEF InUse, Tables
<1>5. \A i \in 0 .. MaxGhosts - 1 : size(i) = IF i < k THEN GhostPages ELSE 0
  BY SizesOf
<1>6. shift = IF g < k THEN 0 ELSE GhostPages
  BY <1>2, <1>5
<1> HIDE DEF size, shift, of
<1>7. ASSUME NEW i \in 0 .. MaxGhosts
      PROVE  /\ table[i].off = Off(IF i < m THEN i ELSE m)
             /\ table[i].off \in Nat
  <2>0. i \in Nat
    BY <1>2
  <2>1. Off(i) \in Nat /\ Off(k) \in Nat /\ Off(m) \in Nat /\ Off(k + 1) = Off(k) + GhostPages
    BY ONLY <1>2, <2>0, Offsets
  <2>2. table[i].off = IF i <= g THEN Table[i].off ELSE Table[i].off + shift
    BY ONLY TRUE
  <2>3. CASE g < k
    <3>1. m = k /\ shift = 0
      BY <1>2, <1>6, <2>3
    <3>2. Table[i].off = Off(IF i < m THEN i ELSE m)
      BY <1>4, <3>1
    <3>3. Table[i].off \in Nat
      BY <2>1, <3>2
    <3> QED BY <2>2, <3>1, <3>2, <3>3
  <2>4. CASE g = k
    <3>1. m = k + 1 /\ shift = GhostPages
      BY <1>2, <1>6, <2>4
    <3>2. CASE i <= g
      <4>1. (IF i < k THEN i ELSE k) = i /\ (IF i < m THEN i ELSE m) = i
        BY <1>2, <2>0, <2>4, <3>1, <3>2
      <4> QED BY <1>4, <2>1, <2>2, <3>2, <4>1
    <3>3. CASE ~(i <= g)
      <4>1. (IF i < k THEN i ELSE k) = k /\ (IF i < m THEN i ELSE m) = m
        BY <1>2, <2>0, <2>4, <3>1, <3>3
      <4>2. Table[i].off = Off(k)
        BY <1>4, <4>1
      <4> QED BY <2>1, <2>2, <3>1, <3>3, <4>1, <4>2
    <3> QED BY <3>2, <3>3
  <2> QED BY <1>2, <2>3, <2>4
<1>8. table \in Tables
  <2> SUFFICES ASSUME NEW i \in 0 .. MaxGhosts
               PROVE  table[i] \in [track : Tracks \cup {NoTrack}, off : Nat]
    BY DEF Tables
  <2>1. table[i].off \in Nat
    BY <1>7
  <2>2. table[i].track \in Tracks \cup {NoTrack}
    BY <1>4
  <2> QED BY <2>1, <2>2
<1>9. table[g].off = Off(g) /\ \A i \in 0 .. k - 1 : table[i].off = Off(i) /\ Table[i].off = Off(i)
  <2>1. (IF g < m THEN g ELSE m) = g /\ g \in 0 .. MaxGhosts
    BY <1>2
  <2>2. ASSUME NEW i \in 0 .. k - 1 PROVE table[i].off = Off(i) /\ Table[i].off = Off(i)
    <3>1. /\ i \in 0 .. MaxGhosts
          /\ (IF i < m THEN i ELSE m) = i /\ (IF i < k THEN i ELSE k) = i
      BY <1>2
    <3> QED BY <1>4, <1>7, <3>1
  <2> QED BY <1>7, <2>1, <2>2
<1>10. table = [i \in 0 .. MaxGhosts |->
                  [track |-> IF i = g THEN t
                             ELSE IF i = MaxGhosts THEN NoTrack
                             ELSE File[0].table[i].track,
                   off   |-> Off(IF i < m THEN i ELSE m)]]
  <2> SUFFICES ASSUME NEW i \in 0 .. MaxGhosts
               PROVE  table[i] = [track |-> IF i = g THEN t
                                            ELSE IF i = MaxGhosts THEN NoTrack
                                            ELSE File[0].table[i].track,
                                  off   |-> Off(IF i < m THEN i ELSE m)]
    OBVIOUS
  <2>1. table[i].off = Off(IF i < m THEN i ELSE m)
    BY <1>7
  <2>2. table[i] = [track |-> IF i = g THEN t
                              ELSE IF i = MaxGhosts THEN NoTrack
                              ELSE File[0].table[i].track,
                    off   |-> table[i].off]
    BY <1>4
  <2> QED BY <2>1, <2>2
<1> HIDE DEF table
<1>11. ASSUME NEW p \in 1 .. FilePages - 1
       PROVE  /\ p - Off(g) \in 0 .. GhostPages - 1 => w[p] = Recording(t, time)[p - Off(g)]
              /\ \A i \in (0 .. k - 1) \ {g} :
                    p - Off(i) \in 0 .. GhostPages - 1 => w[p] = File[p]
              /\ w[p] \in PageValues
  <2>1. p \in DOMAIN File /\ p # 0 /\ p \in Int
    BY <1>3
  <2>2. ASSUME p - Off(g) \in 0 .. GhostPages - 1 PROVE w[p] = Recording(t, time)[p - Off(g)]
    BY <1>1, <1>9, <2>1, <2>2
  <2>3. ASSUME NEW i \in of(p)
        PROVE  i \in 0 .. k - 1 /\ p - Off(i) \in 0 .. GhostPages - 1
               /\ File[Table[i].off + (p - table[i].off)] = File[p]
    <3>1. i \in 0 .. MaxGhosts - 1 /\ p - table[i].off \in 0 .. size(i) - 1
      BY DEF Index, of
    <3>2. i < k /\ size(i) = GhostPages
      BY <1>2, <1>5, <3>1
    <3>3. i \in 0 .. k - 1
      BY <1>2, <3>1, <3>2
    <3>4. table[i].off = Off(i) /\ Table[i].off = Off(i) /\ Off(i) \in Nat
      BY <1>9, <3>3, Offsets
    <3>5. Table[i].off + (p - table[i].off) = p
      BY <2>1, <3>4
    <3> QED BY <3>1, <3>2, <3>3, <3>4, <3>5
  <2>4. ASSUME NEW i \in (0 .. k - 1) \ {g}, p - Off(i) \in 0 .. GhostPages - 1
        PROVE  w[p] = File[p]
    <3>1. i \in of(p)
      <4>1. i \in Index /\ i \in 0 .. MaxGhosts - 1 /\ i < k
        BY <1>2, <2>4 DEF Index
      <4> QED BY <1>5, <1>9, <2>4, <4>1 DEF of
    <3>2. p - table[g].off \notin 0 .. GhostPages - 1
      <4>1. i \in 0 .. MaxGhosts - 1 /\ Off(i) \in Nat /\ Off(g) \in Nat /\ g # i
        BY <1>2, <2>4, Offsets
      <4>2. Off(i) + (p - Off(i)) \notin Off(g) .. Off(g) + GhostPages - 1
        BY <1>2, <2>4, <4>1, PageOf
      <4> QED BY <1>2, <1>9, <2>1, <4>1, <4>2
    <3>3. (CHOOSE j \in of(p) : TRUE) \in of(p)
      BY <3>1
    <3>4. w[p] = File[Table[CHOOSE j \in of(p) : TRUE].off + (p - table[CHOOSE j \in of(p) : TRUE].off)]
      BY <1>1, <2>1, <3>1, <3>2
    <3> QED BY <2>3, <3>3, <3>4
  <2>5. w[p] \in PageValues
    <3>1. CASE p - table[g].off \in 0 .. GhostPages - 1
      <4>1. p - Off(g) \in 0 .. GhostPages - 1
        BY <1>9, <3>1
      <4> QED BY <2>2, <4>1, Recordings
    <3>2. CASE p - table[g].off \notin 0 .. GhostPages - 1 /\ of(p) # {}
      <4>1. (CHOOSE j \in of(p) : TRUE) \in of(p)
        BY <3>2
      <4>2. w[p] = File[Table[CHOOSE j \in of(p) : TRUE].off + (p - table[CHOOSE j \in of(p) : TRUE].off)]
        BY <1>1, <2>1, <3>2
      <4>3. w[p] = File[p]
        BY <2>3, <4>1, <4>2
      <4> QED BY <1>3, <2>1, <4>3
    <3>3. CASE p - table[g].off \notin 0 .. GhostPages - 1 /\ of(p) = {}
      <4>1. w[p] = Junk
        BY <1>1, <2>1, <3>3
      <4> QED BY <4>1 DEF PageValues
    <3> QED BY <3>1, <3>2, <3>3
  <2> QED BY <2>2, <2>4, <2>5
<1>12. Off(g) \in Nat /\ FilePages \in Nat /\ FilePages > 0
  BY <1>2, Offsets
<1>13. w[0] = [table |-> table] /\ w[0] \in [table : Tables]
  <2>1. 0 \in DOMAIN File
    BY <1>3, <1>12
  <2>2. w[0] = [table |-> table]
    BY <1>1, <2>1
  <2> QED BY <1>8, <2>2
<1>14. w \in [0 .. FilePages - 1 -> PageValues]
  <2>1. ASSUME NEW p \in 0 .. FilePages - 1 PROVE w[p] \in PageValues
    <3>1. CASE p = 0
      BY <1>13, <3>1 DEF PageValues
    <3>2. CASE p \in 1 .. FilePages - 1
      BY <1>11, <3>2
    <3> QED BY <1>12, <3>1, <3>2
  <2>2. DOMAIN w = 0 .. FilePages - 1 /\ w = [p \in DOMAIN w |-> w[p]]
    BY <1>1, <1>3
  <2> QED BY ONLY <2>1, <2>2
<1>15. Whole(w, g, t, time)
  <2> SUFFICES ASSUME NEW p \in 0 .. GhostPages - 1
               PROVE  w[Off(g) + p] = Recording(t, time)[p]
    BY DEF Whole
  <2>1. Off(g) + p \in 1 .. FilePages - 1
    BY PageOf
  <2>2. (Off(g) + p) - Off(g) = p
    BY <1>12
  <2> QED BY <1>11, <2>1, <2>2
<1>16. ASSUME NEW i \in (0 .. k - 1) \ {g}, NEW p \in 0 .. GhostPages - 1
       PROVE  w[Off(i) + p] = File[Off(i) + p]
  <2>1. i \in Nat /\ i \in 0 .. MaxGhosts - 1
    BY <1>2
  <2>2. Off(i) + p \in 1 .. FilePages - 1
    BY <2>1, PageOf
  <2>3. (Off(i) + p) - Off(i) = p
    BY <2>1, Offsets
  <2> QED BY <1>11, <2>2, <2>3
<1> QED BY <1>10, <1>13, <1>14, <1>15, <1>16

LEMMA FileWithInUse ==
    ASSUME NEW k, InUse(File, k), Exists, NEW g \in 0 .. MaxGhosts - 1,
           NEW t \in Tracks, NEW time \in Times,
           \/ g < k /\ File[0].table[g].track = t
           \/ g = k /\ \A i \in 0 .. k - 1 : File[0].table[i].track # t,
           NEW w, w = FileWith(g, t, time),
           NEW m, m = IF g = k THEN k + 1 ELSE k
    PROVE  /\ InUse(w, m)
           /\ w[0].table[g].track = t
           /\ w[Off(g)].time = time
           /\ \A i \in (0 .. k - 1) \ {g} :
                 w[0].table[i].track = File[0].table[i].track /\ w[Off(i)] = File[Off(i)]
<1>1. /\ k \in Nat /\ k <= MaxGhosts /\ MaxGhosts \in Nat /\ GhostPages \in Nat /\ GhostPages > 0
      /\ g \in Nat /\ g < MaxGhosts /\ m \in Nat /\ m <= MaxGhosts /\ g <= k /\ g < m
  BY GhostFileAssumption DEF GhostFileAssumption, InUse
<1>2. /\ w \in [0 .. FilePages - 1 -> PageValues]
      /\ w[0] = [table |-> [i \in 0 .. MaxGhosts |->
                   [track |-> IF i = g THEN t
                              ELSE IF i = MaxGhosts THEN NoTrack
                              ELSE File[0].table[i].track,
                    off   |-> Off(IF i < m THEN i ELSE m)]]]
      /\ w[0] \in [table : Tables]
      /\ Whole(w, g, t, time)
      /\ \A i \in (0 .. k - 1) \ {g} : \A p \in 0 .. GhostPages - 1 :
            w[Off(i) + p] = File[Off(i) + p]
  BY <1>1, FileWithPages
<1>3. \A i \in 0 .. MaxGhosts :
         /\ w[0].table[i].track = IF i = g THEN t
                                  ELSE IF i = MaxGhosts THEN NoTrack
                                  ELSE File[0].table[i].track
         /\ w[0].table[i].off = Off(IF i < m THEN i ELSE m)
  BY <1>2
<1>4. /\ \A i \in k .. MaxGhosts : File[0].table[i].track = NoTrack
      /\ \A i \in 0 .. k - 1 :
            /\ File[0].table[i].track \in Tracks
            /\ \E old \in Times : Whole(File, i, File[0].table[i].track, old)
      /\ \A i, j \in 0 .. k - 1 : File[0].table[i].track = File[0].table[j].track => i = j
  BY DEF InUse
<1>5. \A i \in 0 .. m - 1 : i \in 0 .. MaxGhosts /\ (i = g \/ i \in (0 .. k - 1) \ {g})
  BY <1>1
<1>6. w[0].table[g].track = t
  BY <1>1, <1>3
<1>7. ASSUME NEW i \in (0 .. k - 1) \ {g}
      PROVE  w[0].table[i].track = File[0].table[i].track
  <2>1. i \in 0 .. MaxGhosts /\ i # MaxGhosts
    BY <1>1
  <2> QED BY <1>3, <2>1
<1>8. ASSUME NEW i \in m .. MaxGhosts PROVE w[0].table[i].track = NoTrack
  <2>1. i \in 0 .. MaxGhosts /\ i \in k .. MaxGhosts /\ i # g
    BY <1>1
  <2> QED BY <1>3, <1>4, <2>1
<1>9. ASSUME NEW i \in 0 .. m - 1
      PROVE  /\ w[0].table[i].track \in Tracks
             /\ \E tm \in Times : Whole(w, i, w[0].table[i].track, tm)
  <2>1. CASE i = g
    BY <1>2, <1>6, <2>1
  <2>2. CASE i \in (0 .. k - 1) \ {g}
    <3>1. PICK old \in Times : Whole(File, i, File[0].table[i].track, old)
      BY <1>4, <2>2
    <3>2. Whole(w, i, File[0].table[i].track, old)
      BY <1>2, <2>2, <3>1 DEF Whole
    <3> QED BY <1>4, <1>7, <2>2, <3>2
  <2> QED BY <1>5, <2>1, <2>2
<1>10. ASSUME NEW i \in 0 .. m - 1, NEW j \in 0 .. m - 1,
              w[0].table[i].track = w[0].table[j].track
       PROVE  i = j
  <2>1. \A h \in (0 .. k - 1) \ {g} : w[0].table[h].track # t
    <3> SUFFICES ASSUME NEW h \in (0 .. k - 1) \ {g} PROVE File[0].table[h].track # t
      BY <1>7
    <3>1. CASE g < k
      <4>1. g \in 0 .. k - 1 /\ File[0].table[g].track = t
        BY <1>1, <3>1
      <4> QED BY <1>4, <4>1
    <3>2. CASE g = k
      BY <1>1, <3>2
    <3> QED BY <1>1, <3>1, <3>2
  <2>2. CASE i = g \/ j = g
    BY <1>5, <1>6, <1>10, <2>1, <2>2
  <2>3. CASE i \in (0 .. k - 1) \ {g} /\ j \in (0 .. k - 1) \ {g}
    BY <1>4, <1>7, <1>10, <2>3
  <2> QED BY <1>5, <2>2, <2>3
<1>11. m \in 0 .. MaxGhosts
  BY <1>1
<1>12. InUse(w, m)
  BY <1>2, <1>3, <1>8, <1>9, <1>10, <1>11 DEF InUse
<1>13. 0 \in 0 .. GhostPages - 1 /\ \A i \in Nat : Off(i) + 0 = Off(i)
  BY <1>1, Offsets
<1>14. w[Off(g)].time = time
  <2>1. w[Off(g) + 0] = Recording(t, time)[0]
    BY <1>2, <1>13 DEF Whole
  <2>2. Recording(t, time)[0] = [track |-> t, time |-> time, part |-> 0]
    BY <1>13, Recordings
  <2>3. w[Off(g)] = [track |-> t, time |-> time, part |-> 0]
    BY <1>1, <1>13, <2>1, <2>2
  <2> QED BY <2>3
<1>15. ASSUME NEW i \in (0 .. k - 1) \ {g} PROVE w[Off(i)] = File[Off(i)]
  <2>1. i \in Nat
    OBVIOUS
  <2>2. w[Off(i) + 0] = File[Off(i) + 0]
    BY <1>2, <1>13
  <2> QED BY <1>13, <2>1, <2>2
<1> QED BY <1>6, <1>7, <1>12, <1>14, <1>15

-----------------------------------------------------------------------------
(* The first recording, and erasing one.                                   *)

LEMMA NewFileInUse ==
    ASSUME NEW t \in Tracks, NEW time \in Times
    PROVE  InUse(NewFile(t, time), 1)
<1> DEFINE w     == NewFile(t, time)
           table == [i \in 0 .. MaxGhosts |->
                       IF i = 0 THEN [track |-> t, off |-> 1]
                       ELSE [track |-> NoTrack, off |-> 1 + GhostPages]]
<1>1. /\ MaxGhosts \in Nat /\ MaxGhosts > 0 /\ GhostPages \in Nat /\ GhostPages > 0
      /\ Off(0) = 1 /\ Off(1) = 1 + GhostPages /\ FilePages \in Nat /\ FilePages >= Off(1)
  <2>1. /\ MaxGhosts \in Nat /\ MaxGhosts > 0 /\ GhostPages \in Nat /\ GhostPages > 0
    BY GhostFileAssumption DEF GhostFileAssumption
  <2>2. Off(0) = 1 /\ Off(1) = 1 + GhostPages
    BY <2>1 DEF Off
  <2>3. FilePages = Off(MaxGhosts) /\ Off(MaxGhosts) \in Nat /\ Off(0) + GhostPages <= Off(MaxGhosts)
    BY <2>1, Offsets
  <2> QED BY <2>1, <2>2, <2>3
<1>2. w = [p \in 0 .. FilePages - 1 |->
             IF p = 0 THEN [table |-> table]
             ELSE IF p <= GhostPages THEN Recording(t, time)[p - 1]
             ELSE Junk]
  BY DEF NewFile
<1>3. table \in Tables
  BY <1>1 DEF Tables
<1>4. table[0].track = t /\ table[0].off = 1
  BY <1>1
<1>5. \A i \in 1 .. MaxGhosts : table[i].track = NoTrack /\ table[i].off = 1 + GhostPages
  BY <1>1
<1> HIDE DEF table
<1>6. w[0] = [table |-> table]
  BY <1>1, <1>2
<1>7. ASSUME NEW p \in 0 .. FilePages - 1 PROVE w[p] \in PageValues
  <2>1. CASE p = 0
    BY <1>3, <1>6, <2>1 DEF PageValues
  <2>2. CASE p # 0 /\ p <= GhostPages
    <3>1. p - 1 \in 0 .. GhostPages - 1
      BY <1>1, <2>2
    <3>2. w[p] = Recording(t, time)[p - 1]
      BY <1>2, <2>2
    <3> QED BY <3>1, <3>2, Recordings
  <2>3. CASE p # 0 /\ ~(p <= GhostPages)
    <3>1. w[p] = Junk
      BY <1>2, <2>3
    <3> QED BY <3>1 DEF PageValues
  <2> QED BY <2>1, <2>2, <2>3
<1>8. Whole(w, 0, t, time)
  <2> SUFFICES ASSUME NEW p \in 0 .. GhostPages - 1
               PROVE  w[Off(0) + p] = Recording(t, time)[p]
    BY DEF Whole
  <2>1. /\ Off(0) + p \in 0 .. FilePages - 1 /\ Off(0) + p # 0
        /\ Off(0) + p <= GhostPages /\ (Off(0) + p) - 1 = p
    BY <1>1
  <2> QED BY <1>2, <2>1
<1>9. ASSUME NEW i \in 0 .. MaxGhosts PROVE w[0].table[i].off = Off(IF i < 1 THEN i ELSE 1)
  <2>1. CASE i = 0
    BY <1>1, <1>4, <1>6, <2>1
  <2>2. CASE i \in 1 .. MaxGhosts
    <3>1. (IF i < 1 THEN i ELSE 1) = 1
      BY <2>2
    <3> QED BY <1>1, <1>5, <1>6, <2>2, <3>1
  <2> QED BY <1>1, <2>1, <2>2
<1>10. w \in [0 .. FilePages - 1 -> PageValues]
  <2>1. DOMAIN w = 0 .. FilePages - 1 /\ w = [p \in DOMAIN w |-> w[p]]
    BY <1>2
  <2> QED BY ONLY <1>7, <2>1
<1> HIDE DEF w
<1>11. w[0] \in [table : Tables] /\ w[0].table = table
  BY <1>3, <1>6
<1>12. \A i \in 1 .. MaxGhosts : w[0].table[i].track = NoTrack
  BY <1>5, <1>11
<1>13. \A i \in 0 .. 1 - 1 :
          w[0].table[i].track \in Tracks /\ \E tm \in Times : Whole(w, i, w[0].table[i].track, tm)
  <2>1. \A i \in 0 .. 1 - 1 : i = 0
    OBVIOUS
  <2> QED BY <1>4, <1>8, <1>11, <2>1
<1>14. \A i, j \in 0 .. 1 - 1 : w[0].table[i].track = w[0].table[j].track => i = j
  OBVIOUS
<1>15. 1 \in 0 .. MaxGhosts
  BY <1>1
<1>16. InUse(w, 1)
  BY ONLY <1>9, <1>10, <1>11, <1>12, <1>13, <1>14, <1>15 DEF InUse
<1> QED BY <1>16 DEF w

\* The file without entry e: the entries behind it and their recordings move
\* up by one.
LEMMA FileWithoutInUse ==
    ASSUME NEW k, InUse(File, k), Exists, NEW e \in 0 .. k - 1,
           NEW w, w = FileWithout(e)
    PROVE  /\ InUse(w, k - 1)
           /\ \A i \in 0 .. k - 2 :
                 LET from == IF i < e THEN i ELSE i + 1
                 IN  /\ w[0].table[i].track = File[0].table[from].track
                     /\ w[Off(i)] = File[Off(from)]
<1> DEFINE size  == Table[e + 1].off - Table[e].off
           end   == Table[MaxGhosts].off - size
           table == [i \in 0 .. MaxGhosts |->
                       IF i < e THEN Table[i]
                       ELSE LET from == IF i = MaxGhosts THEN i ELSE i + 1
                            IN  [track |-> Table[from].track, off |-> Table[from].off - size]]
           m     == k - 1
           From(i) == IF i < e THEN i ELSE i + 1
<1>1. w = [p \in DOMAIN File |->
             IF p = 0 THEN [table |-> table]
             ELSE IF p < Table[e].off THEN File[p]
             ELSE IF p < end THEN File[p + size]
             ELSE Junk]
  BY DEF FileWithout
<1>2. /\ k \in Nat /\ k <= MaxGhosts /\ MaxGhosts \in Nat /\ GhostPages \in Nat /\ GhostPages > 0
      /\ e \in Nat /\ e < k /\ e <= m /\ m \in Nat /\ k = m + 1 /\ m < MaxGhosts
  BY GhostFileAssumption DEF GhostFileAssumption, InUse
<1>3. DOMAIN File = 0 .. FilePages - 1 /\ \A p \in 0 .. FilePages - 1 : File[p] \in PageValues
  BY DEF InUse
<1>4. /\ Table = File[0].table
      /\ \A i \in 0 .. MaxGhosts :
            /\ Table[i].off = Off(IF i < k THEN i ELSE k)
            /\ Table[i] \in [track : Tracks \cup {NoTrack}, off : Nat]
  BY TableOf DEF InUse, Tables
<1>5. size = GhostPages
  <2>1. e \in 0 .. MaxGhosts - 1
    BY <1>2
  <2> QED BY <1>2, <2>1, SizesOf
<1>6. /\ Off(k) = Off(m) + GhostPages /\ Off(m) \in Nat /\ Off(e) \in Nat /\ Off(e) >= 1
      /\ Off(e) <= Off(m) /\ Off(k) <= FilePages /\ FilePages \in Nat
  <2>1. Off(k) = Off(m) + GhostPages /\ Off(m) \in Nat /\ Off(e) \in Nat /\ Off(e) >= 1 /\ Off(k) \in Nat
    BY ONLY <1>2, Offsets
  <2>2. Off(e) <= Off(m)
    <3>1. CASE e = m
      BY <2>1, <3>1
    <3>2. CASE e < m
      <4>1. Off(e) + GhostPages <= Off(m)
        BY ONLY <1>2, <3>2, Offsets
      <4> QED BY <1>2, <2>1, <4>1
    <3> QED BY <1>2, <3>1, <3>2
  <2>3. FilePages = Off(MaxGhosts) /\ Off(MaxGhosts) \in Nat
    BY ONLY <1>2, Offsets
  <2>4. CASE k = MaxGhosts
    BY <2>1, <2>2, <2>3, <2>4
  <2>5. CASE k < MaxGhosts
    <3>1. Off(k) + GhostPages <= Off(MaxGhosts)
      BY ONLY <1>2, <2>5, Offsets
    <3> QED BY <1>2, <2>1, <2>2, <2>3, <3>1
  <2> QED BY <1>2, <2>4, <2>5
<1>7. end = Off(m) /\ Table[e].off = Off(e)
  <2>1. MaxGhosts \in 0 .. MaxGhosts /\ ~(MaxGhosts < k) /\ e \in 0 .. MaxGhosts
    BY <1>2
  <2>2. Table[MaxGhosts].off = Off(k)
    BY <1>4, <2>1
  <2> QED BY <1>2, <1>4, <1>5, <1>6, <2>1, <2>2
<1> HIDE DEF size, end
<1>8. ASSUME NEW i \in 0 .. MaxGhosts, i < e PROVE table[i] = Table[i]
  BY <1>8
<1>9. ASSUME NEW i \in 0 .. MaxGhosts, ~(i < e)
      PROVE  LET from == IF i = MaxGhosts THEN i ELSE i + 1
             IN  table[i] = [track |-> Table[from].track, off |-> Table[from].off - size]
  BY <1>9
<1>10. ASSUME NEW i \in 0 .. MaxGhosts
       PROVE  /\ table[i].off = Off(IF i < m THEN i ELSE m)
              /\ i < m => table[i].track = Table[From(i)].track
              /\ i >= m => table[i].track = NoTrack
              /\ table[i] \in [track : Tracks \cup {NoTrack}, off : Nat]
  <2>0. i \in Nat
    BY <1>2
  <2>1. CASE i < e
    <3>1. i < m /\ i < k /\ From(i) = i
      BY <1>2, <2>0, <2>1
    <3>2. ~(i >= m)
      BY <1>2, <2>0, <3>1
    <3> HIDE DEF From, m, table
    <3>3. table[i] = Table[i]
      BY <1>8, <2>1
    <3> QED BY <1>4, <3>1, <3>2, <3>3
  <2>2. CASE ~(i < e)
    <3> DEFINE from == IF i = MaxGhosts THEN i ELSE i + 1
    <3>1. from \in 0 .. MaxGhosts /\ from \in Nat
      BY <1>2, <2>0
    <3>2. table[i] = [track |-> Table[from].track, off |-> Table[from].off - size]
      BY <1>9, <2>2
    <3>3. Table[from].off = Off(IF from < k THEN from ELSE k)
      BY <1>4, <3>1
    <3>4. table[i].off = Off(IF i < m THEN i ELSE m)
      <4>1. CASE i < m
        <5>1. from = i + 1 /\ (IF from < k THEN from ELSE k) = i + 1
          BY <1>2, <2>0, <4>1
        <5>2. Off(i + 1) = Off(i) + GhostPages /\ Off(i) \in Nat
          BY ONLY <2>0, Offsets
        <5> HIDE DEF table, from, m
        <5>3. Table[from].off = Off(i) + GhostPages
          BY <3>3, <5>1, <5>2
        <5> QED BY <1>2, <1>5, <3>2, <4>1, <5>2, <5>3
      <4>2. CASE ~(i < m)
        <5>1. ~(from < k)
          BY <1>2, <2>0, <4>2
        <5> HIDE DEF table, from, m
        <5>2. Table[from].off = Off(m) + GhostPages
          BY <1>6, <3>3, <5>1
        <5> QED BY <1>2, <1>5, <1>6, <3>2, <4>2, <5>2
      <4> QED BY <4>1, <4>2
    <3>5. i < m => from = From(i)
      BY <1>2, <2>0, <2>2
    <3>6. i >= m => Table[from].track = NoTrack
      <4>1. i >= m => from \in k .. MaxGhosts
        BY <1>2, <2>0
      <4> QED BY <1>4, <4>1 DEF InUse
    <3>7. (IF i < m THEN i ELSE m) \in Nat
      BY <1>2, <2>0
    <3>8. table[i].off \in Nat
      BY <3>4, <3>7, Offsets
    <3>9. Table[from].track \in Tracks \cup {NoTrack}
      BY <1>4, <3>1
    <3> HIDE DEF table, from, From, m
    <3>10. table[i].track = Table[from].track
      BY <3>2
    <3>11. table[i] \in [track : Tracks \cup {NoTrack}, off : Nat]
      BY <3>2, <3>8, <3>9
    <3> QED BY <3>4, <3>5, <3>6, <3>10, <3>11
  <2> QED BY <2>1, <2>2
<1>11. table \in Tables
  BY <1>10 DEF Tables
<1> HIDE DEF table
<1>12. w[0] = [table |-> table] /\ w[0] \in [table : Tables] /\ w[0].table = table
  <2>1. 0 \in DOMAIN File
    BY <1>2, <1>3, <1>6
  <2>2. w[0] = [table |-> table]
    BY <1>1, <2>1
  <2> QED BY <1>11, <2>2
<1>13. ASSUME NEW p \in 0 .. FilePages - 1 PROVE w[p] \in PageValues
  <2>1. CASE p = 0
    BY <1>12, <2>1 DEF PageValues
  <2>2. CASE p # 0 /\ p < Table[e].off
    BY <1>1, <1>3, <2>2
  <2>3. CASE p # 0 /\ ~(p < Table[e].off) /\ p < end
    <3>1. p + size \in 0 .. FilePages - 1
      BY <1>2, <1>5, <1>6, <1>7, <2>3
    <3>2. w[p] = File[p + size]
      BY <1>1, <1>3, <2>3
    <3> QED BY <1>3, <3>1, <3>2
  <2>4. CASE p # 0 /\ ~(p < Table[e].off) /\ ~(p < end)
    <3>1. w[p] = Junk
      BY <1>1, <1>3, <2>4
    <3> QED BY <3>1 DEF PageValues
  <2> QED BY <2>1, <2>2, <2>3, <2>4
<1>14. ASSUME NEW i \in 0 .. m - 1, NEW p \in 0 .. GhostPages - 1
       PROVE  w[Off(i) + p] = File[Off(From(i)) + p]
  <2>0. i \in Nat /\ i < m /\ i \in 0 .. MaxGhosts - 1 /\ p \in Nat /\ p < GhostPages
    BY <1>2
  <2>1. Off(i) + p \in 1 .. FilePages - 1 /\ Off(i) \in Nat /\ Off(i) + GhostPages <= Off(m)
    BY ONLY <1>2, <2>0, PageOf, Offsets
  <2>2. CASE i < e
    <3>1. Off(i) + GhostPages <= Off(e)
      BY ONLY <1>2, <2>0, <2>2, Offsets
    <3>2. Off(i) + p < Off(e) /\ From(i) = i
      BY <1>2, <1>6, <2>0, <2>1, <2>2, <3>1
    <3> QED BY <1>1, <1>3, <1>7, <2>1, <3>2
  <2>3. CASE ~(i < e)
    <3>1. Off(e) <= Off(i)
      <4>1. e < i => Off(e) + GhostPages <= Off(i)
        BY ONLY <1>2, <2>0, Offsets
      <4>2. e < i \/ e = i
        BY <1>2, <2>0, <2>3
      <4> QED BY <1>2, <1>6, <2>1, <4>1, <4>2
    <3>2. /\ ~(Off(i) + p < Off(e)) /\ Off(i) + p < Off(m)
          /\ Off(i) + p # 0 /\ Off(i) + p \in 0 .. FilePages - 1
      BY <1>2, <1>6, <2>0, <2>1, <3>1
    <3>3. w[Off(i) + p] = File[(Off(i) + p) + GhostPages]
      BY <1>1, <1>3, <1>5, <1>7, <3>2
    <3>4. Off(i + 1) = Off(i) + GhostPages
      BY ONLY <2>0, Offsets
    <3>5. (Off(i) + p) + GhostPages = Off(i + 1) + p
      BY <1>2, <2>0, <2>1, <3>4
    <3>6. From(i) = i + 1
      BY <2>3
    <3> QED BY <3>3, <3>5, <3>6
  <2> QED BY <2>2, <2>3
<1>15. ASSUME NEW i \in 0 .. m - 1
       PROVE  From(i) \in 0 .. k - 1 /\ w[0].table[i].track = File[0].table[From(i)].track
  <2>1. From(i) \in 0 .. k - 1 /\ i \in 0 .. MaxGhosts /\ i < m
    BY <1>2
  <2> QED BY <1>4, <1>10, <1>12, <2>1
<1>16. /\ \A i \in 0 .. k - 1 :
             /\ File[0].table[i].track \in Tracks
             /\ \E time \in Times : Whole(File, i, File[0].table[i].track, time)
       /\ \A i, j \in 0 .. k - 1 : File[0].table[i].track = File[0].table[j].track => i = j
  BY DEF InUse
<1>17. ASSUME NEW i \in 0 .. m - 1
       PROVE  /\ w[0].table[i].track \in Tracks
              /\ \E time \in Times : Whole(w, i, w[0].table[i].track, time)
  <2>1. PICK time \in Times : Whole(File, From(i), File[0].table[From(i)].track, time)
    BY <1>15, <1>16
  <2>2. Whole(w, i, w[0].table[i].track, time)
    BY <1>14, <1>15, <2>1 DEF Whole
  <2> QED BY <1>15, <1>16, <2>2
<1>18. ASSUME NEW i \in 0 .. m - 1, NEW j \in 0 .. m - 1,
              w[0].table[i].track = w[0].table[j].track
       PROVE  i = j
  <2>1. From(i) = From(j)
    BY <1>15, <1>16, <1>18
  <2> QED BY <1>2, <2>1
<1>19. \A i \in m .. MaxGhosts : w[0].table[i].track = NoTrack
  BY <1>2, <1>10, <1>12
<1>20. w \in [0 .. FilePages - 1 -> PageValues]
  <2>1. DOMAIN w = 0 .. FilePages - 1 /\ w = [p \in DOMAIN w |-> w[p]]
    BY <1>1, <1>3
  <2> QED BY ONLY <1>13, <2>1
<1>21. m \in 0 .. MaxGhosts
  BY <1>2
<1>22. \A i \in 0 .. MaxGhosts : w[0].table[i].off = Off(IF i < m THEN i ELSE m)
  BY <1>10, <1>12
<1>23. ASSUME NEW i \in 0 .. m - 1 PROVE w[Off(i)] = File[Off(From(i))]
  <2>1. 0 \in 0 .. GhostPages - 1 /\ From(i) \in Nat /\ i \in Nat
    BY <1>2, <1>15
  <2>2. Off(i) + 0 = Off(i) /\ Off(From(i)) + 0 = Off(From(i))
    BY <2>1, Offsets
  <2> HIDE DEF From
  <2>3. w[Off(i) + 0] = File[Off(From(i)) + 0]
    BY <1>14, <2>1
  <2> QED BY <2>2, <2>3
<1>24. InUse(w, m)
  <2> HIDE DEF m
  <2> QED BY ONLY <1>12, <1>17, <1>18, <1>19, <1>20, <1>21, <1>22 DEF InUse
<1>25. k - 2 = m - 1
  BY <1>2
<1> QED BY <1>15, <1>23, <1>24, <1>25

-----------------------------------------------------------------------------
(* The file in the pak.                                                    *)

\* What the game reads of its note is what the pak holds under its name.
LEMMA GhostNote ==
    PakInv => /\ Exists <=> Ghosts \in DOMAIN NotesOf(Image)
              /\ Exists => File = NotesOf(Image)[Ghosts]
<1> SUFFICES ASSUME PakInv
             PROVE  /\ Exists <=> Ghosts \in DOMAIN NotesOf(Image)
                    /\ Exists => File = NotesOf(Image)[Ghosts]
  OBVIOUS
<1>1. dir \in Dirs /\ PackedDir(dir) /\ Ghosts \in Names
  BY GhostFileAssumption DEF GhostFileAssumption, PakInv, TypeOK, Sound, Images, Image, Dirs
<1>2. PICK end \in 0 .. Pages : PackedTo(dir, end)
  BY <1>1, PackedEnd
<1>3. find_entry(Ghosts) = {i \in Used : dir[i].name = Ghosts}
  BY <1>1, <1>2, FindEntry
<1>4. Image.dir = dir
  BY DEF Image
<1>5. ByEntry(NotesOf(Image), Image, dir)
  BY <1>1, <1>4, NotesByEntry
<1>6. Exists <=> Ghosts \in DOMAIN NotesOf(Image)
  BY <1>3, <1>5 DEF Exists, ByEntry, Used
<1>7. ASSUME Exists PROVE File = NotesOf(Image)[Ghosts]
  <2> DEFINE f == CHOOSE f \in find_entry(Ghosts) : TRUE
  <2>1. f \in find_entry(Ghosts)
    BY <1>7 DEF Exists
  <2> HIDE DEF f
  <2>2. f \in UsedIn(dir) /\ dir[f].name = Ghosts
    BY <1>3, <2>1 DEF Used
  <2>3. NotesOf(Image)[Ghosts] = PagesOf(Image, f)
    BY <1>5, <2>2 DEF ByEntry
  <2>4. File = Contents(f)
    BY DEF File, f
  <2>5. Contents(f) = PagesOf(Image, f)
    BY DEF Contents, PagesOf, Image
  <2> QED BY <2>3, <2>4, <2>5
<1> QED BY <1>6, <1>7

\* A write of as many pages as the note has leaves exactly those.
LEMMA WholeWrite ==
    ASSUME PakInv, NEW n \in Names, NEW f \in find_entry(n), NEW w,
           w \in [DOMAIN NotesOf(Image)[n] -> Values], WriteFile(f, w)
    PROVE  /\ f \in FileNo /\ w \in Pieces
           /\ n \in DOMAIN NotesOf(Image) /\ n \in DOMAIN NotesOf(Image')
           /\ NotesOf(Image')[n] = w
           /\ [m \in DOMAIN NotesOf(Image') \ {n} |-> NotesOf(Image')[m]]
                = [m \in DOMAIN NotesOf(Image) \ {n} |-> NotesOf(Image)[m]]
<1>1. dir \in Dirs /\ PackedDir(dir)
  BY DEF PakInv, TypeOK, Sound, Images, Image, Dirs
<1>2. f \in Used /\ f \in FileNo /\ dir[f].name = n
  BY DEF find_entry, Used, UsedIn
<1>3. Image.dir = dir /\ Image'.dir = dir /\ dir' = dir
  BY DEF Image, WriteFile
<1>4. ByEntry(NotesOf(Image), Image, dir) /\ ByEntry(NotesOf(Image'), Image', dir)
  BY <1>1, <1>3, NotesByEntry
<1>5. NotesOf(Image)[n] = PagesOf(Image, f) /\ NotesOf(Image')[n] = PagesOf(Image', f)
  BY <1>2, <1>4 DEF ByEntry, Used
<1>6. dir[f].start \in Nat /\ dir[f].count \in Nat
  BY <1>1, <1>2 DEF Dirs, Entry
<1>7. DOMAIN w = 0 .. dir[f].count - 1 /\ w = [p \in DOMAIN w |-> w[p]]
      /\ \A p \in DOMAIN w : w[p] \in Values
  BY <1>3, <1>5 DEF PagesOf
<1>8. w \in Pieces
  <2>1. DOMAIN w \in SUBSET Nat
    BY <1>6, <1>7
  <2>2. w \in [DOMAIN w -> Values]
    BY <1>7
  <2> QED BY <2>1, <2>2 DEF Pieces
<1>9. ASSUME NEW p \in 0 .. dir[f].count - 1 PROVE data'[dir[f].start + p] = w[p]
  <2>1. /\ dir[f].start + p \in RangeOf(dir[f]) /\ (dir[f].start + p) - dir[f].start = p
    BY <1>6 DEF RangeOf
  <2>2. dir[f].start + p \in PageNo
    <3>1. PICK end \in 0 .. Pages : PackedTo(dir, end)
      BY <1>1, PackedEnd
    <3>2. dir[f].start + dir[f].count <= end
      BY <1>1, <1>2, <3>1, NoteBeforeEnd DEF Used
    <3>3. Pages \in Nat
      BY ControllerPakAssumption DEF ControllerPakAssumption
    <3> QED BY <1>6, <3>2, <3>3 DEF PageNo
  <2> QED BY <1>7, <2>1, <2>2 DEF WriteFile
<1>10. PagesOf(Image', f) = [p \in 0 .. dir[f].count - 1 |-> data'[dir[f].start + p]]
  BY <1>3 DEF PagesOf, Image
<1>11. NotesOf(Image')[n] = w
  BY <1>5, <1>7, <1>9, <1>10
<1>12. /\ n \in DOMAIN NotesOf(Image) /\ n \in DOMAIN NotesOf(Image')
       /\ [m \in DOMAIN NotesOf(Image') \ {n} |-> NotesOf(Image')[m]]
            = [m \in DOMAIN NotesOf(Image) \ {n} |-> NotesOf(Image)[m]]
  BY <1>2, <1>8, WriteNotes
<1> QED BY <1>2, <1>8, <1>11, <1>12

-----------------------------------------------------------------------------
(* The invariant: whatever the notes, in memory and on the medium, the     *)
(* ghosts' note is either as it was allocated or a file in use.  A write   *)
(* that is pending goes to a note just allocated; the lines of an open     *)
(* menu are entries of the file.                                           *)

GoodNotes(N) ==
    Ghosts \in DOMAIN N => N[Ghosts] = ZeroFile \/ \E k \in 0 .. MaxGhosts : InUse(N[Ghosts], k)

GoodWrite(w, N) ==
    /\ w.name \in Names /\ w.name \in DOMAIN N
    /\ w.pages \in [DOMAIN N[w.name] -> PageValues]
    /\ w.name = Ghosts => N[Ghosts] = ZeroFile /\ InUse(w.pages, 1)

GoodLines(lines, N) ==
    \A line \in lines :
        /\ Ghosts \in DOMAIN N
        /\ \E k \in 0 .. MaxGhosts :
              /\ InUse(N[Ghosts], k)
              /\ line \in [index : 0 .. k - 1, track : Tracks]
              /\ N[Ghosts][0].table[line.index].track = line.track

GhostInv ==
    /\ PakInv
    /\ GoodNotes(NotesOf(Image))
    /\ GoodNotes(Stored)
    /\ ~loaded => Image = Blank
    /\ pending # {} => ready /\ ~inMenu
    /\ \A w \in pending : GoodWrite(w, NotesOf(Image))
    /\ inMenu \in BOOLEAN
    /\ inMenu => ready /\ GoodLines(menu, NotesOf(Image))

LEMMA GoodNone == GoodNotes(NotesOf(Blank))
  BY NoNotesOfBlank DEF GoodNotes, NS!NoNotes

LEMMA GhostInvInit == GhostInit => GhostInv
<1> SUFFICES ASSUME GhostInit PROVE GhostInv
  OBVIOUS
<1>1. Init /\ pending = {} /\ inMenu = FALSE
  BY DEF GhostInit
<1>2. Image = Blank /\ stored = Unreadable
  BY <1>1 DEF Init, Image, Blank
<1>3. GoodNotes(NotesOf(Image)) /\ GoodNotes(Stored)
  BY <1>2, GoodNone DEF Stored
<1> QED BY <1>1, <1>2, <1>3, PakInit DEF GhostInv

\* A store keeps what is good.
LEMMA GoodStore ==
    ASSUME SectorEnds = {}, pak_store, GoodNotes(Stored), GoodNotes(NotesOf(Image'))
    PROVE  GoodNotes(Stored')
<1>1. Stored' \in {NotesOf(Image'), Stored, NS!NoNotes}
  BY StoreIsSave
<1> QED BY <1>1, GoodNone, NoNotesOfBlank

\* A file in use is not the zero one, so it is signed.
LEMMA ZeroNotSigned == ZeroFile[0] \notin [table : Tables]
<1>1. 0 \in 0 .. FilePages - 1
  <2>1. MaxGhosts \in Nat /\ MaxGhosts > 0 /\ GhostPages \in Nat /\ GhostPages > 0
    BY GhostFileAssumption DEF GhostFileAssumption
  <2>2. FilePages = Off(MaxGhosts) /\ Off(MaxGhosts) \in Nat /\ Off(MaxGhosts) >= 1
    BY <2>1, Offsets
  <2> QED BY <2>2
<1>2. Tables = [0 .. MaxGhosts -> [track : Tracks \cup {NoTrack}, off : Nat]]
  BY DEF Tables
<1> QED BY <1>1, <1>2, GhostFileAssumption DEF GhostFileAssumption, ZeroFile

LEMMA SignedInUse ==
    GhostInv /\ Signed =>
        /\ Ghosts \in DOMAIN NotesOf(Image) /\ File = NotesOf(Image)[Ghosts]
        /\ Exists /\ \E k \in 0 .. MaxGhosts : InUse(File, k)
<1> SUFFICES ASSUME GhostInv, Signed
             PROVE  /\ Ghosts \in DOMAIN NotesOf(Image) /\ File = NotesOf(Image)[Ghosts]
                    /\ Exists /\ \E k \in 0 .. MaxGhosts : InUse(File, k)
  OBVIOUS
<1>1. Exists /\ Ghosts \in DOMAIN NotesOf(Image) /\ File = NotesOf(Image)[Ghosts]
  BY GhostNote DEF GhostInv, Signed
<1>2. File[0] \in [table : Tables]
  BY DEF Signed
<1>3. File # ZeroFile
  BY <1>2, ZeroNotSigned
<1> QED BY <1>1, <1>3 DEF GhostInv, GoodNotes

\* An allocation with the write that will follow it.
LEMMA AllocateStep ==
    ASSUME SectorEnds = {}, GhostInv, NEW n \in Names, NEW size \in Nat \ {0},
           NEW pages \in [0 .. size - 1 -> PageValues],
           n = Ghosts => size = FilePages /\ InUse(pages, 1),
           Allocate(n, pages)
    PROVE  [PakNext]_pakVars /\ GhostInv'
<1>1. Cardinality(DOMAIN pages) = size
  BY FS_Interval
<1>2. osPfsAllocateFile(n, size) /\ pending' = {[name |-> n, pages |-> pages]}
      /\ inMenu' = inMenu /\ ready /\ pending = {} /\ ~inMenu
  BY <1>1 DEF Allocate, Idle
<1>3. [PakNext]_pakVars
  BY <1>2 DEF PakNext
<1>4. PakInv /\ PakInv'
  BY <1>3, PakStep DEF GhostInv
<1>5. /\ n \notin DOMAIN NotesOf(Image)
      /\ n \in DOMAIN NotesOf(Image')
      /\ NotesOf(Image')[n] = [k \in 0 .. size - 1 |-> Zero]
      /\ [m \in DOMAIN NotesOf(Image') \ {n} |-> NotesOf(Image')[m]] = NotesOf(Image)
  BY <1>2, <1>4, AllocateNotes
<1>6. ready' /\ loaded' /\ pak_store
  BY <1>2, <1>4 DEF osPfsAllocateFile, PakInv
<1>7. \A m \in DOMAIN NotesOf(Image') \ {n} :
          m \in DOMAIN NotesOf(Image) /\ NotesOf(Image')[m] = NotesOf(Image)[m]
  BY <1>5
<1>8. GoodNotes(NotesOf(Image'))
  <2>1. CASE n = Ghosts
    BY <1>5, <2>1 DEF GoodNotes, ZeroFile
  <2>2. CASE n # Ghosts
    BY <1>7, <2>2 DEF GoodNotes, GhostInv
  <2> QED BY <2>1, <2>2
<1>9. GoodNotes(Stored')
  BY <1>6, <1>8, GoodStore DEF GhostInv
<1>10. GoodWrite([name |-> n, pages |-> pages], NotesOf(Image'))
  BY <1>5 DEF GoodWrite, ZeroFile
<1>11. \A w \in pending' : GoodWrite(w, NotesOf(Image'))
  BY <1>2, <1>10
<1> QED BY <1>2, <1>3, <1>4, <1>6, <1>8, <1>9, <1>11 DEF GhostInv

LEMMA FinishStep ==
    ASSUME SectorEnds = {}, PageValues \subseteq Values, GhostInv, FinishWrite
    PROVE  [PakNext]_pakVars /\ GhostInv'
<1>1. PICK w \in pending : \E f \in find_entry(w.name) : WriteFile(f, w.pages)
  BY DEF FinishWrite
<1>2. PICK f \in find_entry(w.name) : WriteFile(f, w.pages)
  BY <1>1
<1>3. pending' = {} /\ inMenu' = inMenu /\ ~inMenu /\ ready
  BY <1>1 DEF FinishWrite, GhostInv
<1>4. GoodWrite(w, NotesOf(Image)) /\ PakInv
  BY <1>1 DEF GhostInv
<1>5. w.name \in Names /\ w.pages \in [DOMAIN NotesOf(Image)[w.name] -> Values]
  BY <1>4 DEF GoodWrite
<1>6. /\ f \in FileNo /\ w.pages \in Pieces
      /\ NotesOf(Image')[w.name] = w.pages
      /\ [m \in DOMAIN NotesOf(Image') \ {w.name} |-> NotesOf(Image')[m]]
           = [m \in DOMAIN NotesOf(Image) \ {w.name} |-> NotesOf(Image)[m]]
  BY <1>2, <1>4, <1>5, WholeWrite
<1>7. [PakNext]_pakVars
  BY <1>2, <1>6 DEF PakNext
<1>8. PakInv'
  BY <1>4, <1>7, PakStep
<1>9. pak_store /\ ready' /\ loaded'
  BY <1>2, <1>4, <1>3 DEF WriteFile, PakInv
<1>10. \A m \in DOMAIN NotesOf(Image') \ {w.name} :
          m \in DOMAIN NotesOf(Image) /\ NotesOf(Image')[m] = NotesOf(Image)[m]
  BY <1>6
<1>11. GoodNotes(NotesOf(Image'))
  <2>1. CASE w.name = Ghosts
    <3>1. InUse(NotesOf(Image')[Ghosts], 1)
      BY <1>4, <1>6, <2>1 DEF GoodWrite
    <3>2. 1 \in 0 .. MaxGhosts
      BY <3>1 DEF InUse
    <3> QED BY <3>1, <3>2 DEF GoodNotes
  <2>2. CASE w.name # Ghosts
    BY <1>10, <2>2 DEF GoodNotes, GhostInv
  <2> QED BY <2>1, <2>2
<1>12. GoodNotes(Stored')
  BY <1>9, <1>11, GoodStore DEF GhostInv
<1> QED BY <1>3, <1>7, <1>8, <1>9, <1>11, <1>12 DEF GhostInv

\* A whole file written over the ghosts' note.
LEMMA RewriteStep ==
    ASSUME SectorEnds = {}, PageValues \subseteq Values, GhostInv, Signed,
           NEW k \in 0 .. MaxGhosts, NEW file, InUse(file, k), WriteGhosts(file), pending = {}
    PROVE  /\ [PakNext]_pakVars
           /\ PakInv' /\ GoodNotes(NotesOf(Image')) /\ GoodNotes(Stored')
           /\ ready' /\ loaded'
           /\ Ghosts \in DOMAIN NotesOf(Image') /\ NotesOf(Image')[Ghosts] = file
<1>1. PICK f \in find_entry(Ghosts) : WriteFile(f, file)
  BY DEF WriteGhosts
<1>2. /\ PakInv /\ Ghosts \in Names
      /\ Ghosts \in DOMAIN NotesOf(Image) /\ File = NotesOf(Image)[Ghosts]
      /\ \E j \in 0 .. MaxGhosts : InUse(File, j)
  BY SignedInUse, GhostFileAssumption DEF GhostFileAssumption, GhostInv
<1>3. DOMAIN NotesOf(Image)[Ghosts] = 0 .. FilePages - 1
  BY <1>2 DEF InUse
<1>4. file \in [DOMAIN NotesOf(Image)[Ghosts] -> Values]
  BY <1>3 DEF InUse
<1>5. /\ f \in FileNo /\ file \in Pieces /\ Ghosts \in DOMAIN NotesOf(Image')
      /\ NotesOf(Image')[Ghosts] = file
  BY <1>1, <1>2, <1>4, WholeWrite
<1>6. [PakNext]_pakVars
  BY <1>1, <1>5 DEF PakNext
<1>7. PakInv'
  BY <1>2, <1>6, PakStep
<1>8. pak_store /\ ready' /\ loaded'
  BY <1>1, <1>2 DEF WriteFile, PakInv
<1>9. GoodNotes(NotesOf(Image'))
  BY <1>5 DEF GoodNotes
<1>10. GoodNotes(Stored')
  BY <1>8, <1>9, GoodStore DEF GhostInv
<1> QED BY <1>5, <1>6, <1>7, <1>8, <1>9, <1>10

-----------------------------------------------------------------------------
(* The steps of the game.                                                  *)

LEMMA InUseUnique ==
    ASSUME NEW F, NEW j, NEW k, InUse(F, j), InUse(F, k) PROVE j = k
<1>1. j \in Nat /\ k \in Nat /\ j <= MaxGhosts /\ k <= MaxGhosts /\ MaxGhosts \in Nat
  BY GhostFileAssumption DEF GhostFileAssumption, InUse
<1>2. NoTrack \notin Tracks
  BY GhostFileAssumption DEF GhostFileAssumption
<1>3. ASSUME j < k PROVE FALSE
  <2>1. j \in 0 .. k - 1 /\ j \in j .. MaxGhosts
    BY <1>1, <1>3
  <2> QED BY <1>2, <2>1 DEF InUse
<1>4. ASSUME k < j PROVE FALSE
  <2>1. k \in 0 .. j - 1 /\ k \in k .. MaxGhosts
    BY <1>1, <1>4
  <2> QED BY <1>2, <2>1 DEF InUse
<1> QED BY <1>1, <1>3, <1>4

\* The first page of an entry's recording.
LEMMA FirstPage ==
    ASSUME NEW F, NEW k, InUse(F, k), NEW i \in 0 .. k - 1
    PROVE  \E time \in Times :
              /\ Whole(F, i, F[0].table[i].track, time)
              /\ F[Off(i)] = [track |-> F[0].table[i].track, time |-> time, part |-> 0]
<1>1. PICK time \in Times : F[0].table[i].track \in Tracks /\ Whole(F, i, F[0].table[i].track, time)
  BY DEF InUse
<1>2. 0 \in 0 .. GhostPages - 1 /\ i \in Nat
  BY GhostFileAssumption DEF GhostFileAssumption, InUse
<1>3. Off(i) + 0 = Off(i)
  BY <1>2, Offsets
<1>4. F[Off(i) + 0] = Recording(F[0].table[i].track, time)[0]
  BY <1>1, <1>2 DEF Whole
<1> QED BY <1>1, <1>2, <1>3, <1>4, Recordings

\* The entry a recording gets: that of its track, whose time is no better, or
\* the first unused one.
LEMMA EntryFor ==
    ASSUME NEW k \in 0 .. MaxGhosts, InUse(File, k), Exists, NEW t \in Tracks, NEW time \in Times,
           NEW g \in EntriesFor(t, time)
    PROVE  /\ g \in 0 .. MaxGhosts - 1
           /\ \/ /\ g < k /\ File[0].table[g].track = t
                 /\ time <= File[Off(g)].time
              \/ g = k /\ \A i \in 0 .. k - 1 : File[0].table[i].track # t
<1> DEFINE same == {i \in Index : Table[i].track = t}
           free == {i \in Index : Table[i].track = NoTrack}
<1>1. /\ k \in Nat /\ MaxGhosts \in Nat /\ k <= MaxGhosts
      /\ NoTrack \notin Tracks /\ t # NoTrack
  BY GhostFileAssumption DEF GhostFileAssumption
<1>2. Table = File[0].table
  BY TableOf
<1>3. /\ \A i \in 0 .. k - 1 : i \in Index /\ Table[i].track \in Tracks
      /\ \A i \in k .. MaxGhosts : Table[i].track = NoTrack
  BY <1>1, <1>2 DEF InUse, Index
<1>4. \A i \in Index : i \in 0 .. MaxGhosts - 1 /\ (i \in 0 .. k - 1 \/ i \in k .. MaxGhosts)
  BY <1>1 DEF Index
<1>5. CASE same # {}
  <2>1. g \in same /\ \E old \in TimesAt(g) : time <= old
    BY <1>5 DEF EntriesFor
  <2>2. g \in 0 .. k - 1 /\ File[0].table[g].track = t
    BY <1>1, <1>2, <1>3, <1>4, <2>1
  <2>3. PICK old \in Times : File[Off(g)] = [track |-> t, time |-> old, part |-> 0]
    BY <2>2, FirstPage
  <2>4. Table[g].off = Off(g)
    <3>1. g \in 0 .. MaxGhosts /\ (IF g < k THEN g ELSE k) = g
      BY <1>1, <2>2
    <3> QED BY <1>2, <3>1 DEF InUse
  <2>5. /\ File[Off(g)] \in [track : Tracks, time : Times, part : {0}]
        /\ File[Off(g)] # Zero
    <3>1. 0 \in 0 .. GhostPages - 1
      BY GhostFileAssumption DEF GhostFileAssumption
    <3>2. Zero \notin [track : Tracks, time : Times, part : 0 .. GhostPages - 1]
      BY GhostFileAssumption DEF GhostFileAssumption
    <3> QED BY <2>3, <3>1, <3>2
  <2>6. TimesAt(g) = {File[Off(g)].time}
    BY <2>4, <2>5 DEF TimesAt
  <2> QED BY <1>1, <1>4, <2>1, <2>2, <2>6
<1>6. CASE same = {}
  <2>1. g \in free /\ \A j \in free : g <= j
    BY <1>6 DEF EntriesFor
  <2>2. g \in Index /\ g \in k .. MaxGhosts
    BY <1>1, <1>3, <1>4, <2>1
  <2>3. k \in free
    <3>1. k \in Index /\ k \in k .. MaxGhosts
      BY <1>1, <2>2 DEF Index
    <3> QED BY <1>3, <3>1
  <2>4. g = k
    BY <1>1, <2>1, <2>2, <2>3
  <2> QED BY <1>2, <1>3, <1>4, <1>6, <2>2, <2>4
<1> QED BY <1>5, <1>6

LEMMA SaveStep ==
    ASSUME SectorEnds = {}, PageValues \subseteq Values, GhostInv,
           NEW t \in Tracks, NEW time \in Times, SaveGhost(t, time)
    PROVE  [PakNext]_pakVars /\ GhostInv'
<1>1. /\ Signed /\ ready /\ pending = {} /\ ~inMenu
      /\ pending' = pending /\ inMenu' = inMenu
  BY DEF SaveGhost, Idle
<1>2. PICK g \in EntriesFor(t, time) : WriteGhosts(FileWith(g, t, time))
  BY DEF SaveGhost
<1>3. PICK k \in 0 .. MaxGhosts : InUse(File, k) /\ Exists
  BY <1>1, SignedInUse
<1>4. /\ g \in 0 .. MaxGhosts - 1
      /\ \/ g < k /\ File[0].table[g].track = t
         \/ g = k /\ \A i \in 0 .. k - 1 : File[0].table[i].track # t
  BY <1>2, <1>3, EntryFor
<1>5. PICK m : InUse(FileWith(g, t, time), m)
  BY <1>3, <1>4, FileWithInUse
<1>6. m \in 0 .. MaxGhosts
  BY <1>5 DEF InUse
<1>7. /\ [PakNext]_pakVars
      /\ PakInv' /\ GoodNotes(NotesOf(Image')) /\ GoodNotes(Stored')
      /\ ready' /\ loaded'
  BY <1>1, <1>2, <1>5, <1>6, RewriteStep
<1>8. GhostInv'
  BY <1>1, <1>7 DEF GhostInv
<1> QED BY <1>7, <1>8

LEMMA EraseStep ==
    ASSUME SectorEnds = {}, PageValues \subseteq Values, GhostInv,
           NEW line \in menu, EraseGhost(line)
    PROVE  [PakNext]_pakVars /\ GhostInv'
<1> DEFINE e == line.index
<1>1. /\ Signed /\ inMenu /\ ready /\ pending = {}
      /\ pending' = pending /\ inMenu' = inMenu /\ menu' = LinesWithout(line)
      /\ WriteGhosts(FileWithout(e))
  BY DEF EraseGhost, GhostInv
<1>2. Ghosts \in DOMAIN NotesOf(Image) /\ File = NotesOf(Image)[Ghosts] /\ Exists
  BY <1>1, SignedInUse
<1>3. PICK k \in 0 .. MaxGhosts : InUse(File, k)
  BY <1>1, SignedInUse
<1>4. ASSUME NEW l \in menu
      PROVE  /\ l \in [index : 0 .. k - 1, track : Tracks]
             /\ File[0].table[l.index].track = l.track
  <2>1. PICK j \in 0 .. MaxGhosts :
            /\ InUse(File, j)
            /\ l \in [index : 0 .. j - 1, track : Tracks]
            /\ File[0].table[l.index].track = l.track
    BY <1>1, <1>2 DEF GhostInv, GoodLines
  <2>2. j = k
    BY <1>3, <2>1, InUseUnique
  <2> QED BY <2>1, <2>2
<1>5. e \in 0 .. k - 1 /\ k \in Nat /\ k - 1 \in 0 .. MaxGhosts
  BY <1>4, GhostFileAssumption DEF GhostFileAssumption
<1>6. /\ InUse(FileWithout(e), k - 1)
      /\ \A i \in 0 .. k - 2 :
            LET from == IF i < e THEN i ELSE i + 1
            IN  FileWithout(e)[0].table[i].track = File[0].table[from].track
  BY <1>2, <1>3, <1>5, FileWithoutInUse
<1>7. /\ [PakNext]_pakVars
      /\ PakInv' /\ GoodNotes(NotesOf(Image')) /\ GoodNotes(Stored')
      /\ ready' /\ loaded'
      /\ Ghosts \in DOMAIN NotesOf(Image') /\ NotesOf(Image')[Ghosts] = FileWithout(e)
  BY <1>1, <1>5, <1>6, RewriteStep
<1>8. ASSUME NEW new \in menu'
      PROVE  /\ new \in [index : 0 .. (k - 1) - 1, track : Tracks]
             /\ FileWithout(e)[0].table[new.index].track = new.track
  <2>1. PICK l \in menu \ {line} : new = [l EXCEPT !.index = IF @ > e THEN @ - 1 ELSE @]
    BY <1>1 DEF LinesWithout
  <2>2. /\ l \in [index : 0 .. k - 1, track : Tracks]
        /\ line \in [index : 0 .. k - 1, track : Tracks]
        /\ File[0].table[l.index].track = l.track
        /\ File[0].table[line.index].track = line.track
    BY <1>4, <2>1
  <2>3. l.index # e
    BY <2>1, <2>2
  <2>4. new = [index |-> IF l.index > e THEN l.index - 1 ELSE l.index, track |-> l.track]
    BY <2>1, <2>2
  <2>5. CASE l.index < e
    <3>1. new.index = l.index /\ l.index \in 0 .. k - 2 /\ (k - 1) - 1 = k - 2 /\ l.index < e
      BY <1>5, <2>2, <2>4, <2>5
    <3>2. FileWithout(e)[0].table[l.index].track = File[0].table[l.index].track
      BY <1>6, <3>1
    <3> QED BY <2>2, <2>4, <3>1, <3>2
  <2>6. CASE l.index > e
    <3> DEFINE i == l.index - 1
    <3>1. /\ new.index = i /\ i \in 0 .. k - 2 /\ (k - 1) - 1 = k - 2
          /\ ~(i < e) /\ i + 1 = l.index
      BY <1>5, <2>2, <2>4, <2>6
    <3> HIDE DEF i
    <3>2. FileWithout(e)[0].table[i].track = File[0].table[i + 1].track
      BY <1>6, <3>1
    <3>3. new.track = l.track /\ new = [index |-> i, track |-> l.track]
      BY <2>4, <3>1
    <3> QED BY <2>2, <3>1, <3>2, <3>3
  <2> QED BY <1>5, <2>2, <2>3, <2>5, <2>6
<1>9. GoodLines(menu', NotesOf(Image'))
  <2> SUFFICES ASSUME NEW new \in menu'
               PROVE  \E j \in 0 .. MaxGhosts :
                         /\ InUse(NotesOf(Image')[Ghosts], j)
                         /\ new \in [index : 0 .. j - 1, track : Tracks]
                         /\ NotesOf(Image')[Ghosts][0].table[new.index].track = new.track
    BY <1>7 DEF GoodLines
  <2>1. k - 1 \in 0 .. MaxGhosts
    BY <1>5
  <2> QED BY <1>6, <1>7, <1>8, <2>1
<1>10. GhostInv'
  BY <1>1, <1>7, <1>9 DEF GhostInv
<1> QED BY <1>7, <1>10

\* Opening the menu finds every checksum right, so its lines are those of the
\* file it has just read.
LEMMA OpenStep ==
    ASSUME GhostInv, OpenMenu
    PROVE  [PakNext]_pakVars /\ GhostInv'
<1>1. /\ Exists /\ ready /\ pending = {} /\ pending' = pending /\ inMenu' = TRUE
      /\ UNCHANGED <<dir, data, loaded, ready, stored>>
      /\ menu' = IF \A i \in Index : Table[i].track # NoTrack => ChecksumHolds(i)
                 THEN Lines ELSE menu
  BY DEF OpenMenu, Idle
<1>2. Ghosts \in DOMAIN NotesOf(Image) /\ File = NotesOf(Image)[Ghosts]
  BY <1>1, GhostNote DEF GhostInv
<1>3. Image' = Image /\ Stored' = Stored /\ UNCHANGED pakVars
  BY <1>1 DEF Image, Stored, pakVars
<1>4. GoodLines(menu', NotesOf(Image))
  <2>1. CASE File = ZeroFile
    <3>1. ~Signed /\ File[0] = Zero
      <4>1. 0 \in 0 .. FilePages - 1
        <5>1. FilePages = Off(MaxGhosts) /\ Off(MaxGhosts) \in Nat /\ Off(MaxGhosts) >= 1
          BY Offsets, GhostFileAssumption DEF GhostFileAssumption
        <5> QED BY <5>1
      <4> QED BY <2>1, <4>1, ZeroNotSigned DEF Signed, ZeroFile
    <3>2. Table = [i \in 0 .. MaxGhosts |-> [track |-> NotATrack, off |-> 0]]
      BY <3>1 DEF Table
    <3>3. \A i \in Index : i \in 0 .. MaxGhosts
      BY GhostFileAssumption DEF GhostFileAssumption, Index
    <3>4. \A i \in Index : Table[i].track = NotATrack /\ Table[i].off = 0
      BY <3>2, <3>3
    <3>5. \A i \in Index : ChecksumHolds(i)
      BY <3>1, <3>4 DEF ChecksumHolds
    <3>6. Lines = {}
      BY <3>4, GhostFileAssumption DEF GhostFileAssumption, Lines
    <3>7. menu' = {}
      BY <1>1, <3>5, <3>6
    <3> QED BY <3>7 DEF GoodLines
  <2>2. ASSUME NEW k \in 0 .. MaxGhosts, InUse(File, k)
        PROVE  GoodLines(menu', NotesOf(Image))
    <3>1. Table = File[0].table
      BY <1>1, <2>2, TableOf
    <3>2. /\ k \in Nat /\ MaxGhosts \in Nat /\ NoTrack \notin Tracks
      BY GhostFileAssumption DEF GhostFileAssumption
    <3>3. ASSUME NEW i \in Index, Table[i].track # NoTrack
          PROVE  i \in 0 .. k - 1 /\ Table[i].off = Off(i)
      <4>1. i \in 0 .. MaxGhosts /\ i \in Nat
        BY <3>2 DEF Index
      <4>2. i \notin k .. MaxGhosts
        BY <2>2, <3>1, <3>3 DEF InUse
      <4>3. i < k /\ i \in 0 .. k - 1
        BY <3>2, <4>1, <4>2
      <4> QED BY <2>2, <3>1, <4>1, <4>3 DEF InUse
    <3>4. ASSUME NEW i \in Index, Table[i].track # NoTrack PROVE ChecksumHolds(i)
      <4>1. i \in 0 .. k - 1 /\ Table[i].off = Off(i)
        BY <3>3, <3>4
      <4>2. Table[i].track \in Tracks
        BY <2>2, <3>1, <4>1 DEF InUse
      <4>3. PICK time \in Times : Whole(File, i, Table[i].track, time)
        BY <2>2, <3>1, <4>1 DEF InUse
      <4>4. DOMAIN Recording(Table[i].track, time) = 0 .. GhostPages - 1
        BY DEF Recording
      <4>5. Holds(i, Recording(Table[i].track, time))
        BY <4>1, <4>3, <4>4 DEF Holds, Whole
      <4> QED BY <4>2, <4>5 DEF ChecksumHolds
    <3>5. menu' = Lines
      BY <1>1, <3>4
    <3>6. ASSUME NEW line \in Lines
          PROVE  /\ line \in [index : 0 .. k - 1, track : Tracks]
                 /\ File[0].table[line.index].track = line.track
      <4>1. PICK i \in Index : Table[i].track \in Tracks /\ line = [index |-> i, track |-> Table[i].track]
        BY DEF Lines
      <4>2. i \in 0 .. k - 1
        BY <3>2, <3>3, <4>1
      <4> QED BY <3>1, <4>1, <4>2
    <3> QED BY <1>2, <2>2, <3>5, <3>6 DEF GoodLines
  <2> QED BY <1>2, <2>1, <2>2 DEF GhostInv, GoodNotes
<1>5. PakInv'
  BY <1>3, PakStep DEF GhostInv
<1> QED BY <1>1, <1>3, <1>4, <1>5 DEF GhostInv

LEMMA BootStep ==
    ASSUME GhostInv, Boot PROVE [PakNext]_pakVars /\ GhostInv'
<1>1. /\ osPfsInit(TRUE) /\ ~ready /\ ~loaded
      /\ pending' = pending /\ inMenu' = inMenu /\ menu' = menu
  BY DEF Boot
<1>2. pending = {} /\ ~inMenu
  BY <1>1 DEF GhostInv
<1>3. [PakNext]_pakVars
  BY <1>1 DEF PakNext
<1>4. PakInv /\ PakInv'
  BY <1>3, PakStep DEF GhostInv
<1>5. ready' /\ loaded' /\ stored' = stored
  BY <1>1 DEF osPfsInit, pak_load
<1>6. Stored' = Stored
  BY <1>5 DEF Stored
<1>7. GoodNotes(NotesOf(Image'))
  <2>1. CASE Become(Blank)
    <3>1. Image' = Blank
      BY <2>1 DEF Become, Image, Blank
    <3> QED BY <3>1, GoodNone
  <2>2. CASE stored # Unreadable /\ Become(stored)
    <3>1. stored \in Images
      BY <1>4, <2>2 DEF PakInv, TypeOK
    <3>2. Image' = stored
      BY <2>2, <3>1 DEF Become, Image, Images
    <3> QED BY <2>2, <3>2 DEF GhostInv, Stored
  <2> QED BY <1>1, <2>1, <2>2 DEF osPfsInit, pak_load
<1> QED BY <1>1, <1>2, <1>3, <1>4, <1>5, <1>6, <1>7 DEF GhostInv

LEMMA LosePowerStep ==
    ASSUME GhostInv, LosePower PROVE [PakNext]_pakVars /\ GhostInv'
<1>1. PowerCut /\ pending' = {} /\ inMenu' = FALSE
  BY DEF LosePower
<1>2. [PakNext]_pakVars
  BY <1>1 DEF PakNext
<1>3. PakInv'
  BY <1>2, PakStep DEF GhostInv
<1>4. Image' = Blank /\ stored' = stored
  BY <1>1 DEF PowerCut, Become, Image, Blank
<1>5. Stored' = Stored
  BY <1>4 DEF Stored
<1> QED BY <1>1, <1>2, <1>3, <1>4, <1>5, GoodNone DEF GhostInv

LEMMA ReformatStep ==
    ASSUME SectorEnds = {}, GhostInv, Reformat PROVE [PakNext]_pakVars /\ GhostInv'
<1>1. /\ osPfsReFormat /\ pending = {} /\ ~inMenu
      /\ pending' = pending /\ inMenu' = inMenu /\ menu' = menu
  BY DEF Reformat, Idle
<1>2. [PakNext]_pakVars
  BY <1>1 DEF PakNext
<1>3. PakInv'
  BY <1>2, PakStep DEF GhostInv
<1>4. Image' = Blank /\ loaded' /\ ready' /\ pak_store
  BY <1>1 DEF osPfsReFormat, Become, Image, Blank
<1>5. GoodNotes(NotesOf(Image'))
  BY <1>4, GoodNone
<1>6. GoodNotes(Stored')
  BY <1>4, <1>5, GoodStore DEF GhostInv
<1> QED BY <1>1, <1>2, <1>3, <1>4, <1>5, <1>6 DEF GhostInv

LEMMA DeleteNoteStep ==
    ASSUME SectorEnds = {}, GhostInv, NEW n \in Names, DeleteNote(n)
    PROVE  [PakNext]_pakVars /\ GhostInv'
<1>1. /\ osPfsDeleteFile(n) /\ ready /\ pending = {} /\ ~inMenu
      /\ pending' = pending /\ inMenu' = inMenu /\ menu' = menu
  BY DEF DeleteNote, Idle
<1>2. [PakNext]_pakVars
  BY <1>1 DEF PakNext
<1>3. PakInv /\ PakInv'
  BY <1>2, PakStep DEF GhostInv
<1>4. ready' /\ loaded' /\ pak_store
  BY <1>1, <1>3 DEF osPfsDeleteFile, PakInv
<1>5. NotesOf(Image') = [m \in DOMAIN NotesOf(Image) \ {n} |-> NotesOf(Image)[m]]
  BY <1>1, <1>3, DeleteNotes
<1>6. GoodNotes(NotesOf(Image'))
  BY <1>5 DEF GhostInv, GoodNotes
<1>7. GoodNotes(Stored')
  BY <1>4, <1>6, GoodStore DEF GhostInv
<1> QED BY <1>1, <1>2, <1>3, <1>4, <1>6, <1>7 DEF GhostInv

LEMMA CreateStep ==
    ASSUME SectorEnds = {}, GhostInv, NEW t \in Tracks, NEW time \in Times, CreateGhosts(t, time)
    PROVE  [PakNext]_pakVars /\ GhostInv'
<1>1. InUse(NewFile(t, time), 1)
  BY NewFileInUse
<1>2. FilePages \in Nat \ {0} /\ Ghosts \in Names
  <2>1. FilePages = Off(MaxGhosts) /\ Off(MaxGhosts) \in Nat /\ Off(MaxGhosts) >= 1
    BY Offsets, GhostFileAssumption DEF GhostFileAssumption
  <2> QED BY <2>1, GhostFileAssumption DEF GhostFileAssumption
<1>3. NewFile(t, time) \in [0 .. FilePages - 1 -> PageValues]
  BY <1>1 DEF InUse
<1> QED BY <1>1, <1>2, <1>3, AllocateStep DEF CreateGhosts

LEMMA WriteNoteStep ==
    ASSUME SectorEnds = {}, GhostInv, NEW n \in DOMAIN NoteSize, WriteNote(n)
    PROVE  [PakNext]_pakVars /\ GhostInv'
<1> DEFINE pages == [k \in 0 .. NoteSize[n] - 1 |-> [note |-> n]]
<1>1. n \in Names /\ n # Ghosts /\ NoteSize[n] \in Nat \ {0}
  BY GhostFileAssumption DEF GhostFileAssumption
<1>2. [note |-> n] \in PageValues
  BY DEF PageValues
<1>3. pages \in [0 .. NoteSize[n] - 1 -> PageValues]
  BY <1>2
<1>4. Allocate(n, pages)
  BY DEF WriteNote
<1> HIDE DEF pages
<1> QED BY <1>1, <1>3, <1>4, AllocateStep

LEMMA GhostStep ==
    ASSUME SectorEnds = {}, PageValues \subseteq Values, GhostInv, [GhostNext]_vars
    PROVE  [PakNext]_pakVars /\ GhostInv'
<1>1. CASE Boot
  BY <1>1, BootStep
<1>2. CASE LosePower
  BY <1>2, LosePowerStep
<1>3. CASE Reformat
  BY <1>3, ReformatStep
<1>4. ASSUME NEW n \in DOMAIN NoteSize, WriteNote(n) PROVE [PakNext]_pakVars /\ GhostInv'
  BY <1>4, WriteNoteStep
<1>5. ASSUME NEW n \in Names, DeleteNote(n) PROVE [PakNext]_pakVars /\ GhostInv'
  BY <1>5, DeleteNoteStep
<1>6. ASSUME NEW t \in Tracks, NEW time \in Times, CreateGhosts(t, time)
      PROVE  [PakNext]_pakVars /\ GhostInv'
  BY <1>6, CreateStep
<1>7. ASSUME NEW t \in Tracks, NEW time \in Times, SaveGhost(t, time)
      PROVE  [PakNext]_pakVars /\ GhostInv'
  BY <1>7, SaveStep
<1>8. CASE FinishWrite
  BY <1>8, FinishStep
<1>9. CASE OpenMenu
  BY <1>9, OpenStep
<1>10. CASE CloseMenu \/ UNCHANGED vars
  <2>1. /\ UNCHANGED <<dir, data, loaded, ready, stored>>
        /\ pending' = pending /\ menu' = menu
        /\ inMenu' = FALSE \/ inMenu' = inMenu
    BY <1>10 DEF CloseMenu, vars
  <2>2. UNCHANGED pakVars /\ Image' = Image /\ Stored' = Stored
    BY <2>1 DEF pakVars, Image, Stored
  <2>3. PakInv'
    BY <2>2, PakStep DEF GhostInv
  <2>4. /\ inMenu' \in BOOLEAN
        /\ inMenu' => inMenu
    <3>1. inMenu \in BOOLEAN
      BY DEF GhostInv
    <3>2. CASE inMenu' = FALSE
      BY <3>2, Zenon
    <3>3. CASE inMenu' = inMenu
      BY <3>1, <3>3, Zenon
    <3> QED BY <2>1, <3>2, <3>3, Zenon
  <2>5. (pending # {})' => ready' /\ ~inMenu'
    BY <2>1, <2>4 DEF GhostInv
  <2>6. inMenu' => ready' /\ GoodLines(menu', NotesOf(Image'))
    BY <2>1, <2>2, <2>4 DEF GhostInv
  <2>7. /\ GoodNotes(NotesOf(Image')) /\ GoodNotes(Stored') /\ (~loaded' => Image' = Blank)
        /\ \A w \in pending' : GoodWrite(w, NotesOf(Image'))
    BY <2>1, <2>2 DEF GhostInv
  <2> QED BY <2>2, <2>3, <2>4, <2>5, <2>6, <2>7 DEF GhostInv
<1>11. ASSUME NEW line \in menu, EraseGhost(line) PROVE [PakNext]_pakVars /\ GhostInv'
  BY <1>11, EraseStep
<1> QED BY <1>1, <1>2, <1>3, <1>4, <1>5, <1>6, <1>7, <1>8, <1>9, <1>10, <1>11 DEF GhostNext

-----------------------------------------------------------------------------
(* What follows.                                                           *)

LEMMA InvGhostsOwnTrack == GhostInv => GhostsOwnTrack
<1> SUFFICES ASSUME GhostInv, Signed,
                    NEW i \in Index, Table[i].track # NoTrack
             PROVE  /\ \E time \in Times : Holds(i, Recording(Table[i].track, time))
                    /\ \A j \in 0 .. i - 1 : Table[j].track \notin {NoTrack, Table[i].track}
  BY DEF GhostsOwnTrack
<1>1. PICK k \in 0 .. MaxGhosts : InUse(File, k) /\ Exists
  BY SignedInUse
<1>2. Table = File[0].table
  BY <1>1, TableOf
<1>3. k \in Nat /\ MaxGhosts \in Nat /\ NoTrack \notin Tracks
  BY GhostFileAssumption DEF GhostFileAssumption
<1>4. i \in 0 .. MaxGhosts /\ i \in Nat
  BY <1>3 DEF Index
<1>5. i \notin k .. MaxGhosts
  BY <1>1, <1>2 DEF InUse
<1>6. i < k /\ i \in 0 .. k - 1
  BY <1>3, <1>4, <1>5
<1>7. Table[i].off = Off(i)
  BY <1>1, <1>2, <1>4, <1>6 DEF InUse
<1>8. PICK time \in Times : Whole(File, i, Table[i].track, time)
  BY <1>1, <1>2, <1>6 DEF InUse
<1>9. DOMAIN Recording(Table[i].track, time) = 0 .. GhostPages - 1
  BY DEF Recording
<1>10. Holds(i, Recording(Table[i].track, time))
  BY <1>7, <1>8, <1>9 DEF Holds, Whole
<1>11. ASSUME NEW j \in 0 .. i - 1 PROVE Table[j].track \notin {NoTrack, Table[i].track}
  <2>1. j \in 0 .. k - 1 /\ j # i
    BY <1>3, <1>4, <1>6
  <2> QED BY <1>1, <1>2, <1>3, <1>6, <2>1 DEF InUse
<1> QED BY <1>10, <1>11

LEMMA InvMenuTruthful == GhostInv => MenuTruthful
<1> SUFFICES ASSUME GhostInv, inMenu, NEW line \in menu
             PROVE  Signed /\ Table[line.index].track = line.track
  BY DEF MenuTruthful
<1>1. PICK k \in 0 .. MaxGhosts :
          /\ Ghosts \in DOMAIN NotesOf(Image)
          /\ InUse(NotesOf(Image)[Ghosts], k)
          /\ NotesOf(Image)[Ghosts][0].table[line.index].track = line.track
  BY DEF GhostInv, GoodLines
<1>2. Exists /\ File = NotesOf(Image)[Ghosts]
  BY <1>1, GhostNote DEF GhostInv
<1> QED BY <1>1, <1>2, TableOf

\* The game uses its pak only as a pak can be used: what is written has pages,
\* fits its note and is what a page can hold.
THEOREM GhostsUseThePak ==
    ASSUME SectorEnds = {}, PageValues \subseteq Values
    PROVE  GhostSpec => PakSpec
<1>1. GhostInit => Init
  BY DEF GhostInit
<1>2. GhostInv /\ [GhostNext]_vars => [PakNext]_pakVars /\ GhostInv'
  BY GhostStep
<1> QED BY <1>1, <1>2, GhostInvInit, PTL DEF GhostSpec, PakSpec

\* The pak under the game keeps its types and its notes packed, and is a store
\* of notes to it (os_pfs.c:139-175).
THEOREM GhostPakSound ==
    ASSUME SectorEnds = {}, PageValues \subseteq Values
    PROVE  GhostSpec => []TypeOK /\ []Packed /\ IsNoteStore
  BY GhostsUseThePak, PakTypeOK, PakPacked, PakIsNoteStore, PTL

\* Every entry of a signed table leads to the whole recording of its track, and
\* no track has two, for any number of entries, tracks and pages
\* (save_data.c:1386, 1454).
THEOREM GhostsKeepTracks ==
    ASSUME SectorEnds = {}, PageValues \subseteq Values
    PROVE  GhostSpec => []GhostsOwnTrack
<1>1. GhostInv /\ [GhostNext]_vars => GhostInv'
  BY GhostStep
<1> QED BY <1>1, GhostInvInit, InvGhostsOwnTrack, PTL DEF GhostSpec

\* A line of the menu stands for the entry that holds the track it shows
\* (save_data.c:1473).
THEOREM MenuKeepsTruthful ==
    ASSUME SectorEnds = {}, PageValues \subseteq Values
    PROVE  GhostSpec => []MenuTruthful
<1>1. GhostInv /\ [GhostNext]_vars => GhostInv'
  BY GhostStep
<1> QED BY <1>1, GhostInvInit, InvMenuTruthful, PTL DEF GhostSpec

-----------------------------------------------------------------------------
(* The ghosts' times from one step to the next.                            *)

TimesOn(F, t) == {F[F[0].table[i].off].time : i \in {j \in Index : F[0].table[j].track = t}}

\* At most one track's ghost changes, and not for a slower one.
Changes(F, G) ==
    \E t \in Tracks :
       /\ \A u \in Tracks \ {t} : TimesOn(G, u) = TimesOn(F, u)
       /\ \A before \in TimesOn(F, t), after \in TimesOn(G, t) : after <= before

LEMMA TimesOfFile == Signed => GhostTimes = [t \in Tracks |-> TimesOn(File, t)]
<1> SUFFICES ASSUME Signed PROVE GhostTimes = [t \in Tracks |-> TimesOn(File, t)]
  OBVIOUS
<1>1. Table = File[0].table
  BY DEF Table
<1> DEFINE at(t) == {File[Table[i].off] : i \in {j \in Index : Table[j].track = t}}
<1>2. GhostTimes = [t \in Tracks |-> {page.time : page \in at(t)}]
  BY DEF GhostTimes
<1>3. ASSUME NEW t \in Tracks PROVE {page.time : page \in at(t)} = TimesOn(File, t)
  BY <1>1 DEF TimesOn
<1> HIDE DEF at
<1> QED BY <1>2, <1>3

LEMMA TimesInUse ==
    ASSUME NEW F, NEW k, InUse(F, k), NEW t \in Tracks
    PROVE  TimesOn(F, t) = {F[Off(i)].time : i \in {j \in 0 .. k - 1 : F[0].table[j].track = t}}
<1>1. k \in Nat /\ k <= MaxGhosts /\ MaxGhosts \in Nat /\ NoTrack \notin Tracks
  BY GhostFileAssumption DEF GhostFileAssumption, InUse
<1>2. ASSUME NEW i \in Index, F[0].table[i].track = t
      PROVE  i \in 0 .. k - 1
  <2>1. i \in 0 .. MaxGhosts /\ i \notin k .. MaxGhosts
    BY <1>1, <1>2 DEF InUse, Index
  <2> QED BY <1>1, <2>1
<1>3. ASSUME NEW i \in 0 .. k - 1 PROVE i \in Index /\ F[0].table[i].off = Off(i)
  <2>1. i \in Index /\ i \in 0 .. MaxGhosts /\ i < k
    BY <1>1 DEF Index
  <2> QED BY <2>1 DEF InUse
<1>4. {i \in Index : F[0].table[i].track = t} = {j \in 0 .. k - 1 : F[0].table[j].track = t}
  BY <1>2, <1>3
<1> DEFINE S == {j \in 0 .. k - 1 : F[0].table[j].track = t}
<1>5. \A i \in S : F[0].table[i].off = Off(i)
  BY <1>3
<1>6. TimesOn(F, t) = {F[F[0].table[i].off].time : i \in S}
  BY <1>4 DEF TimesOn
<1> QED BY <1>5, <1>6

LEMMA SameFile ==
    ASSUME NEW F, NEW k, InUse(F, k) PROVE Changes(F, F)
<1>1. PICK t \in Tracks : TRUE
  BY GhostFileAssumption DEF GhostFileAssumption
<1>2. ASSUME NEW before \in TimesOn(F, t), NEW after \in TimesOn(F, t) PROVE after <= before
  <2>1. PICK i \in 0 .. k - 1 : F[0].table[i].track = t /\ before = F[Off(i)].time
    BY <1>2, TimesInUse
  <2>2. PICK j \in 0 .. k - 1 : F[0].table[j].track = t /\ after = F[Off(j)].time
    BY <1>2, TimesInUse
  <2>3. i = j
    BY <2>1, <2>2 DEF InUse
  <2>4. PICK time \in Times :
            F[Off(i)] = [track |-> F[0].table[i].track, time |-> time, part |-> 0]
    BY FirstPage
  <2>5. before = time /\ after = time /\ time \in Nat
    BY <2>1, <2>2, <2>3, <2>4, GhostFileAssumption DEF GhostFileAssumption
  <2> QED BY <2>5
<1> QED BY <1>2 DEF Changes

LEMMA SaveChanges ==
    ASSUME NEW k \in 0 .. MaxGhosts, InUse(File, k), Exists, NEW t \in Tracks, NEW time \in Times,
           NEW g \in EntriesFor(t, time), NEW w, w = FileWith(g, t, time)
    PROVE  Changes(File, w)
<1> DEFINE m == IF g = k THEN k + 1 ELSE k
<1>1. /\ g \in 0 .. MaxGhosts - 1
      /\ \/ /\ g < k /\ File[0].table[g].track = t
            /\ time <= File[Off(g)].time
         \/ g = k /\ \A i \in 0 .. k - 1 : File[0].table[i].track # t
  BY EntryFor
<1>2. /\ InUse(w, m)
      /\ w[0].table[g].track = t
      /\ w[Off(g)].time = time
      /\ \A i \in (0 .. k - 1) \ {g} :
            w[0].table[i].track = File[0].table[i].track /\ w[Off(i)] = File[Off(i)]
  BY <1>1, FileWithInUse
<1>3. k \in Nat /\ g \in 0 .. m - 1 /\ \A i \in 0 .. m - 1 : i = g \/ i \in (0 .. k - 1) \ {g}
  BY <1>1, GhostFileAssumption DEF GhostFileAssumption
<1>4. \A i \in (0 .. k - 1) \ {g} : i \in 0 .. m - 1
  BY <1>3
<1> HIDE DEF m
<1>5. ASSUME NEW u \in Tracks \ {t} PROVE TimesOn(w, u) = TimesOn(File, u)
  <2>1. \A i \in 0 .. m - 1 : w[0].table[i].track = u =>
            i \in (0 .. k - 1) \ {g} /\ File[0].table[i].track = u /\ w[Off(i)] = File[Off(i)]
    BY <1>2, <1>3
  <2>2. \A i \in 0 .. k - 1 : File[0].table[i].track = u =>
            i \in 0 .. m - 1 /\ w[0].table[i].track = u /\ w[Off(i)] = File[Off(i)]
    <3> SUFFICES ASSUME NEW i \in 0 .. k - 1, File[0].table[i].track = u
                 PROVE  i \in 0 .. m - 1 /\ w[0].table[i].track = u /\ w[Off(i)] = File[Off(i)]
      OBVIOUS
    <3>1. i # g
      BY <1>1, <1>3
    <3> QED BY <1>2, <1>4, <3>1
  <2>3. {j \in 0 .. m - 1 : w[0].table[j].track = u} = {j \in 0 .. k - 1 : File[0].table[j].track = u}
    BY <2>1, <2>2
  <2> DEFINE S == {j \in 0 .. k - 1 : File[0].table[j].track = u}
  <2>4. \A i \in S : w[Off(i)] = File[Off(i)]
    BY <2>2
  <2>5. TimesOn(w, u) = {w[Off(i)].time : i \in S}
    BY <1>2, <2>3, TimesInUse
  <2>6. TimesOn(File, u) = {File[Off(i)].time : i \in S}
    BY TimesInUse
  <2> HIDE DEF S
  <2> QED BY <2>4, <2>5, <2>6
<1>6. ASSUME NEW before \in TimesOn(File, t), NEW after \in TimesOn(w, t) PROVE after <= before
  <2>1. PICK i \in 0 .. k - 1 : File[0].table[i].track = t /\ before = File[Off(i)].time
    BY <1>6, TimesInUse
  <2>2. PICK j \in 0 .. m - 1 : w[0].table[j].track = t /\ after = w[Off(j)].time
    BY <1>2, <1>6, TimesInUse
  <2>3. j = g
    BY <1>2, <1>3, <2>2 DEF InUse
  <2>4. g < k /\ time <= File[Off(g)].time /\ File[0].table[g].track = t /\ g \in 0 .. k - 1
    BY <1>1, <1>3, <2>1
  <2>5. i = g
    BY <2>1, <2>4 DEF InUse
  <2> QED BY <1>2, <2>1, <2>2, <2>3, <2>4, <2>5
<1> QED BY <1>5, <1>6 DEF Changes

LEMMA EraseChanges ==
    ASSUME NEW k \in 0 .. MaxGhosts, InUse(File, k), Exists, NEW e \in 0 .. k - 1,
           NEW w, w = FileWithout(e)
    PROVE  Changes(File, w)
<1> DEFINE From(i) == IF i < e THEN i ELSE i + 1
           t       == File[0].table[e].track
<1>1. k \in Nat /\ e \in Nat /\ e < k /\ (k - 1) - 1 = k - 2
  BY GhostFileAssumption DEF GhostFileAssumption
<1>2. /\ InUse(w, k - 1)
      /\ \A i \in 0 .. k - 2 : /\ w[0].table[i].track = File[0].table[From(i)].track
                               /\ w[Off(i)] = File[Off(From(i))]
  BY FileWithoutInUse
<1>3. \A i \in 0 .. k - 2 : From(i) \in 0 .. k - 1 /\ From(i) # e
  BY <1>1
<1>4. ASSUME NEW j \in 0 .. k - 1, j # e PROVE \E i \in 0 .. k - 2 : From(i) = j
  <2>1. CASE j < e
    <3>1. j \in 0 .. k - 2 /\ From(j) = j
      BY <1>1, <2>1
    <3> QED BY <3>1
  <2>2. CASE j > e
    <3>1. j - 1 \in 0 .. k - 2 /\ From(j - 1) = j
      BY <1>1, <2>2
    <3> QED BY <3>1
  <2> QED BY <1>1, <1>4, <2>1, <2>2
<1>5. t \in Tracks
  BY DEF InUse
<1> HIDE DEF From
<1>6. \A u \in Tracks : TimesOn(w, u) = {w[Off(i)].time : i \in {j \in 0 .. k - 2 : w[0].table[j].track = u}}
  BY <1>1, <1>2, TimesInUse
<1>7. ASSUME NEW u \in Tracks \ {t} PROVE TimesOn(w, u) = TimesOn(File, u)
  <2>1. ASSUME NEW x \in TimesOn(w, u) PROVE x \in TimesOn(File, u)
    <3>1. PICK i \in 0 .. k - 2 : w[0].table[i].track = u /\ x = w[Off(i)].time
      BY <1>6, <2>1
    <3>2. From(i) \in 0 .. k - 1 /\ File[0].table[From(i)].track = u /\ x = File[Off(From(i))].time
      BY <1>2, <1>3, <3>1
    <3> QED BY <3>2, TimesInUse
  <2>2. ASSUME NEW x \in TimesOn(File, u) PROVE x \in TimesOn(w, u)
    <3>1. PICK j \in 0 .. k - 1 : File[0].table[j].track = u /\ x = File[Off(j)].time
      BY <2>2, TimesInUse
    <3>2. j # e
      BY <3>1
    <3>3. PICK i \in 0 .. k - 2 : From(i) = j
      BY <1>4, <3>2
    <3>4. w[0].table[i].track = u /\ x = w[Off(i)].time
      BY <1>2, <3>1, <3>3
    <3> QED BY <1>6, <3>4
  <2> QED BY <2>1, <2>2
<1>8. ASSUME NEW after \in TimesOn(w, t) PROVE FALSE
  <2>1. PICK i \in 0 .. k - 2 : w[0].table[i].track = t
    BY <1>5, <1>6, <1>8
  <2>2. From(i) \in 0 .. k - 1 /\ From(i) # e /\ File[0].table[From(i)].track = t
    BY <1>2, <1>3, <2>1
  <2> QED BY <2>2 DEF InUse
<1> QED BY <1>5, <1>7, <1>8 DEF Changes

LEMMA GhostChanges ==
    ASSUME SectorEnds = {}, PageValues \subseteq Values,
           GhostInv, [GhostNext]_vars, Signed, Signed', loaded'
    PROVE  Changes(File, File')
<1>1. /\ Ghosts \in DOMAIN NotesOf(Image) /\ File = NotesOf(Image)[Ghosts]
      /\ Exists /\ \E k \in 0 .. MaxGhosts : InUse(File, k)
  BY SignedInUse
<1>2. /\ Ghosts \in DOMAIN NotesOf(Image') /\ File' = NotesOf(Image')[Ghosts]
  <2>1. GhostInv'
    BY GhostStep
  <2>2. (GhostInv /\ Signed)' => (Ghosts \in DOMAIN NotesOf(Image) /\ File = NotesOf(Image)[Ghosts])'
    BY SignedInUse, PTL
  <2> QED BY <2>1, <2>2
<1>3. PICK k \in 0 .. MaxGhosts : InUse(File, k)
  BY <1>1
<1>4. ASSUME NotesOf(Image')[Ghosts] = NotesOf(Image)[Ghosts] PROVE Changes(File, File')
  BY <1>1, <1>2, <1>3, <1>4, SameFile
<1>5. DOMAIN NotesOf(Blank) = {}
  BY NoNotesOfBlank DEF NS!NoNotes
<1>6. PakInv /\ Ghosts \in Names
  BY GhostFileAssumption DEF GhostFileAssumption, GhostInv
<1>7. ~Boot
  BY <1>1, <1>5 DEF Boot, GhostInv
<1>8. ~LosePower
  BY DEF LosePower, PowerCut
<1>9. ~Reformat
  <2> SUFFICES ASSUME Reformat PROVE FALSE
    OBVIOUS
  <2>1. Image' = Blank
    BY DEF Reformat, osPfsReFormat, Become, Image, Blank
  <2> QED BY <1>2, <1>5, <2>1
<1>10. ASSUME NEW n \in Names, NEW size \in Nat, osPfsAllocateFile(n, size)
       PROVE  Changes(File, File')
  <2>1. /\ n \notin DOMAIN NotesOf(Image)
        /\ [m \in DOMAIN NotesOf(Image') \ {n} |-> NotesOf(Image')[m]] = NotesOf(Image)
    BY <1>6, <1>10, AllocateNotes
  <2>2. NotesOf(Image')[Ghosts] = NotesOf(Image)[Ghosts]
    BY <1>1, <1>2, <2>1
  <2> QED BY <1>4, <2>2
<1>11. ASSUME NEW n \in DOMAIN NoteSize, WriteNote(n) PROVE Changes(File, File')
  <2>1. NoteSize[n] \in Nat /\ n \in Names
    BY GhostFileAssumption DEF GhostFileAssumption
  <2>2. Cardinality(DOMAIN [k1 \in 0 .. NoteSize[n] - 1 |-> [note |-> n]]) = NoteSize[n]
    BY <2>1, FS_Interval
  <2>3. osPfsAllocateFile(n, NoteSize[n])
    BY <1>11, <2>2 DEF WriteNote, Allocate
  <2> QED BY <1>10, <2>1, <2>3
<1>12. ASSUME NEW t \in Tracks, NEW time \in Times, CreateGhosts(t, time) PROVE Changes(File, File')
  <2>1. FilePages \in Nat
    BY Offsets, GhostFileAssumption DEF GhostFileAssumption
  <2>2. DOMAIN NewFile(t, time) = 0 .. FilePages - 1
    BY DEF NewFile
  <2>3. Cardinality(DOMAIN NewFile(t, time)) = FilePages
    BY <2>1, <2>2, FS_Interval
  <2>4. osPfsAllocateFile(Ghosts, FilePages)
    BY <1>12, <2>3 DEF CreateGhosts, Allocate
  <2> QED BY <1>6, <1>10, <2>1, <2>4
<1>13. ASSUME NEW n \in Names, DeleteNote(n) PROVE Changes(File, File')
  <2>1. NotesOf(Image') = [m \in DOMAIN NotesOf(Image) \ {n} |-> NotesOf(Image)[m]]
    BY <1>6, <1>13, DeleteNotes DEF DeleteNote
  <2>2. NotesOf(Image')[Ghosts] = NotesOf(Image)[Ghosts]
    BY <1>1, <1>2, <2>1
  <2> QED BY <1>4, <2>2
<1>14. CASE FinishWrite
  <2>1. PICK w \in pending : \E f \in find_entry(w.name) : WriteFile(f, w.pages)
    BY <1>14 DEF FinishWrite
  <2>2. PICK f \in find_entry(w.name) : WriteFile(f, w.pages)
    BY <2>1
  <2>3. GoodWrite(w, NotesOf(Image))
    BY <2>1 DEF GhostInv
  <2>4. w.name # Ghosts
    <3>1. NotesOf(Image)[Ghosts] # ZeroFile
      BY <1>1, ZeroNotSigned DEF Signed
    <3> QED BY <2>3, <3>1 DEF GoodWrite
  <2>5. w.name \in Names /\ w.pages \in [DOMAIN NotesOf(Image)[w.name] -> Values]
    BY <2>3 DEF GoodWrite
  <2>6. [m \in DOMAIN NotesOf(Image') \ {w.name} |-> NotesOf(Image')[m]]
          = [m \in DOMAIN NotesOf(Image) \ {w.name} |-> NotesOf(Image)[m]]
    BY <1>6, <2>2, <2>5, WholeWrite
  <2>7. /\ [m \in DOMAIN NotesOf(Image') \ {w.name} |-> NotesOf(Image')[m]][Ghosts] = NotesOf(Image')[Ghosts]
        /\ [m \in DOMAIN NotesOf(Image) \ {w.name} |-> NotesOf(Image)[m]][Ghosts] = NotesOf(Image)[Ghosts]
    BY <1>1, <1>2, <2>4
  <2>8. NotesOf(Image')[Ghosts] = NotesOf(Image)[Ghosts]
    BY <2>6, <2>7
  <2> QED BY <1>4, <2>8
<1>15. ASSUME NEW t \in Tracks, NEW time \in Times, SaveGhost(t, time) PROVE Changes(File, File')
  <2>1. PICK g \in EntriesFor(t, time) : WriteGhosts(FileWith(g, t, time))
    BY <1>15 DEF SaveGhost
  <2>2. pending = {}
    BY <1>15 DEF SaveGhost, Idle
  <2>3. /\ g \in 0 .. MaxGhosts - 1
        /\ \/ g < k /\ File[0].table[g].track = t
           \/ g = k /\ \A i \in 0 .. k - 1 : File[0].table[i].track # t
    BY <1>1, <1>3, <2>1, EntryFor
  <2>4. PICK m : InUse(FileWith(g, t, time), m)
    BY <1>1, <1>3, <2>3, FileWithInUse
  <2>5. NotesOf(Image')[Ghosts] = FileWith(g, t, time)
    <3>1. m \in 0 .. MaxGhosts
      BY <2>4 DEF InUse
    <3> QED BY <2>1, <2>2, <2>4, <3>1, RewriteStep
  <2>6. Changes(File, FileWith(g, t, time))
    BY <1>1, <1>3, <2>1, SaveChanges
  <2> QED BY <1>2, <2>5, <2>6
<1>16. ASSUME NEW line \in menu, EraseGhost(line) PROVE Changes(File, File')
  <2> DEFINE e == line.index
  <2>1. WriteGhosts(FileWithout(e)) /\ inMenu
    BY <1>16 DEF EraseGhost
  <2>2. PICK j \in 0 .. MaxGhosts : InUse(File, j) /\ line \in [index : 0 .. j - 1, track : Tracks]
    BY <1>1, <2>1 DEF GhostInv, GoodLines
  <2>3. e \in 0 .. j - 1 /\ pending = {}
    BY <2>1, <2>2 DEF GhostInv
  <2> HIDE DEF e
  <2>4. InUse(FileWithout(e), j - 1) /\ j - 1 \in 0 .. MaxGhosts
    <3>1. InUse(FileWithout(e), j - 1)
      BY <1>1, <2>2, <2>3, FileWithoutInUse
    <3> QED BY <3>1 DEF InUse
  <2>5. NotesOf(Image')[Ghosts] = FileWithout(e)
    BY <2>1, <2>3, <2>4, RewriteStep
  <2>6. Changes(File, FileWithout(e))
    BY <1>1, <2>2, <2>3, EraseChanges
  <2> QED BY <1>2, <2>5, <2>6
<1>17. CASE OpenMenu \/ CloseMenu \/ UNCHANGED vars
  <2>1. Image' = Image
    BY <1>17 DEF OpenMenu, CloseMenu, vars, Image
  <2> QED BY <1>4, <2>1
<1> QED BY <1>7, <1>8, <1>9, <1>11, <1>12, <1>13, <1>14, <1>15, <1>16, <1>17 DEF GhostNext

\* While the note stays, a step changes the ghost of one track at most, and
\* never for a slower one (save_data.c:1371).
THEOREM GhostsOneAtATime ==
    ASSUME SectorEnds = {}, PageValues \subseteq Values
    PROVE  GhostSpec => OneGhostAtATime
<1> DEFINE A == (Signed /\ Signed' /\ loaded') =>
                   LET old == GhostTimes
                       new == GhostTimes'
                   IN  \E t \in Tracks :
                          /\ \A u \in Tracks \ {t} : new[u] = old[u]
                          /\ \A before \in old[t], after \in new[t] : after <= before
<1>1. GhostInv /\ [GhostNext]_vars => A
  <2> SUFFICES ASSUME GhostInv, [GhostNext]_vars, Signed, Signed', loaded'
               PROVE  \E t \in Tracks :
                         /\ \A u \in Tracks \ {t} : GhostTimes'[u] = GhostTimes[u]
                         /\ \A before \in GhostTimes[t], after \in GhostTimes'[t] : after <= before
    OBVIOUS
  <2>1. GhostTimes = [t \in Tracks |-> TimesOn(File, t)]
    BY TimesOfFile
  <2>2. GhostTimes' = [t \in Tracks |-> TimesOn(File', t)]
    <3>1. Signed' => (GhostTimes = [t \in Tracks |-> TimesOn(File, t)])'
      BY TimesOfFile, PTL
    <3> QED BY <3>1
  <2>3. Changes(File, File')
    BY GhostChanges
  <2> QED BY <2>1, <2>2, <2>3 DEF Changes
<1>2. GhostInv /\ [GhostNext]_vars => GhostInv'
  BY GhostStep
<1>3. GhostInv /\ [GhostNext]_vars => [A]_<<dir, data>>
  BY <1>1
<1> HIDE DEF A
<1>4. GhostSpec => [][A]_<<dir, data>>
  BY <1>2, <1>3, GhostInvInit, PTL DEF GhostSpec
<1> QED BY <1>4 DEF A, OneGhostAtATime
=============================================================================
