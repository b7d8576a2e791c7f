--------------------------- MODULE ControllerPak ---------------------------
(***************************************************************************)
(* The Controller Pak emulated by platform/gc/ultra/os_pfs.c: a directory  *)
(* of notes, contiguous runs of pages kept packed from page zero, and a    *)
(* blob on some storage medium into which the whole image is written after *)
(* every change.  A page (256 bytes) is the unit of content.  Each call    *)
(* runs on the game thread and is one step; power may be cut between two   *)
(* calls, and inside a store as far as the medium can tell.                *)
(***************************************************************************)
EXTENDS Integers, FiniteSets

CONSTANTS Entries,     \* PFS_DIR_ENTRIES
          Pages,       \* PFS_DATA_PAGES
          Names, NoName,
          Values,      \* contents of a page
          Zero,        \* a page of zeros
          Unreadable,  \* no blob, or one whose magic or version fails
          SectorEnds   \* pages before which a store may be cut with the
                       \* directory, which comes first in the blob, complete

ASSUME ControllerPakAssumption ==
    /\ Entries \in Nat
    /\ Pages \in Nat
    /\ Zero \in Values
    /\ NoName \notin Names
    /\ SectorEnds \subseteq Nat

VARIABLES dir,     \* sPak.dir
          data,    \* sPak.data
          loaded,  \* sLoaded
          ready,   \* pfs.status & PFS_INITIALIZED
          stored   \* the blob named PAK_SAVE_NAME

pakVars == <<dir, data, loaded, ready, stored>>

FileNo == 0 .. Entries - 1
PageNo == 0 .. Pages - 1
Unused == [used |-> FALSE, name |-> NoName, start |-> 0, count |-> 0]
Image  == [dir |-> dir, data |-> data]
Blank  == [dir |-> [i \in FileNo |-> Unused], data |-> [p \in PageNo |-> Zero]]

Become(image) == dir' = image.dir /\ data' = image.data

-----------------------------------------------------------------------------
UsedIn(d)  == {i \in FileNo : d[i].used}
Used       == UsedIn(dir)
RangeOf(e) == e.start .. e.start + e.count - 1

\* pages_used: the sum of the page counts of the entries in use.
pages_used == Cardinality(UNION {{i} \X RangeOf(dir[i]) : i \in Used})

\* Mutant: the last entry in use is taken for the one that ends last.
last_entry_end ==
    IF Used = {} THEN 0
    ELSE LET i == CHOOSE i \in Used : \A j \in Used : j <= i
         IN  dir[i].start + dir[i].count

first_free_page ==
    LET ends == {0} \cup {dir[i].start + dir[i].count : i \in Used}
    IN  CHOOSE e \in ends : \A f \in ends : f <= e

\* find_entry: the first entry of that name; {} when there is none.
find_entry(n) ==
    {i \in Used : /\ dir[i].name = n
                  /\ \A j \in Used : dir[j].name = n => i <= j}

-----------------------------------------------------------------------------
(* pak_store ignores whether gc_storage_write succeeded.  A write that     *)
(* fails, or that a power cut ends, leaves the blob alone, makes it        *)
(* unreadable or, when SectorEnds allows it, leaves the new directory in   *)
(* front of pages of which only the first are new.                         *)
TornAt(new, end) ==
    [dir  |-> new.dir,
     data |-> [p \in PageNo |-> IF p < end THEN new.data[p] ELSE stored.data[p]]]

pak_store ==
    \/ stored' \in {Image', stored, Unreadable}
    \/ /\ stored # Unreadable
       /\ \E end \in SectorEnds : stored' = TornAt(Image', end)

\* pak_load, unless it has run: a failed read gives a blank pak.
pak_load ==
    IF loaded THEN UNCHANGED <<dir, data, loaded>>
    ELSE /\ loaded' = TRUE
         /\ \/ Become(Blank)
            \/ stored # Unreadable /\ Become(stored)

Init ==
    /\ dir = Blank.dir /\ data = Blank.data
    /\ loaded = FALSE /\ ready = FALSE
    /\ stored = Unreadable

\* With no medium the pak is reported absent.
osPfsInit(present) ==
    /\ ready' = present
    /\ IF present THEN pak_load ELSE UNCHANGED <<dir, data, loaded>>
    /\ UNCHANGED stored

osPfsReFormat ==
    /\ Become(Blank)
    /\ loaded' = TRUE
    /\ ready' = TRUE
    /\ pak_store

\* Mutant: the first free page is where the last entry in use ends.
AllocateLast(n, need) ==
    /\ ready
    /\ need > 0
    /\ find_entry(n) = {}
    /\ pages_used + need <= Pages
    /\ \E slot \in FileNo \ Used :
          /\ \A i \in FileNo \ Used : slot <= i
          /\ dir' = [dir EXCEPT ![slot] = [used |-> TRUE, name |-> n,
                                           start |-> last_entry_end, count |-> need]]
    /\ data' = [p \in PageNo |->
                  IF p \in last_entry_end .. last_entry_end + need - 1 THEN Zero ELSE data[p]]
    /\ pak_store
    /\ UNCHANGED <<loaded, ready>>

osPfsAllocateFile(n, need) ==
    /\ ready
    /\ need > 0
    /\ find_entry(n) = {}
    /\ pages_used + need <= Pages
    /\ \E slot \in FileNo \ Used :
          /\ \A i \in FileNo \ Used : slot <= i
          /\ dir' = [dir EXCEPT ![slot] = [used |-> TRUE, name |-> n,
                                           start |-> first_free_page, count |-> need]]
    /\ data' = [p \in PageNo |->
                  IF p \in first_free_page .. first_free_page + need - 1 THEN Zero ELSE data[p]]
    /\ pak_store
    /\ UNCHANGED <<loaded, ready>>

\* Mutant: the notes behind the gap move, their directory entries do not.
ReleaseInPlace(f) ==
    LET gap  == dir[f].start
        size == dir[f].count
    IN  /\ data' = [p \in PageNo |-> IF p \in gap .. first_free_page - size - 1
                                     THEN data[p + size] ELSE data[p]]
        /\ dir' = [dir EXCEPT ![f] = Unused]

\* Mutant: every entry moves down, those in front of the note as well.
ReleaseEverything(f) ==
    LET gap  == dir[f].start
        size == dir[f].count
    IN  /\ data' = [p \in PageNo |-> IF p \in gap .. first_free_page - size - 1
                                     THEN data[p + size] ELSE data[p]]
        /\ dir' = [i \in FileNo |->
                     IF i = f THEN Unused
                     ELSE IF dir[i].used THEN [dir[i] EXCEPT !.start = @ - size]
                          ELSE dir[i]]

\* pak_release: the pages behind the note move down over it, and with them
\* every entry that starts behind it.
pak_release(f) ==
    LET gap  == dir[f].start
        size == dir[f].count
    IN  /\ data' = [p \in PageNo |-> IF p \in gap .. first_free_page - size - 1
                                     THEN data[p + size] ELSE data[p]]
        /\ dir' = [i \in FileNo |->
                     IF i = f THEN Unused
                     ELSE IF dir[i].used /\ dir[i].start > gap
                          THEN [dir[i] EXCEPT !.start = @ - size]
                          ELSE dir[i]]

osPfsDeleteFile(n) ==
    /\ ready
    /\ \E f \in find_entry(n) : pak_release(f)
    /\ pak_store
    /\ UNCHANGED <<loaded, ready>>

\* What osPfsReadWriteFile reads of a whole note.
Contents(i) == [k \in 0 .. dir[i].count - 1 |-> data[dir[i].start + k]]

\* osPfsReadWriteFile with PFS_WRITE.  The pages written are the domain of w.
WriteFile(f, w) ==
    /\ ready
    /\ f \in Used
    /\ \A k \in DOMAIN w : k < dir[f].count
    /\ data' = [p \in PageNo |->
                  IF p \in RangeOf(dir[f]) /\ p - dir[f].start \in DOMAIN w
                  THEN w[p - dir[f].start] ELSE data[p]]
    /\ UNCHANGED <<dir, loaded, ready>>
    /\ pak_store

\* RAM is lost.
PowerCut ==
    /\ Become(Blank)
    /\ loaded' = FALSE /\ ready' = FALSE
    /\ UNCHANGED stored

Pieces == UNION {[ks -> Values] : ks \in SUBSET Nat}

PakNext ==
    \/ \E present \in BOOLEAN : osPfsInit(present)
    \/ osPfsReFormat
    \/ \E n \in Names, need \in Nat : osPfsAllocateFile(n, need)
    \/ \E n \in Names : osPfsDeleteFile(n)
    \/ \E f \in FileNo, w \in Pieces : WriteFile(f, w)
    \/ PowerCut

PakSpec == Init /\ [][PakNext]_pakVars

-----------------------------------------------------------------------------
Entry  == [used : BOOLEAN, name : Names \cup {NoName}, start : Nat, count : Nat]
Images == [dir : [FileNo -> Entry], data : [PageNo -> Values]]

\* The image in memory and the blob have their types.
TypeOK ==
    /\ Image \in Images
    /\ loaded \in BOOLEAN /\ ready \in BOOLEAN
    /\ stored \in Images \cup {Unreadable}

\* The ranges of the notes do not overlap and fill the pages from zero up
\* without a gap, and no two notes have one name.
PackedDir(d) ==
    /\ \A i \in UsedIn(d) : d[i].count > 0
    /\ \A i, j \in UsedIn(d) : i # j =>
          /\ d[i].name # d[j].name
          /\ RangeOf(d[i]) \cap RangeOf(d[j]) = {}
    /\ \E end \in 0 .. Pages : UNION {RangeOf(d[i]) : i \in UsedIn(d)} = 0 .. end - 1

\* "Entries are kept packed from page zero upward" (os_pfs.c:139): so the first
\* free page is the number of pages used, the check against the pak's size
\* suffices, and moving the tail down on delete moves whole notes.
Packed == PackedDir(dir)

\* The notes of an image, as whoever opens them by name sees them.
NotesOf(image) ==
    LET used == UsedIn(image.dir)
    IN  [n \in {image.dir[i].name : i \in used} |->
           LET e == image.dir[CHOOSE i \in used : image.dir[i].name = n]
           IN  [k \in 0 .. e.count - 1 |-> image.data[e.start + k]]]

NS == INSTANCE NoteStore WITH
        notes <- NotesOf(Image),
        kept  <- NotesOf(IF stored = Unreadable THEN Blank ELSE stored),
        on    <- loaded

\* The pak is a store of notes: an operation on one note changes no other,
\* wherever deletions have moved it, and after a power cut the pak holds the
\* notes of the last store, those before it, or none.
IsNoteStore == NS!Spec
=============================================================================
