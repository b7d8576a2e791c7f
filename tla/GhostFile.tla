----------------------------- MODULE GhostFile -----------------------------
(***************************************************************************)
(* The ghosts of time trials, src/save_data.c on top of the Controller     *)
(* Pak: one note whose first page is a signature and a table of (track,    *)
(* offset) entries, followed by the recordings in the table's order, and   *)
(* the menu that erases them one by one.  Other notes of the game come and *)
(* go in the same pak.  Offsets are in pages; a track is a level driven in *)
(* one vehicle.  A checksum is taken to tell a whole recording from        *)
(* anything else.                                                          *)
(***************************************************************************)
EXTENDS ControllerPak

CONSTANTS Ghosts,      \* the name of the ghosts' note
          NoteSize,    \* pages of each of the game's other notes, by name
          Tracks,      \* tracks that can be raced
          NoTrack,     \* an unused table entry: level 0xFF
          NotATrack,   \* level 0, which is no race track
          Times,
          MaxGhosts,   \* 6
          GhostPages,  \* pages of one recording: 0x1100 bytes
          Junk         \* whatever the memory pool last held

ASSUME GhostFileAssumption ==
    /\ MaxGhosts \in Nat \ {0} /\ GhostPages \in Nat \ {0}
    /\ Tracks # {} /\ Times \subseteq Nat
    /\ NoTrack \notin Tracks /\ NotATrack \notin Tracks /\ NotATrack # NoTrack
    /\ Ghosts \in Names \ DOMAIN NoteSize
    /\ DOMAIN NoteSize \subseteq Names
    /\ \A n \in DOMAIN NoteSize : NoteSize[n] \in Nat \ {0}
    /\ Zero \notin [table : [0 .. MaxGhosts -> [track : Tracks \cup {NoTrack}, off : Nat]]]
    /\ Zero \notin [track : Tracks, time : Times, part : 0 .. GhostPages - 1]

VARIABLES pending,  \* the write that follows an allocation, {} if none does
          inMenu,   \* whether the ghost menu is open
          menu      \* its lines: an index in the table and a track

vars == <<dir, data, loaded, ready, stored, pending, inMenu, menu>>

FilePages == 1 + MaxGhosts * GhostPages
Index     == 0 .. MaxGhosts - 1

Recording(t, time) ==
    [k \in 0 .. GhostPages - 1 |-> [track |-> t, time |-> time, part |-> k]]

Tables == [0 .. MaxGhosts -> [track : Tracks \cup {NoTrack}, off : Nat]]
PageValues ==
    {Zero, Junk} \cup [table : Tables] \cup [note : DOMAIN NoteSize]
        \cup [track : Tracks, time : Times, part : 0 .. GhostPages - 1]

-----------------------------------------------------------------------------
Exists == find_entry(Ghosts) # {}
File   == Contents(CHOOSE f \in find_entry(Ghosts) : TRUE)
Signed == Exists /\ File[0] \in [table : Tables]

\* The table as read without a look at the signature: the zero page a note
\* starts with names level 0, at offset 0, in every entry.
Table ==
    IF Signed THEN File[0].table
    ELSE [i \in 0 .. MaxGhosts |-> [track |-> NotATrack, off |-> 0]]

Holds(i, recording) ==
    \A k \in DOMAIN recording : File[Table[i].off + k] = recording[k]

\* calculate_ghost_header_checksum against the checksum stored at entry i.
\* Zeros are a recording of no nodes whose checksum is right.
ChecksumHolds(i) ==
    \/ File[Table[i].off] = Zero
    \/ \E t \in Tracks, time \in Times : Holds(i, Recording(t, time))

\* The time read at entry i without a look at the checksum.
TimesAt(i) ==
    LET page == File[Table[i].off]
    IN  IF page = Zero THEN {0}
        ELSE IF page \in [track : Tracks, time : Times, part : {0}] THEN {page.time}
        ELSE Times

-----------------------------------------------------------------------------
\* The file func_80074EB8 writes into the note it has allocated.
NewFile(t, time) ==
    LET table == [i \in 0 .. MaxGhosts |->
                    IF i = 0 THEN [track |-> t, off |-> 1]
                    ELSE [track |-> NoTrack, off |-> 1 + GhostPages]]
    IN  [p \in 0 .. FilePages - 1 |->
           IF p = 0 THEN [table |-> table]
           ELSE IF p <= GhostPages THEN Recording(t, time)[p - 1]
           ELSE Junk]

\* The file func_80075000 writes when it gives entry g to a recording: every
\* other recording moves with its entry.
FileWith(g, t, time) ==
    LET size(i)  == Table[i + 1].off - Table[i].off
        shift    == GhostPages - size(g)
        table    == [i \in 0 .. MaxGhosts |->
                       [track |-> IF i = g THEN t
                                  ELSE IF i = MaxGhosts THEN NoTrack ELSE Table[i].track,
                        off   |-> IF i <= g THEN Table[i].off ELSE Table[i].off + shift]]
        of(p)    == {i \in Index : p - table[i].off \in 0 .. size(i) - 1}
    IN  [p \in DOMAIN File |->
           IF p = 0 THEN [table |-> table]
           ELSE IF p - table[g].off \in 0 .. GhostPages - 1
                THEN Recording(t, time)[p - table[g].off]
           ELSE IF of(p) # {}
                THEN LET i == CHOOSE i \in of(p) : TRUE
                     IN  File[Table[i].off + (p - table[i].off)]
           ELSE Junk]

\* Mutant: recordings move up, their offsets do not.
FileWithoutShift(w) ==
    LET size  == Table[w + 1].off - Table[w].off
        end   == Table[MaxGhosts].off - size
        table == [i \in 0 .. MaxGhosts |->
                    IF i < w \/ i = MaxGhosts THEN Table[i] ELSE Table[i + 1]]
    IN  [p \in DOMAIN File |->
           IF p = 0 THEN [table |-> table]
           ELSE IF p < Table[w].off THEN File[p]
           ELSE IF p < end THEN File[p + size]
           ELSE Junk]

\* The file func_800753D8 writes to drop entry w.
FileWithout(w) ==
    LET size  == Table[w + 1].off - Table[w].off
        end   == Table[MaxGhosts].off - size
        table == [i \in 0 .. MaxGhosts |->
                    IF i < w THEN Table[i]
                    ELSE LET from == IF i = MaxGhosts THEN i ELSE i + 1
                         IN  [track |-> Table[from].track, off |-> Table[from].off - size]]
    IN  [p \in DOMAIN File |->
           IF p = 0 THEN [table |-> table]
           ELSE IF p < Table[w].off THEN File[p]
           ELSE IF p < end THEN File[p + size]
           ELSE Junk]

-----------------------------------------------------------------------------
GhostInit == Init /\ pending = {} /\ inMenu = FALSE /\ menu = {}

Idle == ready /\ pending = {} /\ ~inMenu

\* init_controller_paks, after power on.
Boot ==
    /\ ~ready /\ ~loaded
    /\ osPfsInit(TRUE)
    /\ UNCHANGED <<pending, inMenu, menu>>

\* write_controller_pak_file of a note that is not there: it allocates ...
Allocate(n, pages) ==
    /\ Idle
    /\ osPfsAllocateFile(n, Cardinality(DOMAIN pages))
    /\ pending' = {[name |-> n, pages |-> pages]}
    /\ UNCHANGED <<inMenu, menu>>

\* ... and then writes.
FinishWrite ==
    /\ \E w \in pending : \E f \in find_entry(w.name) : WriteFile(f, w.pages)
    /\ pending' = {}
    /\ UNCHANGED <<inMenu, menu>>

\* func_80075000 without a note: func_80074EB8.
CreateGhosts(t, time) == Allocate(Ghosts, NewFile(t, time))

\* write_game_data_to_controller_pak, write_time_data_to_controller_pak.
WriteNote(n) == Allocate(n, [k \in 0 .. NoteSize[n] - 1 |-> [note |-> n]])

WriteGhosts(file) ==
    \E f \in find_entry(Ghosts) : WriteFile(f, file)

\* Mutant: a slower recording replaces a faster one.
EntriesForAny(t, time) ==
    LET same == {i \in Index : Table[i].track = t}
        free == {i \in Index : Table[i].track = NoTrack}
        at   == IF same # {} THEN same ELSE free
    IN  {i \in at : \A j \in at : i <= j}

\* The entry func_80075000 gives a recording: that of the same track unless
\* its time is better, else the first unused one, else none.
EntriesFor(t, time) ==
    LET same == {i \in Index : Table[i].track = t}
        free == {i \in Index : Table[i].track = NoTrack}
        at   == IF same # {} THEN same ELSE free
    IN  {i \in at : /\ \A j \in at : i <= j
                    /\ i \in same => \E old \in TimesAt(i) : time <= old}

SaveGhost(t, time) ==
    /\ Idle
    /\ Signed
    /\ \E g \in EntriesFor(t, time) : WriteGhosts(FileWith(g, t, time))
    /\ UNCHANGED <<pending, inMenu, menu>>

\* ghostmenu_generate: a line for every entry that names a race track.
Lines == {[index |-> i, track |-> Table[i].track] : i \in {j \in Index : Table[j].track \in Tracks}}

\* menu_ghost_data_init with func_800756D4: a bad checksum leaves the lines of
\* an earlier visit.
OpenMenu ==
    /\ Idle
    /\ Exists
    /\ inMenu' = TRUE
    /\ menu' = IF \A i \in Index : Table[i].track # NoTrack => ChecksumHolds(i)
               THEN Lines ELSE menu
    /\ UNCHANGED <<dir, data, loaded, ready, stored, pending>>

CloseMenu ==
    /\ inMenu
    /\ inMenu' = FALSE
    /\ UNCHANGED <<dir, data, loaded, ready, stored, pending, menu>>

\* Mutant: the lines behind the erased one keep their indices.
LinesLeft(line) == menu \ {line}

\* ghostmenu_erase once the pak has dropped the recording.
LinesWithout(line) ==
    {[l EXCEPT !.index = IF @ > line.index THEN @ - 1 ELSE @] : l \in menu \ {line}}

EraseGhost(line) ==
    /\ inMenu
    /\ Signed
    /\ WriteGhosts(FileWithout(line.index))
    /\ menu' = LinesWithout(line)
    /\ UNCHANGED <<pending, inMenu>>

\* delete_file, from the menu of saved files.
DeleteNote(n) ==
    /\ Idle
    /\ osPfsDeleteFile(n)
    /\ UNCHANGED <<pending, inMenu, menu>>

\* reformat_controller_pak.
Reformat ==
    /\ Idle
    /\ osPfsReFormat
    /\ UNCHANGED <<pending, inMenu, menu>>

LosePower ==
    /\ PowerCut
    /\ pending' = {} /\ inMenu' = FALSE /\ menu' = {}

GhostNext ==
    \/ Boot \/ LosePower \/ Reformat
    \/ \E n \in DOMAIN NoteSize : WriteNote(n)
    \/ \E n \in Names : DeleteNote(n)
    \/ \E t \in Tracks, time \in Times : CreateGhosts(t, time) \/ SaveGhost(t, time)
    \/ FinishWrite
    \/ OpenMenu \/ CloseMenu
    \/ \E line \in menu : EraseGhost(line)

GhostSpec == GhostInit /\ [][GhostNext]_vars

-----------------------------------------------------------------------------
\* Every entry of a signed table leads to the whole recording of its track, no
\* track has two entries and the entries in use come first, whatever was
\* saved, replaced, erased and moved before (save_data.c:1386, 1454).
GhostsOwnTrack ==
    Signed =>
        LET track(i) == Table[i].track
        IN  \A i \in Index : track(i) # NoTrack =>
               /\ \E time \in Times : Holds(i, Recording(track(i), time))
               /\ \A j \in 0 .. i - 1 : track(j) \notin {NoTrack, track(i)}

\* A line of the menu stands for the entry that holds the track it shows, in a
\* file with a signature: erasing it erases that ghost, and func_800753D8 does
\* not get to free the pointer it has not set (save_data.c:1473).
MenuTruthful ==
    inMenu => \A line \in menu : Signed /\ Table[line.index].track = line.track

\* The times of the ghosts on file, by track.
GhostTimes ==
    LET file  == File
        table == Table
        at(t) == {file[table[i].off] : i \in {j \in Index : table[j].track = t}}
    IN  [t \in Tracks |-> {page.time : page \in at(t)}]

\* While the note stays, a step changes the ghost of one track at most, and
\* never for a slower one (save_data.c:1371).
OneGhostAtATime ==
    [][ (Signed /\ Signed' /\ loaded') =>
          LET old == GhostTimes
              new == GhostTimes'
          IN  \E t \in Tracks :
                 /\ \A u \in Tracks \ {t} : new[u] = old[u]
                 /\ \A before \in old[t], after \in new[t] : after <= before ]_<<dir, data>>
=============================================================================
