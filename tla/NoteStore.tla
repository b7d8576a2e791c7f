----------------------------- MODULE NoteStore -----------------------------
(***************************************************************************)
(* What a Controller Pak promises its user: notes of whole pages, each     *)
(* under a name of its own.  An operation on one note leaves every other   *)
(* note as it is.  A second copy of the notes survives a power cut; an     *)
(* operation may fail to reach it, and a store cut short may lose it, but  *)
(* it never holds anything other than the notes of some moment.            *)
(***************************************************************************)
CONSTANTS Names,   \* names of notes
          Values,  \* contents of a page
          Zero     \* the content of a page nothing has been written to

VARIABLES notes,  \* the notes: a function from names to functions from page numbers to contents
          kept,   \* the notes that survive a power cut
          on      \* whether the notes have been loaded

vars == <<notes, kept, on>>

NoNotes == [n \in {} |-> Zero]

Init == notes = NoNotes /\ kept = NoNotes /\ on = FALSE

Save == kept' \in {notes', kept, NoNotes}

Load ==
    /\ ~on /\ on' = TRUE
    /\ notes' \in {kept, NoNotes}
    /\ UNCHANGED kept

PowerCut ==
    /\ on' = FALSE
    /\ notes' = NoNotes
    /\ UNCHANGED kept

Others(n) == [m \in DOMAIN notes \ {n} |-> notes[m]]

\* A new note is as long as asked and empty.
Create(n) ==
    /\ on
    /\ n \notin DOMAIN notes
    /\ n \in DOMAIN notes'
    /\ \A k \in DOMAIN notes'[n] : notes'[n][k] = Zero
    /\ Others(n)' = notes
    /\ Save
    /\ UNCHANGED on

\* Writing changes pages of one note and no note's size.
Write(n) ==
    /\ on
    /\ n \in DOMAIN notes \cap DOMAIN notes'
    /\ notes'[n] \in [DOMAIN notes[n] -> Values]
    /\ Others(n)' = Others(n)
    /\ Save
    /\ UNCHANGED on

Delete(n) ==
    /\ on
    /\ n \in DOMAIN notes
    /\ notes' = Others(n)
    /\ Save
    /\ UNCHANGED on

\* A pak may be formatted before anything has loaded it.
Format ==
    /\ on' = TRUE
    /\ notes' = NoNotes
    /\ Save

Next ==
    \/ Load \/ PowerCut \/ Format
    \/ \E n \in Names : Create(n) \/ Write(n) \/ Delete(n)

Spec == Init /\ [][Next]_vars
=============================================================================
