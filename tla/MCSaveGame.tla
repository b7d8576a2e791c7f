---------------------------- MODULE MCSaveGame ----------------------------
(* Two files, so that bits 8 and 9 are set both by file numbers and by     *)
(* requests, two names to tell the files apart, one slot for a memory card *)
(* besides the SD card.  The second block loses weight when it gains, as   *)
(* the counts of balloons can, and the last one makes up for it, so that   *)
(* the last stage over the one before passes once its first block is       *)
(* written.                                                                *)
EXTENDS SaveGame, TLC
MCContent    == 0 .. 2
MCGains      == {<<c, d>> \in MCContent \X MCContent : c <= d}
MCStages     == {<<0, 0, 0>>, <<1, 1, 1>>, <<2, 2, 2>>}
MCWeight     == [b \in 1 .. 3 |-> [c \in MCContent |->
                    IF c = 2 THEN 2 ELSE IF b = 2 THEN 3 * c ELSE c]]
MCNameWeight == [n \in Names \cup {0} |-> IF n = 0 THEN 0 ELSE 7]
\* The names weigh the same and differ in nothing else.
Symmetry == Permutations(Names)

\* Bound: after a failure the game goes on at the title, and beyond it only if
\* the media hold the files the game has in memory.
AfterFailure ==
    faulted => \/ ~loaded \/ screen = "title"
               \/ \A m \in Stored(Media) : blob[m].file = image.file

\* Left out of the view: what is set again before it is next read.  The
\* outcomes and the options matter until a medium fails, the files shown and the
\* file picked in the menu and the game, the settings from when they are read to
\* when they are written.
Waiting(op, bit) == bit \in flags \/ \E i \in DOMAIN todo : todo[i].op = op
SettingsView ==
    IF \/ Waiting("write", WriteSave)
       \/ screen \in {"game", "copy"} /\ ~Waiting("read", ReadFile)
    THEN settings
    ELSE IF screen = "game" THEN settings.name ELSE Blank

\* Bound: of a blob that lies behind the one in use, an earlier image, only one
\* is followed into a failure.
BlobView(m) ==
    IF blob[m] = NoBlob THEN NoBlob
    ELSE IF faulted THEN blob[m].file
    ELSE IF m \in First(Stored(present)) THEN blob[m] ELSE ErasedImage

View == <<flags, todo, block, inLogic, SettingsView, screen,
          IF screen = "game" THEN saveFile ELSE 0,
          IF screen \in {"files", "copy"} THEN started ELSE {},
          image.file, [m \in Media |-> BlobView(m)], loaded, present, faulted,
          IF faulted THEN <<>> ELSE <<outcome, config, image.config>>>>
=============================================================================
