----------------------------- MODULE SaveGame -----------------------------
(***************************************************************************)
(* The three save files of the adventure and the game's settings: menus    *)
(* and race code set bits of gSaveDataFlags, input_update turns them into  *)
(* block reads and writes of an EEPROM image, and every block written      *)
(* stores the whole image on the first storage medium that takes it.  The  *)
(* game thread does all of it; power may go between any two stores and     *)
(* inside one.  Media come and go, fill up and fail.  The course records,  *)
(* which have blocks of their own, are left out, and so is the reset       *)
(* button, whose message nothing sends on this machine.                    *)
(***************************************************************************)
EXTENDS Integers, Sequences

CONSTANTS Files,      \* numbers of save files, 0 to 2
          Size,       \* blocks of a file, five
          Content,    \* what a block can hold of the player's progress
          Blank,      \* zeros: no progress, or no name
          Erased,     \* bytes of 0xFF
          Gains,      \* pairs of contents, the second with all flags of the
                      \* first and no count below the first's
          Stages,     \* what the blocks hold at the stages of the adventure
          Weight,     \* the sum of the bytes, by block and content
          Names, NameWeight,
          Cards,      \* slots of memory cards, in the order they are tried
          SD,         \* the SD card, tried last
          Configs, Default, NoConfig,  \* settings; a block that holds none
          NoBlob

Blocks == 1 .. Size

\* Bytes of progress in a block of eight: the first has the checksum besides,
\* the last, after the keys and the flags of the cutscenes, the name.
Bytes(b) == IF b \in {1, Size} THEN 6 ELSE 8

\* File 1 is the one that the flags of the boot name.  The last byte of a save is
\* zero.  A block that gains may lose weight, where a count of seven bits lies in
\* two bytes.
ASSUME SaveGameAssumption ==
    /\ Files \subseteq 0 .. 2 /\ 1 \in Files
    /\ Size \in 2 .. 5
    /\ Blank \in Content /\ Erased \notin Content \cup Names \cup {Blank}
    /\ \A c \in Content : <<c, c>> \in Gains
    /\ \A c, d, e \in Content : <<c, d>> \in Gains /\ <<d, e>> \in Gains => <<c, e>> \in Gains
    /\ Stages \subseteq [Blocks -> Content] /\ [b \in Blocks |-> Blank] \in Stages
    /\ Weight \in [Blocks -> [Content -> Nat]]
    /\ \A c \in Content : /\ \A b \in Blocks : Weight[b][c] <= 255 * Bytes(b)
                          /\ Weight[Size][c] <= 255 * (Bytes(Size) - 1)
    /\ NameWeight \in [Names \cup {Blank} -> 0 .. 255 * 2]
    /\ Cards \subseteq Nat /\ SD \in Nat /\ \A c \in Cards : c < SD
    /\ Default \in Configs /\ NoConfig \notin Configs

VARIABLES flags,     \* gSaveDataFlags, as the set of its bits
          todo,      \* what input_update still has to do
          block,     \* the block its first operation writes next
          inLogic,   \* input_update is done, the frame's logic runs
          settings,  \* the game's Settings: its blocks and its name
          config,    \* sEepromSettings
          screen, saveFile,  \* where the player is, gSaveFileIndex
          started,   \* the files the menu shows as started
          image,     \* sEeprom
          loaded,    \* sLoaded
          blob,      \* the blob on each medium
          present,   \* the media that can be mounted
          faulted,   \* history: a medium has failed or gone with its blob
          outcome    \* history: what a boot may find in each file

menus   == <<screen, saveFile, started>>
game    == <<settings, config>>
storage == <<image, loaded, blob, faulted, outcome>>
vars    == <<flags, todo, block, inLogic, game, menus, storage, present>>

Media  == Cards \cup {SD}
New    == [block |-> [b \in Blocks |-> Blank], name |-> Blank]
Saves  == [block : Stages, name : Names]

\* save holds progress that leads to that in later.
Leads(save, later) ==
    /\ save.name = later.name
    /\ \A b \in Blocks : <<save.block[b], later.block[b]>> \in Gains

-----------------------------------------------------------------------------
(* One file of the image: a checksum, which lies in the first block, what  *)
(* the blocks hold and the name in the last one.                           *)
ZeroFile == [sum |-> 0, data |-> New]

Weigh(b, c)   == IF c = Erased THEN 255 * Bytes(b) ELSE Weight[b][c]
WeighName(n)  == IF n = Erased THEN 255 * 2 ELSE NameWeight[n]

\* What the first blocks weigh together.
Weights(data) ==
    LET upto[b \in 0 .. Size] ==
            IF b = 0 THEN 0 ELSE upto[b - 1] + Weigh(b, data.block[b])
    IN  upto

\* Mutant: the last block is not in the checksum.
ChecksumShort(data) == 5 + Weights(data)[Size - 1]

\* Five and all bytes but those of the checksum; 16 bits are enough for it.
Checksum(data) == 5 + Weights(data)[Size] + WeighName(data.name)

\* func_800732E8
FileOf(save) == [sum |-> Checksum(save), data |-> save]

\* erase_save_file fills every block with 0xFF.
ErasedFile ==
    [sum |-> 65535, data |-> [block |-> [b \in Blocks |-> Erased], name |-> Erased]]

\* The file once block b has been written.
WithBlock(file, new, b) ==
    [sum  |-> IF b = 1 THEN new.sum ELSE file.sum,
     data |-> [block |-> [file.data.block EXCEPT ![b] = new.data.block[b]],
               name  |-> IF b = Size THEN new.data.name ELSE file.data.name]]

\* The file once the blocks up to k have.
CutShort(file, new, k) ==
    [sum  |-> new.sum,
     data |-> [block |-> [b \in Blocks |-> IF b <= k THEN new.data.block[b]
                                           ELSE file.data.block[b]],
               name  |-> IF k = Size THEN new.data.name ELSE file.data.name]]

\* populate_settings_from_save_data: the progress in a file, {} if it is that
\* of a new game.
Read(file) == IF file.sum = Checksum(file.data) THEN {file.data} ELSE {}

Everywhere(file, c) == [file |-> [f \in Files |-> file], config |-> c]
ZeroImage   == Everywhere(ZeroFile, NoConfig)
ErasedImage == Everywhere(ErasedFile, NoConfig)

\* clear_game_progress leaves the name.
Cleared(save) == [save EXCEPT !.block = New.block]

-----------------------------------------------------------------------------
(* Storage.                                                                *)
First(media) == {m \in media : \A n \in media : m <= n}
Stored(media) == {m \in media : blob[m] # NoBlob}

\* save_load with gc_storage_read: the blob of the first medium that has one
\* and can be read, zeros without one.
\* Bound: one failure.
Load ==
    /\ ~loaded
    /\ loaded' = TRUE
    /\ \E bad \in SUBSET Stored(present) :
          LET source == First(Stored(present) \ bad)
          IN  /\ bad # {} => ~faulted
              /\ faulted' = (faulted \/ bad # {})
              /\ image' = IF source = {} THEN ZeroImage
                          ELSE blob[CHOOSE m \in source : TRUE]
    /\ outcome' = [f \in Files |-> {Read(image'.file[f])}]
    /\ UNCHANGED <<flags, todo, block, inLogic, game, menus, blob, present>>

\* Mutant: a file that was created but not written stays.
StoreLeavingCreated(new) ==
    \E bad \in SUBSET present :
       LET target == First(present \ bad)
           before == {m \in bad : \A t \in target : m < t}
       IN  \E torn \in SUBSET before :
             /\ Stored(before) # {} => ~faulted
             /\ faulted' = (faulted \/ Stored(before) # {} \/ target = {})
             /\ blob' = [m \in Media |->
                           IF m \in target THEN new
                           ELSE IF m \notin torn THEN blob[m]
                           ELSE IF m \in Cards THEN ErasedImage ELSE NoBlob]

\* gc_storage_write: to the first medium that can be mounted, has room and
\* takes the write.  On those before it a blob that was there may be left
\* erased, on the SD card truncated; a file created for the purpose is deleted
\* again.  Bound: one failure that hits a blob.
Store(new) ==
    \E bad \in SUBSET present :
       LET target == First(present \ bad)
           hit    == {m \in Stored(bad) : \A t \in target : m < t}
       IN  \E torn \in SUBSET hit :
             /\ hit # {} => ~faulted
             /\ faulted' = (faulted \/ hit # {} \/ target = {})
             /\ blob' = [m \in Media |->
                           IF m \in target THEN new
                           ELSE IF m \notin torn THEN blob[m]
                           ELSE IF m \in Cards THEN ErasedImage ELSE NoBlob]

-----------------------------------------------------------------------------
(* gSaveDataFlags.  Bits 8 and 9 are both the number of the file to read   *)
(* and the requests to read and to write the settings.                     *)
ReadFile    == 2
ReadAll     == 3
WriteSave   == 6
EraseSave   == 7
ReadConfig  == 8
WriteConfig == 9

Bits(n, at)   == {at + i : i \in {j \in 0 .. 1 : (n \div (j + 1)) % 2 = 1}}
Number(at)    == (IF at \in flags THEN 1 ELSE 0) + (IF at + 1 \in flags THEN 2 ELSE 0)

mark_read_save_file(f)        == (flags \ {8, 9}) \cup {ReadFile} \cup Bits(f, 8)
mark_read_all_save_files      == flags \cup {ReadAll}
force_mark_write_save_file(f) == (flags \ {10, 11}) \cup {WriteSave} \cup Bits(f, 10)
mark_save_file_to_erase(f)    == {EraseSave} \cup Bits(f, 10)
mark_write_eeprom_settings    == flags \cup {WriteConfig}
BootFlags == {ReadFile, ReadConfig}

Op(op, f)  == [op |-> op, file |-> f]
One(f)       == IF f \in Files THEN <<Op("readAll", f)>> ELSE <<>>
ReadEvery    == One(0) \o One(1) \o One(2)
If(bit, ops) == IF bit \in flags THEN ops ELSE <<>>

\* The order in which input_update serves the requests.  A file number of
\* three, which no caller makes, would mean the last file.
Requests ==
    If(ReadAll, ReadEvery)
    \o If(ReadFile, <<Op("read", Number(8))>>)
    \o If(WriteSave, <<Op("write", Number(10))>>)
    \o If(EraseSave, <<Op("erase", Number(10))>>)
    \o If(ReadConfig, <<Op("readConfig", 0)>>)
    \o If(WriteConfig, <<Op("writeConfig", 0)>>)

-----------------------------------------------------------------------------
Init ==
    /\ flags = BootFlags /\ todo = <<>> /\ block = 1 /\ inLogic = FALSE
    /\ settings = New
    /\ config = Default
    /\ screen = "title" /\ saveFile = 0 /\ started = {}
    /\ image = ZeroImage /\ loaded = FALSE
    /\ blob = [m \in Media |-> NoBlob]
    /\ present \in SUBSET Media
    /\ faulted = FALSE
    /\ outcome = [f \in Files |-> {{}}]

\* Mutant: the flags are not reset.
TakeKeepingFlags ==
    /\ loaded /\ ~inLogic /\ todo = <<>>
    /\ todo' = Requests
    /\ inLogic' = TRUE
    /\ UNCHANGED <<flags, block, game, menus, storage, present>>

\* input_update takes the flags ...
TakeRequests ==
    /\ loaded /\ ~inLogic /\ todo = <<>>
    /\ todo' = Requests
    /\ flags' = {}
    /\ inLogic' = TRUE
    /\ UNCHANGED <<block, game, menus, storage, present>>

\* ... and serves one after the other before the frame's logic runs.
Busy(op) == todo # <<>> /\ Head(todo).op = op
Logic    == inLogic /\ todo = <<>>
Current  == Head(todo).file

\* read_save_file erases a file it takes for a new game.
ServeReadAll ==
    /\ Busy("readAll")
    /\ LET found == Read(image.file[Current])
       IN  /\ started' = IF found = {} THEN started \ {Current} ELSE started \cup {Current}
           /\ todo' = IF found = {} THEN <<Op("clean", Current)>> \o Tail(todo) ELSE Tail(todo)
    /\ UNCHANGED <<flags, block, inLogic, game, screen, saveFile, storage, present>>

ServeRead ==
    /\ Busy("read")
    /\ LET found == Read(image.file[Current])
       IN  /\ settings' = IF found = {} THEN Cleared(settings)
                          ELSE CHOOSE save \in found : TRUE
           /\ todo' = IF found = {} THEN <<Op("clean", Current)>> \o Tail(todo) ELSE Tail(todo)
    /\ UNCHANGED <<flags, block, inLogic, config, menus, storage, present>>

\* One osEepromWrite of the five that make up file f.
WriteBlock(f, new) ==
    LET old == image.file[f]
    IN  /\ image' = [image EXCEPT !.file[f] = WithBlock(old, new, block)]
        /\ Store(image')
        /\ IF block = Size
           THEN block' = 1 /\ todo' = Tail(todo)
           ELSE block' = block + 1 /\ UNCHANGED todo
        /\ outcome' = [outcome EXCEPT ![f] =
                         IF block = Size THEN {Read(new)}
                         ELSE @ \cup {Read(CutShort(old, new, k)) : k \in Blocks}]
    /\ UNCHANGED <<flags, inLogic, config, menus, loaded, present>>

\* write_save_data
ServeWrite ==
    /\ Busy("write")
    /\ WriteBlock(Current, FileOf(settings))
    /\ UNCHANGED settings

\* What erase_save_file leaves of the game's settings: the keys and amulets in
\* its blocks.
Remains(save) ==
    {left \in [block : [Blocks -> Content], name : {save.name}] : Leads(left, save)}

\* erase_save_file, for the player or for read_save_file.  For the player it
\* clears the game's settings as well.
ServeErase ==
    /\ Busy("erase") \/ Busy("clean")
    /\ WriteBlock(Current, ErasedFile)
    /\ IF Busy("erase") /\ block = 1 THEN settings' \in Remains(settings)
       ELSE UNCHANGED settings

\* read_eeprom_settings
ServeReadConfig ==
    /\ Busy("readConfig")
    /\ config' = IF image.config = NoConfig THEN Default ELSE image.config
    /\ todo' = Tail(todo)
    /\ UNCHANGED <<flags, block, inLogic, settings, menus, storage, present>>

\* write_eeprom_settings
ServeWriteConfig ==
    /\ Busy("writeConfig")
    /\ image' = [image EXCEPT !.config = config]
    /\ Store(image')
    /\ todo' = Tail(todo)
    /\ UNCHANGED <<flags, block, inLogic, game, menus, loaded, outcome, present>>

-----------------------------------------------------------------------------
(* The logic of a frame: menus and race.  A menu shows the next screen only *)
(* after another frame has begun.                                          *)
NextFrame == inLogic' = FALSE /\ UNCHANGED <<todo, block, config, storage, present>>

EndFrame == Logic /\ NextFrame /\ UNCHANGED <<flags, settings, menus>>

\* menu_file_select_init.  The menu takes no input before it has shown what
\* the next frame reads.
OpenFiles ==
    /\ Logic /\ screen = "title"
    /\ screen' = "files"
    /\ flags' = mark_read_all_save_files
    /\ NextFrame
    /\ UNCHANGED <<settings, saveFile, started>>

LeaveFiles ==
    /\ Logic /\ screen = "files"
    /\ screen' = "title"
    /\ NextFrame
    /\ UNCHANGED <<flags, settings, saveFile, started>>

\* menu_file_select_loop: a file that has been started is read and played, one
\* that has not is given a name first.
PickFile(f) ==
    /\ Logic /\ screen = "files"
    /\ screen' = "game" /\ saveFile' = f
    /\ IF f \in started THEN UNCHANGED settings
       ELSE \E n \in Names :
               settings' = [settings EXCEPT !.name = n]
    /\ flags' = mark_read_save_file(f)
    /\ NextFrame
    /\ UNCHANGED started

\* fileselect_input_copy: the file to copy ...
CopyFrom(f) ==
    /\ Logic /\ screen = "files" /\ f \in started
    /\ screen' = "copy"
    /\ flags' = mark_read_save_file(f)
    /\ NextFrame
    /\ UNCHANGED <<settings, saveFile, started>>

\* Mutant: a file in use is copied over.
CopyOver(f) ==
    /\ Logic /\ screen = "copy"
    /\ screen' = "files" /\ saveFile' = f /\ started' = started \cup {f}
    /\ flags' = force_mark_write_save_file(f)
    /\ NextFrame
    /\ UNCHANGED settings

\* ... the file to copy it to, which is not to be one that has been started ...
CopyTo(f) ==
    /\ Logic /\ screen = "copy" /\ f \notin started
    /\ screen' = "files" /\ saveFile' = f /\ started' = started \cup {f}
    /\ flags' = force_mark_write_save_file(f)
    /\ NextFrame
    /\ UNCHANGED settings

\* ... or not.
CopyBack ==
    /\ Logic /\ screen = "copy"
    /\ screen' = "files"
    /\ NextFrame
    /\ UNCHANGED <<flags, settings, saveFile, started>>

\* fileselect_input_erase
EraseFile(f) ==
    /\ Logic /\ screen = "files" /\ f \in started
    /\ saveFile' = f /\ started' = started \ {f}
    /\ flags' = mark_save_file_to_erase(f)
    /\ NextFrame
    /\ UNCHANGED <<settings, screen>>

\* The player makes progress ...
Advance ==
    /\ Logic /\ screen = "game"
    /\ \E later \in Saves :
          /\ Leads(settings, later) /\ later # settings
          /\ settings' = later
    /\ UNCHANGED <<flags, todo, block, inLogic, config, menus, storage, present>>

\* ... which safe_mark_write_save_file is asked to save ...
SaveProgress ==
    /\ Logic /\ screen = "game"
    /\ flags' = force_mark_write_save_file(saveFile)
    /\ UNCHANGED <<todo, block, inLogic, game, menus, storage, present>>

\* ... and leaves the game.
QuitGame ==
    /\ Logic /\ screen = "game"
    /\ screen' = "title"
    /\ NextFrame
    /\ UNCHANGED <<flags, settings, saveFile, started>>

\* set_eeprom_settings_value, by the options menu or by what the race unlocks.
SetConfig(c) ==
    /\ Logic /\ screen \in {"title", "game"}
    /\ config' = c
    /\ flags' = mark_write_eeprom_settings
    /\ UNCHANGED <<todo, block, inLogic, settings, menus, storage, present>>

-----------------------------------------------------------------------------
(* The machine.                                                            *)

\* Power goes; if it goes inside a store, the blob that is being written is
\* left erased, or whole as far as the files are concerned: the files lie in
\* the first of the pages a card writes.  A file on the SD card is left short.
LosePower ==
    /\ loaded
    /\ \E cut \in SUBSET (IF todo = <<>> \/ Head(todo).op \notin {"write", "erase", "clean", "writeConfig"}
                          THEN {} ELSE First(present)) :
          /\ cut # {} => ~faulted
          /\ faulted' = (faulted \/ cut # {})
          /\ blob' = [m \in Media |-> IF m \notin cut THEN blob[m]
                                      ELSE IF m \in Cards THEN ErasedImage ELSE NoBlob]
    /\ flags' = BootFlags /\ todo' = <<>> /\ block' = 1 /\ inLogic' = FALSE
    /\ settings' = New
    /\ config' = Default
    /\ screen' = "title" /\ saveFile' = 0 /\ started' = {}
    /\ image' = ZeroImage /\ loaded' = FALSE
    /\ UNCHANGED <<outcome, present>>

\* A medium is put in, or taken out.  Bound: with its blob only as the one
\* failure.
PutIn(m) ==
    /\ m \notin present
    /\ present' = present \cup {m}
    /\ UNCHANGED <<flags, todo, block, inLogic, game, menus, storage>>

TakeOut(m) ==
    /\ m \in present
    /\ present' = present \ {m}
    /\ blob[m] # NoBlob => ~faulted
    /\ faulted' = (faulted \/ blob[m] # NoBlob)
    /\ UNCHANGED <<flags, todo, block, inLogic, game, menus, image, loaded, blob, outcome>>

Next ==
    \/ Load \/ TakeRequests
    \/ ServeReadAll \/ ServeRead \/ ServeWrite \/ ServeErase
    \/ ServeReadConfig \/ ServeWriteConfig
    \/ EndFrame \/ OpenFiles \/ LeaveFiles \/ CopyBack
    \/ \E f \in Files : PickFile(f) \/ CopyFrom(f) \/ CopyTo(f) \/ EraseFile(f)
    \/ Advance \/ SaveProgress \/ QuitGame
    \/ \E c \in Configs : SetConfig(c)
    \/ LosePower
    \/ \E m \in Media : PutIn(m) \/ TakeOut(m)

Spec == Init /\ [][Next]_vars

-----------------------------------------------------------------------------
Settings == [block : [Blocks -> Content], name : Names \cup {Blank}]
Data     == [block : [Blocks -> Content \cup {Erased}], name : Names \cup {Blank, Erased}]
File     == [sum : Nat, data : Data]
Images   == [file : [Files -> File], config : Configs \cup {NoConfig}]

\* A medium without a blob is told from one that has any.
ASSUME BlobAssumption == NoBlob \notin Images

\* The requests name files there are, and the image and the blobs are images.
TypeOK ==
    /\ flags \subseteq 0 .. 11
    /\ \A i \in DOMAIN todo : todo[i].file \in Files \cup {0}
    /\ block \in Blocks
    /\ inLogic \in BOOLEAN /\ loaded \in BOOLEAN /\ faulted \in BOOLEAN
    /\ settings \in Settings
    /\ config \in Configs
    /\ screen \in {"title", "files", "copy", "game"}
    /\ saveFile \in Files \cup {0} /\ started \subseteq Files
    /\ image \in Images
    /\ blob \in [Media -> Images \cup {NoBlob}] /\ present \subseteq Media

\* save is later, or later over earlier progress of the same file that weighs the
\* same in the blocks that are left of it.
PassesFor(save, later) ==
    /\ Leads(save, later)
    /\ save.block[1] = later.block[1]
    /\ Checksum(save) = Checksum(later)

\* A file that passes its checksum, in memory or on any medium, is a save, or one
\* that was cut short over earlier progress of the same file which happens to
\* weigh the same: nothing of an erased file, of zeros or of another player's
\* file is ever read as progress, however saves, copies and erasures are cut
\* short one over the other (save_data.c:376, 909, 966).
PassingSaves ==
    \A i \in {image} \cup {blob[m] : m \in Stored(Media)} :
       \A f \in Files : \A save \in Read(i.file[f]) :
          save \in Settings /\ \E later \in Saves : PassesFor(save, later)

\* What is about to be written over a file is further progress in that same
\* file, unless it is a new game's: neither copying, erasing and picking files
\* nor the two uses of bits 8 and 9 ever bring the progress of one file into
\* another that has some (thread3_main.c:1281-1364, joypad.c:84-97).
OwnProgress ==
    Busy("write") /\ block = 1 =>
       \A save \in Read(image.file[Current]) : Leads(save, settings)

\* Until a medium fails or goes with its blob, a boot finds in every file what
\* was last written there, and in the file being written what its checksum
\* makes of the blocks written so far over what was there; and the settings last
\* set once the frame has written them.  A card that is full, is put in later or fails to take a new file
\* loses nothing (gc_storage.c:195, 413; os_eeprom.c:45).
Survives ==
    ~faulted =>
       LET boot == IF Stored(present) = {} THEN ZeroImage
                   ELSE blob[CHOOSE m \in First(Stored(present)) : TRUE]
       IN  /\ \A f \in Files : Read(boot.file[f]) \in outcome[f]
           /\ (inLogic /\ todo = <<>> /\ WriteConfig \notin flags) =>
                 config = IF boot.config = NoConfig THEN Default ELSE boot.config
=============================================================================
