# A TLA+ model of DKR-GC

DKR-GC is a GameCube port of the decompiled Diddy Kong Racing: the game's own C
code (`src/src/`), which was written for the N64's libultra, runs on a replacement
of libultra built on libogc (`src/platform/gc/`). Both halves are concurrent. The game
was written for preemptive threads of fixed priority that talk over message
queues and an RCP that works in parallel; the port has the threads but not the
RCP, so tasks that used to be asynchronous now run on a thread of the same core,
and what used to be a cartridge, a battery-backed EEPROM and a Controller Pak is
ARAM, memory cards and an SD card. These modules model the parts where the two
halves meet and the parts of the game whose correctness rests on an order of
steps rather than on a computation.

The build modelled is the one the port makes: `VERSION_us_v77`, target GameCube,
without `GC_DEBUG`.

## 1. The system

| component | code | state | operations | talks to |
|---|---|---|---|---|
| message queues | `platform/gc/ultra/os_message.c` | a libogc box, `validCount` | create, send, jam, receive | every thread, the retrace handler |
| scheduler | `os_sched.c`, `os_vi.c` | `interruptQ`, `cmdQ`, `frameCount`, `unkTask`, audio parity | handle retrace, run a graphics or audio task, hold back or send an answer | game loop, audio manager, retrace |
| threads | `os_thread.c` | thread slots, priorities | create, start, stop, yield, set priority | libogc's scheduler |
| game loop | `src/thread3_main.c`, `rcp_dkr.c` | `gGfxTaskIsRunning`, `gDrawFrameTimer`, `gSkipGfxTask`, two display lists | submit, build, wait, black out, load and unload levels | scheduler, pool, loader |
| pacing | `gc_video.c` | `gVideoDeltaTime`, `gVideoDeltaCounter` | `fb_update` | retrace queue, game loop |
| memory pool | `src/memory.c` | slot array, free queue and its timer | allocate, allocate at an address, free, tick, flush | everything |
| level loading | `src/thread30_bgload.c`, `thread3_main.c`, `game.c`, `menu.c` | request, delay, `gIsLoading`, the level | start, tick, load, unload | loader thread, game loop, pool |
| assets | `src/asset_loading.c`, `os_pi.c`, `gc_assets.c` | ARAM image, bounce buffer and its lock, one completion queue | `dmacopy`, `osPiStartDma`, `gc_assets_read` | game, loader and audio threads |
| saves | `src/save_data.c`, `joypad.c`, `os_eeprom.c`, `gc_storage.c` | request flags, settings, EEPROM image, blobs on cards and SD | read, write, erase and copy files, store the image | media that fail or vanish |
| Controller Pak | `os_pfs.c`, `save_data.c` | directory, pages, the ghosts' table and recordings | allocate, write, delete notes; save and erase ghosts | storage, ghost menu |
| audio manager | `src/audiomgr.c`, `sl.c` | command lists, lists of sample buffers | build and submit an audio frame, fetch samples, recycle buffers | scheduler, ARAM |
| audio output | `os_ai.c` | ring, four DMA blocks, rate loop | push, DMA callback | audio manager, DMA interrupt |
| log | `gc_logfile.c`, `gc_crash.c` | line buffer, file offsets, crash reserve | write, flush, wrap, crash | all threads, the card |
| the game proper | `objects.c`, `racer.c`, `tracks.c`, `menu.c`, `game_ui.c`, ... | the race | one step per frame | on the game's thread only |

What is hard in it, and hard to test:

* **preemption on one core.** Priorities 13 (scheduler), 12 (audio), 10 (game) and
  8 (loader) are part of the correctness argument: the game frees memory a
  display list refers to and relies on the scheduler having finished with it.
* **answers that are held back.** The frame cap parks a finished frame until two
  retraces have passed. The two places that answer must agree.
* **messages that are dropped.** Nearly every send is without `OS_MESG_BLOCK`.
* **the loader thread** works on the level the game is showing, and reads assets
  through the same queue and the same bounce buffer as everybody else.
* **deferred frees**: memory freed now is handed out two frames later, except
  while a level is loaded.
* **media**: two memory cards and an SD volume, tried in order, written in place,
  that fail, fill up, and go with the power.
* **structures that are kept by hand**: slots, notes, recordings and sample
  buffers that are split, merged, moved down and relinked over a long session.
* **an engine that does not wait**: the DAC plays on whether or not the interrupt
  that feeds it has been served.

`PROJECT.json` lists each hazard at its line with the property that covers it.

## 2. The modules

| module | what it models | abstract specification | proofs |
|---|---|---|---|
| `MesgQueue` | one queue, all its clients | | `MesgQueueProofs` |
| `FrameLoop` | scheduler + audio manager + game loop + pacing + retrace | `FrameCap` | `FrameLoopProofs` |
| `MemPool` | the main memory pool and its free queue | `Heap` | `MemPoolProofs` |
| `LevelLoad` | game thread + loader thread + level + display list | `LevelSlot` | `LevelLoadProofs` |
| `AssetDma` | asset reads of three threads, lock, bounce buffer, completion queue | | `AssetDmaProofs` |
| `ControllerPak` | directory, pages and stored image of the pak | `NoteStore` | `PakProofs` |
| `GhostFile` | the ghosts' note and menu, on top of `ControllerPak` | (`NoteStore`) | `PakProofs` |
| `SaveGame` | menus, request flags, block writes, EEPROM image, media | | `SaveGameProofs` |
| `AudioDma` | the two lists of sample buffers | `SampleCache` | `AudioProofs` |
| `AudioOut` | audio manager + DMA interrupt + engine | | `AudioProofs` |

`MCMesgQueue`, `MCFrameLoop`, `MCMemPool`, `MCLevelLoad`, `MCAssetDma`, `MCGhostFile`,
`MCSaveGame`, `MCAudioDma` and `MCAudioOut` instantiate them for TLC. `ControllerPak` is
checked inside `GhostFile`, which `EXTENDS` it and calls its operations.

### MesgQueue

`pending` is the libogc box, `validCount` the field of `OSMesgQueue`, `pc` where each
thread is in a call. A send is `Deposit` (`MQ_Send` or `MQ_Jam` returns) and then
`CountUp` (the increment); a receive is `Withdraw` and `CountDown`. Between the two a
more urgent thread may run (`CanRun`). `BlockOnFull` and `BlockOnEmpty` are the
blocking variants; a non-blocking call that fails changes nothing and is no
action. `SendFromInterrupt` is the retrace handler, where nothing is dispatched in
between. The queue's own create is `Init`.

The scheduler, audio manager and game threads may call in any order: the
module does not say which client uses which queue, so what it shows holds for
all of them. A deadlock is possible in it (all threads waiting to receive) and
means nothing, so its runs do not look for one.

### FrameLoop

Four processes. `Retrace` puts a message on `interruptQ`. The scheduler takes one
message at a time: `HandleRetrace` is all of `handle_retrace`; a frame is `WalkFrame`
(the list is read) and `CompleteFrame` (it is answered or parked in `unkTask`); after
either, `DrainCmdQueue` serves audio tasks until there are none. The audio manager is
`TakeAudioFrame`, `SubmitAudio`, `TakeAudioReply`. The game loop goes from `top` through
`sent`, `build`, `end`, `fb` and `pace` back to `top`, with `unload` and `free` inside `build`
when a level or the display lists are replaced; `SkipFrame` and `Blackout` are the
blacked-out iterations. `GameStep` guards each of its steps with `CanRun`.

Abstractions. A client queue is the number of its messages, since they are all
alike; `interruptQ` is a sequence, since the order of retrace and frame matters.
`frameCount` stops at 2: the code only asks whether it is at most 1 or at least 2.
What a list draws and a command list plays is left out. `streak` is the only variable
without a counterpart: it counts drawn iterations in a row, for the rate
property. The mode handlers are a `build` stage of any length.

### MemPool

`slots` and `index` are the fields of the slot array, kept apart because `index` belongs
to the entry's place on the stack of unused entries and the rest to the slot that
lives there. `Assign` is `mempool_slot_assign`, `Clear` is `mempool_slot_clear` with its two
merges (`Absorb`), `FreeAddr`, `Flush` and `Tick` the three ways a block is freed. Each
public function runs with interrupts disabled and is one action. Addresses and
sizes are in units of 16 bytes. A client frees a block once (`Free`'s guard): a
second free is an error of the client, not of the pool. Slot contents of unused
entries are reset, which the code does not do and nothing reads.

### LevelLoad

The game thread goes round `top`, `scene`, `act`, (`load`,) `end`; what a mode handler may do
to the level is a choice in `act`: nothing (`Idle`), the boot screen's first level
(`Boot`), another level behind a menu (`SwitchLevel`), none (`DropLevel`), a race
(`StartRace`), the end of one (`LeaveRace`). Menus that preview levels (track select, credits)
tick and start background loads (`Preview`) and are left only when none is going
on. `EnterSetup` and `LeaveSetup` are the options screen of track select. The loader is
one action per stage of `load_level_for_menu`, because `gIsLoading` changes in between.
`scene` says what the list being built refers to, so a list that draws from freed
memory is a state (`"freed"`).

The two threads interleave without regard to priority. That is more than the
console allows, and what holds here needs no argument about priorities.

### AssetDma

One read per thread at a time, of up to `MaxPieces` pieces. `StartRead` enters `dmacopy`
(for the audio manager `osPiStartDma`, one piece); `ReadAligned` and `LockBounce` are the two
paths of `gc_assets_read`, `TransferDone` the ARAM engine waking the thread that sleeps in
`aram_dma`, `CopyOut` the copy out of `sBounce` with the unlock, `Post` the message at the
end of `osPiStartDma`, `Receive` and `NextPiece` the rest of `dmacopy`'s loop. `at` says where a
thread is, `dst` what the destination of its current piece holds, `bounce` what the bounce
buffer holds; content is a pair of thread and piece, which is all that can be mixed up.
`owner` and `line` are libogc's mutex, first come first served; `messages` is `gDmaMesgQueue`,
and a message sent while a thread waits goes straight to it. The most urgent thread
that can run does (`CanRun`), at any point between two steps. A piece is one window of
`gc_assets_read`: `MAX_TRANSFER_SIZE` (20 KB) and the audio buffers are shorter than the
64 KB bounce buffer. `overlapped` is history: two calls of `dmacopy` have overlapped.

### ControllerPak and GhostFile

`ControllerPak` is `os_pfs.c` call by call, with the image in memory (`dir`, `data`), whether
it has been loaded, whether the game has initialised it, and the blob on the medium
(`stored`). Every change ends in `pak_store`, which may work, fail, or, if power is
cut in it, leave the blob unreadable or torn at one of `SectorEnds`. A page of 256 bytes
is a value. `NoteStore` is what the pak promises: named notes that do not touch each
other, and after a power cut the notes of some earlier moment.

`GhostFile` is what `save_data.c` and the ghost menu do with one such note: a first page with
a signature and a table of (track, offset), then the recordings. `SaveGhost` is
`func_80075000` with its three cases (first ghost, replacement, new entry), `FileWithout` is
`func_800753D8`, `OpenMenu` is `func_800756D4` with `ghostmenu_generate`, `EraseGhost` is
`ghostmenu_erase`. A note is allocated, stored, and written in two steps of the pak
(`Allocate`, `FinishWrite`) between which the power may go. The game's other notes, of fixed
lengths, come and go in the same pak (`WriteNote`, `DeleteNote`), so that the ghosts' pages
move. A track is a level in one vehicle; a checksum is the question whether a
recording is whole. `Junk` is what the allocator left in a page the code does not fill.

### SaveGame

`flags` is `gSaveDataFlags` as a set of bits, with bits 8 and 9 in both their uses. `TakeRequests`
and the `Serve...` actions are `input_update`; a file is written as block writes, each with a
store of the whole image (`WriteBlock`). `Store` and `Load` are `gc_storage_write` and `_read`:
media in order, any of them failing, with what a failure leaves behind. The menus are
one action per choice (`OpenFiles`, `PickFile`, `CopyFrom`, `CopyTo`, `EraseFile`, ...). `outcome` is
history: what each file may hold after the next boot.

What a block holds of the progress is a value of its own (`Content`), what it adds to the
file's sum any number that its bytes can add up to (`Weight`), and progress is an order on
the values (`Gains`): flags are set, counts of balloons, keys, amulets and trophies rise.
The two are unrelated, because a block that gains may get lighter: `func_800732E8` packs
the balloons of a world into seven bits (`save_data.c:456`) that lie across two bytes for
most worlds, and when such a count goes from 3 to 4 or from 7 to 8, one byte of it loses
more than the other wins, and the other may be in the next block. So mixtures of two
saves that have the right sum are in the model. The last block has the keys and the
cutscene flags besides the name; erasing a file leaves the keys and amulets in the game's
memory (`Remains`). `Checksum` is the sum the code forms. The race and the world that make
progress are one action (`Advance`): any save the present one leads to. The merge
of all files' progress that the tracks menu makes for itself (`trackmenu_set_records`) is
left out: nothing writes it to a file, and the adventure reads its file again first.

### AudioDma

`Hit`, `Miss` and `Bogus` are the three ways out of `__amDMA`, `Clear` is `__clearAudioDMA`. The
two lists are the `next` and `prev` of the buffers, with `alLink` and `alUnlink` as they are
written (`Link` and `Unlink` do nothing to a head), and the search along `next` (`Chain`) and
the frame's clearing (`ReleaseOld`) are recursive functions. Its names begin with `Dma`, so that
one module of proofs can extend both halves of the audio. `SampleCache` is what the synthesiser relies on: a set of stretches, each
with the frames since its last use.

### AudioOut

`AcceptBuffer`, `PushFrame` and `StopAtFull` are `osAiSetNextBuffer` without the resampling,
frame by frame; `Latch` and `FillFrame` are `dma_callback`, which stops the thread but not the
engine; `PlayFrame` is the engine, external to the code and modelled by what the comments
of `os_ai.c` say was found of it: it takes the block registers at the end of a block,
whether or not the interrupt has been served. Frames are numbered, modulo more than
there can be at a time.

## 3. What is checked

| run | instance | result |
|---|---|---|
| `mesg_queue` | 3 threads (priorities 13, 12, 10), queue of 2, count up to 8 | 4 invariants hold, 890 states |
| `mesg_queue_truthful` | same | violated, finding 1 |
| `frame_loop` | queues of 2, adapts after 3 fast frames | 3 invariants, the cap, an action property and 2 liveness properties hold, 151 406 states |
| `mem_pool` | 4 units, 5 entries, requests of 1 and 2 | 2 invariants and the refinement hold, 36 480 states |
| `mem_pool_slots` | 6 units, 5 entries | violated, finding 2 |
| `level_load` | 2 levels, delay 4 as the code has | 6 invariants, 2 safety properties and a liveness property hold, 385 states |
| `asset_dma` | 3 threads (12, 10, 8), reads of up to 2 pieces, a queue of 1 as the code has | 2 invariants and a liveness property hold, 26 028 states |
| `ghost_pak` | 3 notes, 5 pages, ghosts of 1 page, 3 tracks, a table of 2 | 4 invariants, the refinement and an action property hold, 18 354 states |
| `ghost_pak_torn` | same with ghosts of 2 pages and torn stores | violated, finding 3 |
| `save_game` | 2 files of 3 blocks, 3 stages, 2 names, one card and the SD card, one failure | 4 invariants hold, about 518 000 states |
| `audio_dma` | 3 buffers of 4 bytes over 9 addresses, requests of 1 and 3 | type invariant and refinement hold, 7 026 states |
| `audio_out` | a ring that holds 4, 4 blocks of 2 frames, buffers of 1 and 3, corrected by -1, 0 or 2 | type invariant and an action property hold, about 829 000 states |

**Properties of `MesgQueue`.** `NeverUndercounts` relates the count, the box and the
updates still owed; from it follows `NoHiddenMessage`, on which the polling loop of
`get_si_device_status` relies. `DriftBounded` bounds the error in the other
direction. The file header claims more, that the count is truthful: `Truthful` is
what that would mean and does not hold (finding 1).

**Properties of `FrameLoop`.** `OneFrameInFlight` is the comment in `os_sched.c` that
each task gets "exactly one message per task or the loop stalls", with the reasons:
nothing is parked over a parked frame, no answer is sent twice, none is left over.
`WalkedListIntact` is what `unload_level_menu` and `alloc_displaylist_heap` need in order
to free without waiting. `CapSpec` is the refinement of `FrameCap`: answers at least two
retraces apart. `NeverTwoFastFrames` is the cap as the game logic sees it through
`fb_update`: of two frames drawn in a row at most one is measured at a single field. `GameAlive` and `AudioAnswered` are the liveness of the two clients.

**Properties of `MemPool`.** `PoolSound` is four things that must agree: `ExactPartition`,
`EntriesConserved` and `Coalesced` are the representation invariants (`gc_pool_check` in
`gc_crash.c` tests some of them at run time); `QueueRefersToBlocks` says that a deferred
free never outlives its block. `HeapSpec` refines `Heap`: an allocation never overlaps a
block held or parked. The check that an entry is left does not do what it is for
(finding 2); `mem_pool` has one entry more than there can be blocks, so it studies
the pool short of that.

**Properties of `LevelLoad`.** `NoStaleList` and `SceneHasLevel` are what must not be
drawn; `OneSignal`, `RequestServed` and `PreviewLoads` are the life of a request;
`FlagTellsLevel` is what `gIsLoading` means between loads; `DeferredOutsideLoads` is the
free timer; `SlotSpec` refines `LevelSlot`: one loader at a time.

**Properties of `AssetDma`.** `OwnData`: whoever's message ended the wait, the memory
holds the piece this thread asked for. That the message may be another's does no harm
to the data, because a piece is there before its message is sent. `ReadsReturn`: every
read ends, the audio manager's always, and those with `dmacopy` until two of them
overlap. If they do, the queue of one message drops the second, and one thread waits for
ever: the loader posts, is preempted before it receives, the game posts to a full queue,
takes the loader's message and goes on, the loader finds nothing. With a queue of two
it cannot happen. Later versions of the game hold a mutex (`gDmaMutex`, `asset_loading.c:260`);
in this one only timing keeps a read of the game's thread and one of the loader's
apart, so the property does not claim more.

**Properties of `ControllerPak` and `GhostFile`.** `Packed`: the notes fill the pages from
zero up with no gap or overlap. `IsNoteStore` refines `NoteStore`. `GhostsOwnTrack`: every
entry of a signed table leads to the whole recording of its track, over any sequence of
savings, replacements and erasures. `MenuTruthful`: the open menu's lines, which are
corrected by hand after each erasure, name what they show. `OneGhostAtATime`: a step
changes the ghost of one track at most, and never for a slower one.

**Properties of `SaveGame`.** `PassingSaves`: what passes its checksum is a save, or a save
that was cut short over earlier progress of the same file which weighs the same; nothing
of an erased file, of zeros or of another player's file is ever read as progress. That
what passes was saved whole is not claimed, because it is not so: the checksum is a sum, and
with blocks that lose weight two stages of one file can have mixtures that pass. The run has
such stages, reads such a mixture after a power cut, and plays on from it. `OwnProgress`: no order of copying, erasing, picking and
saving brings the progress of one file into another. `Survives`: until a medium that held
a blob fails or goes, a boot finds what was written last; a card that is full, is put
in later or fails to take a new file loses nothing.

**Properties of `AudioDma` and `AudioOut`.** `CacheSpec` refines `SampleCache`: the list stays in
order, so that the search, which stops at the first buffer that begins too late, finds
what is there; no buffer is lost; only those not used lately go. `PlaysInOrder`: the
frames leave the DAC in order with none missing, and one is repeated only after the
end of a block.

**Why the bounds are enough.** Two messages distinguish empty, partly full and full
queues, and three threads make a preemption within a preemption. In `FrameLoop`
at most one frame is in flight and at most one audio task, so a queue of two holds
them and overflows with every retrace more. The retrace is unbounded in it: the
queues drop what they cannot hold. Adapting after 3 frames instead of 20 shortens
the way to the lower rate without changing it. A pool of four units holds a block
between two free ones, with one more behind them, which is every case of a merge, and
more than two queued frees, which exercises the replacement by the last entry. Two
levels suffice to tell the one asked for from the one that was there. Reads of two
pieces let one thread be between pieces while another has the lock. In the pak, three
notes move a note that lies between two others, and the directory and the pages fill up;
three tracks for a table of two make the full table and its replacement; two times make
a slower one. `ghost_pak` follows no two stores in a row that fail and leave an older
image behind (`OneStaleStore`), treats tracks and the two one-page notes as
interchangeable (symmetry) and leaves out of its view pages no note owns. `save_game`
follows one failure of a medium that hits a blob and, after it, the game up to the title
or as long as the media hold what the game has in memory (`AfterFailure`), and of a blob
that lies behind the one in use only that there is one (`View`). Two files set bits 8
and 9 both ways; of three stages the last,
written over the one before, already passes with only its first block written, since
the second block gets lighter and the third makes up for it; two names of the same weight tell
the files apart. In `audio_dma` the
view keeps ages instead of frame numbers, so that frames are not bounded; three buffers
make a buffer between two others and requests beyond the last one, and eight
addresses make stretches that overlap, meet and lie apart. `Requests` is what `load.c` of
libultra asks for, never as long as a buffer. `audio_out` has the code's four blocks; its
view is relative to the last frame heard, so that the session is not bounded; a ring of
four takes a buffer of three that comes to five, and fills; a buffer of one may come to
nothing.

**Deadlock** is looked for in every run but those of `MesgQueue`.

**Fairness.** `FairSpec` of `FrameLoop` assumes that the retrace keeps coming; that a
runnable thread runs when no more urgent one wants to, weakly for the scheduler,
strongly for the threads it interrupts; and that the game thread gets the
processor again and again (`[]<>CanRun("game")`), that is, that scheduler and audio
manager do not use up the whole of it. The last is a statement about speed that the
code cannot guarantee by itself; a machine that fails it shows nothing at all. The
mode handler's return (`FinishBuild`) is assumed too, its other choices are not. `FairSpec`
of `LevelLoad` assumes weak fairness of each thread: the game waits in every frame, and
the loader runs then. That of `AssetDma` assumes that a transfer ends, and strongly, since
more urgent threads interrupt, that a thread at work elsewhere goes to sleep at some
time and that one that can run again and again gets on with its read.

## 4. What the code does that its comments exclude

1. **`validCount` drifts** (`os_message.c:134`). A receiver more urgent than the sender
   takes the message before it is counted, finds 0, skips the decrement; the
   increment follows. The count stays one too high. It never gets worse than the
   number of threads less one, and never hides a message.
2. **One entry too many** (`memory.c:200`). `mempool_alloc_fixed` takes two array entries
   after checking for one, with a test for equality. If the count steps over the
   tested value, neither allocator refuses again and the array is read past its
   end. The pool has 1600 entries, and the game is not known to come near them.
3. **A torn pak passes for a whole one** (`os_pfs.c:108`, comment at line 303). Magic,
   version and directory are in the first sector of the blob. Power lost after it leaves
   a new directory before old pages, and the magic does not fail.

Other behaviour met while modelling, which is part of the models:

* `fb_update` can return 1: after twenty frames measured at a single field the pacing
  target itself becomes 1 (`gc_video.c:362`), where the comment at `thread3_main.c:353` has
  "a value 2 or higher". What holds is `NeverTwoFastFrames`.
* Two reads with `dmacopy` that overlap lose a message (section 3), so that completing a
  read at once is not "indistinguishable" from the queued one (`os_pi.c:50`) for two
  callers that share a queue.
* Power lost between the allocation of a note and the write of it leaves a note of
  zeros; the readers of the ghosts' note take it for one without a signature.
* When a store fails with an older image left behind, or another medium takes it, the
  next boot may find the notes of an earlier moment; never a mixture.
* A pak image whose read fails is replaced by an empty one, and the next change stores
  that. Likewise a failed read of the EEPROM blob at boot makes the image zeros, and
  reading all files then erases those it takes for new (`ServeReadAll`).
* `gGhostMenuTotal` keeps its last value when the menu opens on a pak that is not in order.
* `mark_save_file_to_erase` (`thread3_main.c`) replaces all other requests of the frame.
* A push into the output ring checks for the frames a buffer needs, but the correction of
  the drift, up to a 64th of the step (`os_ai.c:1063-1073`), may make it some 28 frames longer;
  the loop stops at a full ring.
* A power cut between two block writes of a save can leave a mixture of the old and the new
  save that passes its checksum (`PassingSaves`). It is progress the player has made in that
  file, some of it older than the rest.

## 5. What is proved

For every value of the constants that their assumptions allow, checked by TLAPS:

* **`MesgQueueProofs`** (from `QueueAssumption`: finitely many threads, any priorities,
  any capacity): `TypeOK`, `NeverUndercounts`, `DriftBounded`, `NoHiddenMessage`. The two
  bounds are inductive together with the types, because they count the updates still
  owed; lemmas say what each action does to the cardinalities of `Sent` and `Received`.
  The order in which threads run plays no part, so they would survive a different
  scheduling of the same code.
* **`FrameLoopProofs`** (from `FrameLoopAssumption`, and `PriorityAssumption`: the game's
  priority is below the scheduler's, both in libogc's range): `TypeOK`, `OneFrameInFlight`,
  `WalkedListIntact`, `CapSpec`. None of the last three is inductive: that no second frame
  is parked depends on where the game loop is, and that depends on who may run. `FrameInv`
  adds when the game loop may believe a frame is out (`AwaitedInTime`) and that a list is
  queued or walked only while the game is still inside its send (`WalkedDuringSend`); the
  lemma `GameRunsWhenIdle` is the only place the priorities enter. The refinement maps
  `waiting` to "a frame is queued, walked or held" and `since` to `frameCount`.
  `FastFramesApart` states `NeverTwoFastFrames` for a `ClientDepth` of 2 or more (the queue of
  `gc_video.c:48` holds eight; with a queue of one it is false, and TLC shows why). `PaceInv`
  carries `RetracesCovered`: while a frame is out, the retraces the scheduler has counted since
  its last answer are covered by what the frame before has cost and what is still in the
  video queue, so that the answer, which needs a count of two, leaves two to measure.
* **`MemPoolProofs`** (from `MemPoolAssumption`): `TypeOK`, `PoolSound` and `HeapSpec`, for any
  pool, any requests and any array of entries, of every behaviour in which the count
  of slots, when it passes the check, leaves an entry (`EntryLeftForSplit`). That condition is what the code's own check
  fails to establish (finding 2); `OneEntryPerCall` proves that the check does establish it
  when no call takes two entries, which only an allocation at a fixed address inside a free
  block does, and `EntriesSuffice` that an array with more entries than the pool has units
  never needs the check. `Sound` describes the slot list by what holds of each listed slot and
  its two neighbours, not by the walk along it; from that, least-element arguments
  (`LeastElement`, `Counting`, `Iterated`) give what the walk finds, the sum of the
  sizes and the number of slots, where the library's induction is of no use. The
  refinement maps the blocks that are in use or parked to `Heap`'s.
* **`LevelLoadProofs`** (from `LevelLoadAssumption`: a delay of at least one frame): `TypeOK`,
  all five other invariants of the run, `RequestServed`, `SlotSpec`. `LoadInv` adds that
  a request is outstanding only in the menu that made it (`RequestInMenu`), that a list
  which shows the level was begun before the request and is walked before the delay ends
  (`ListsBeforeRequest`), and what the flag and the timer are at each stage of a load.
* **`AssetDmaProofs`** (from `AssetDmaAssumption`: any threads, priorities, pieces and queue
  length): `TypeOK` and `OwnData`. `DmaInv` adds that the lock belongs to the one thread at
  work under it (`LockHeld`), that those in line wait, each at one place (`LineWaits`), and
  that what is about to be copied is what was asked for (`BounceKept`). Priorities play no
  part: the lock alone does it.
* **`PakProofs`**, first part (from `ControllerPakAssumption`): `TypeOK` and `Packed` for any
  directory, any pak size and any sequence of operations, failed and torn stores and
  power cuts; and, when no store is torn (`SectorEnds = {}`), `IsNoteStore`. `PakInv` adds that
  the stored image is as sound as the one in memory. Lemmas show that pages used,
  first free page and end of the last note are one number, what moving the tail down
  does to every other note, and how an operation on the image is one on `NotesOf`.
* **`PakProofs`**, second part (from `GhostFileAssumption`, `SectorEnds = {}` and `PageValues` being among the
  values): `GhostsUseThePak`, that whatever the game does is a behaviour of `PakSpec`, so that
  every theorem about the pak holds of the game (`GhostPakSound`); `GhostsOwnTrack`,
  `MenuTruthful` and `OneGhostAtATime`. `GhostInv` says of every moment the medium may fall back
  to what `GhostsOwnTrack` says of the present one, what a pending write may be, and what
  the lines of the open menu are. The proofs go through the notes, not the pages:
  `NotesOf` is the only view of the image they use.
* **`SaveGameProofs`** (from `SaveGameAssumption`: up to five blocks, weights that eight bytes
  can have, the last byte of a file zero, an order of progress; and `BlobAssumption`, that an
  empty medium is told from one with an image): `TypeOK`, `PassingSaves`, `OwnProgress` and
  `Survives`, for any files, names, media and settings, and any stages of progress, whatever their
  blocks weigh. `SaveInv` has five parts. `Control` says what each screen may have asked for,
  at what time of the frame (`Protocol`), and that of the operations still to be done only
  reads of different files can be several (`Queued`). `Shown` says, of the operations asked for
  or under way (`Jobs`), what is in the files they are about: a file being written is part
  of the settings over what they may be written over (`PartOf`, `Below`), one being erased has
  its first blocks full (`Wiped`), and the menu and the game know what the others hold.
  `SaneImages` says the same of each image, file by file, with the bounds on its weights;
  `BootFinds` and `ConfigKept` are `Survives` for the image in memory and the one a boot would
  load. Where weights decide, it is between progress and bytes of 0xFF or zeros only: the
  last block of a save ends in a zero, so that one over an erased file is heavier than its
  checksum until it is whole (`HeavierErased`), an erased file's sum is more than any
  file weighs, and that of zeros less. Between two stages of one file nothing is assumed,
  and a mixture of them that passes is what `PassingSaves` says it is (`MixedRead`). A file has
  five blocks at most, so that the recursive sum is unfolded to five terms, and no induction
  is needed.
* **`AudioProofs`**, first part (from `AudioOutAssumption`): `TypeOK`, and, with four blocks or more,
  `DaylightOnBothSides`: the block the interrupt fills is neither the one being played nor
  the next nor the one the engine is pointed at next, however late the interrupt
  (`os_ai.c:645-657`), and `HeardAsPushed`, that is `PlaysInOrder`. `Behind` is the invariant of
  the first: the engine is at the block it is pointed at or at the one before. `Ordered` is
  that of the second: frames, whose numbers come round modulo `Ids`, have counts that do not,
  and these go on from the last frame heard through the block played, the one pointed at,
  the one after it and the one being filled to the ring and the last frame pushed. Lemmas
  on remainders (`ModNext`, `ModApart`) lead back from counts to numbers.
* **`AudioProofs`**, second part (from `AudioDmaAssumption`: the length of a buffer even, requests
  shorter than it): `DmaTypeOK` and `CacheSpec`, for any number of buffers. `DmaInv` says that
  the list in use is that of the buffers in use ordered by their addresses, which are even and
  all different, that the free list has all the others in some order, and that no more
  was read in this frame than there are buffers in use. `ListOf` says what a list is without
  walking it: `next` and `prev` are the neighbours by a key. What linking and unlinking do is
  then local (`AddedAfter`, `AddedFirst`, `TakenAway`), and that the walk comes past
  each buffer once, in order, and ends is a counting argument (`ChainIs`), as is that
  clearing leaves the links still to be followed alone (`ReleaseOldIs`). `SearchEnds` says where the
  search stops; from it `Hit`, `Miss`, `Bogus` and `Clear` are shown to be
  `SampleCache`'s `Hit`, `Fetch`, `Refuse` and `NewFrame`.

Only model-checked: the liveness properties (`GameAlive`, `AudioAnswered`, `PreviewLoads`,
`ReadsReturn`), since fairness is out of the prover's reach. Every other property of a passing
run is a theorem, under the conditions given with it above.

## 6. What is not modelled, and what would come next

Within the components modelled:

* pool: sub-pools, `mempool_clear`, the locking flags no caller sets. `memory.c:362` (the free
  queue's entry is written before its count is compared with 256) needs a bound on how
  many frees the game makes within two frames, which nothing in the pool gives.
  `interrupts_disable` does nothing unless `gIntDisFlag` is set (`math_util.c:35`), so the
  model's atomic pool operations hold between threads only where a menu sets the flag.
* levels: what `level_load` reads and builds, the `level_properties` stack.
* assets: the lookup table, the decompression (a computation on bytes), putting the image
  into ARAM at boot, the log of reads.
* saves: course records and their blocks, copying notes between a pak and save files, the
  rumble pak, the layout of bits within a block, the reset button, whose message nothing
  sends on this machine.
* audio: resampling, the rate loop's arithmetic, `osAiGetLength`; the sample buffers' frame
  counter, which wraps after about two years.
* scheduler: PRE_NMI, the reset path, boot-time mode setting.

Components not modelled:

* **log and crash report**: where its text goes is decided by sums of text lengths, on a
  path no other component reads (`gc_logfile.c:236`: the markers are added without the
  check the text gets).
* **music and sound effects**: a sequencer over the vendored synthesiser; what a voice
  plays is numeric.
* **the race** (`objects.c`, `racer.c`, `object_functions.c`, `hasm/`), tracks, particles, camera
  and lights: floating-point computations on one thread.
* **renderer, text, HUD, transitions**: what could be wrong in them is what is shown.
* **textures and models**: reference-counted caches over the asset loader; the most
  promising part to take up next, together with the `level_properties` stack.
* **boot and system services**: hardware calls; the one event that matters, the retrace, is
  an action of `FrameLoop`.
* vendored libultra, its headers, the decompilation's tools, ROM tables and example mods.

The share of the repository these models cover is small by lines, because most lines are
vendored libraries, tools, generated tables, and the race and its drawing; of the code
where threads, interrupts and media meet it is most.
