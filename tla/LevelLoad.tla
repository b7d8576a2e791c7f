----------------------------- MODULE LevelLoad -----------------------------
(***************************************************************************)
(* Loading and unloading the level behind the menus and the races:         *)
(* mode_menu, mode_game and the functions they load and unload with        *)
(* (src/thread3_main.c), the menus that preview levels (src/menu.c), and   *)
(* the background loader (src/thread30_bgload.c).                          *)
(*                                                                         *)
(* Only two threads matter, the game's and the loader's, and the level is  *)
(* all they share.  The game gives way whenever it waits, for a frame, for *)
(* a disc or for a card, and takes the processor back at any moment, so    *)
(* their steps interleave freely.  Freed level memory can be handed out    *)
(* again at once, because a load runs with the free timer at 0: a display  *)
(* list that still draws from it must never be walked.                     *)
(***************************************************************************)
EXTENDS Integers

CONSTANTS Level,     \* level ids
          LoadDelay, \* frames bgload_start lets pass before the load
          None

ASSUME LevelLoadAssumption ==
    /\ LoadDelay \in Nat \ {0}
    /\ None \notin Level
    /\ Level # {}

VARIABLES
    needToLoad,  \* gThread30NeedToLoadLevel, what bgload_active returns
    loadDelay,   \* gThread30LoadDelay
    levelToLoad, \* gThread30LevelIdToLoad
    signals,     \* messages in gThread30MesgQueue
    loader,      \* where thread30_bgload is
    isLoading,   \* gIsLoading: set too while no level is loaded
    freeTimer,   \* gFreeQueueTimer
    level,       \* the level in memory: one of Level, or None
    scene,       \* what the list being built draws: "none", "level" or "freed"
    game,        \* where main_game_loop is
    mode,        \* gGameMode
    menu         \* "plain", "preview" (track select, credits) or "setup"

bgload   == <<needToLoad, loadDelay, levelToLoad, signals>>
levelMem == <<isLoading, freeTimer, level, scene>>
gameAt   == <<game, mode, menu>>

vars == <<bgload, loader, levelMem, gameAt>>

Init ==
    /\ needToLoad = FALSE /\ loadDelay = 0 /\ levelToLoad = None /\ signals = 0
    /\ loader = "wait"
    /\ isLoading = FALSE
    /\ freeTimer = 2
    /\ level = None
    /\ scene = "none"
    /\ game = "top" /\ mode = "intro" /\ menu = "plain"

-----------------------------------------------------------------------------
(* What both threads call.                                                 *)

\* level_free: lists drawn from the level are void from here on.
FreeLevel ==
    /\ level' = None
    /\ scene' = IF scene = "level" THEN "freed" ELSE scene

\* level_free by the game, which then restarts the list it is building: it
\* ends at its first commands, whatever is written behind them.
ListRestarted ==
    /\ level' = None
    /\ scene' = "none"

-----------------------------------------------------------------------------
(* The game's thread, once around main_game_loop.                          *)

\* gfxtask_run_xbus walks the list built in the last iteration.
SubmitList ==
    /\ game = "top"
    /\ game' = "scene"
    /\ scene' = "none"
    /\ UNCHANGED <<bgload, loader, isLoading, freeTimer, level, mode, menu>>

\* Mutant: the menu's scene is drawn while a level is loaded behind it.
SceneUngated == mode = "game" \/ (mode = "menu" /\ ~isLoading)

\* mode_game draws always, mode_menu if no load is going on.
SceneDrawn == mode = "game" \/ (mode = "menu" /\ ~isLoading /\ ~needToLoad)

DrawScene ==
    /\ game = "scene"
    /\ game' = "act"
    /\ scene' = IF SceneDrawn THEN "level" ELSE "none"
    /\ UNCHANGED <<bgload, loader, isLoading, freeTimer, level, mode, menu>>

\* mode_intro waits a few frames and mode_game and most menus mostly do nothing
\* to the level.
Idle ==
    /\ game = "act"
    /\ menu # "preview"
    /\ game' = "end"
    /\ UNCHANGED <<bgload, loader, levelMem, mode, menu>>

\* gfxtask_wait and mempool_free_queue_clear end the iteration.
EndFrame ==
    /\ game = "end"
    /\ game' = "top"
    /\ UNCHANGED <<bgload, loader, levelMem, mode, menu>>

(* Loading by the game itself: the level is unloaded, then the next one    *)
(* loaded ("menu": by load_level_menu, "game": by load_level_game).        *)

\* load_menu_with_level_background(MENU_BOOT).
Boot ==
    /\ game = "act" /\ mode = "intro"
    /\ game' = "load"
    /\ mode' = "menu"
    /\ freeTimer' = 0
    /\ UNCHANGED <<bgload, loader, isLoading, level, scene, menu>>

\* Mutant: a menu that previews levels is left in the middle of a load.
NoLoadGoingOnUnasked == TRUE

\* The menus that previews levels go on only when bgload_active() is FALSE.
NoLoadGoingOn == menu = "preview" => ~needToLoad

\* load_level_for_menu by a menu, for itself or for the menu that follows.
SwitchLevel ==
    /\ game = "act" /\ mode = "menu" /\ NoLoadGoingOn
    /\ IF isLoading THEN UNCHANGED <<level, scene>> ELSE ListRestarted
    /\ freeTimer' = 0
    /\ game' = "load"
    /\ menu' \in {"plain", "preview"}
    /\ UNCHANGED <<bgload, loader, isLoading, mode>>

\* Mutant: nothing remembers that there is no level now.
DropLevelUnmarked ==
    /\ game = "act" /\ mode = "menu" /\ menu = "plain"
    /\ IF isLoading THEN UNCHANGED <<level, scene>> ELSE ListRestarted
    /\ game' = "end"
    /\ menu' = "preview"
    /\ UNCHANGED <<bgload, loader, isLoading, freeTimer, mode>>

\* load_level_for_menu(SPECIAL_MAP_ID_NO_LEVEL) before a menu with previews.
DropLevel ==
    /\ game = "act" /\ mode = "menu" /\ menu = "plain"
    /\ IF isLoading THEN UNCHANGED <<level, scene>> ELSE ListRestarted
    /\ isLoading' = TRUE
    /\ game' = "end"
    /\ menu' = "preview"
    /\ UNCHANGED <<bgload, loader, freeTimer, mode>>

\* A menu ends with a race to load: unload_level_menu, then load_level_game.
StartRace ==
    /\ game = "act" /\ mode = "menu" /\ menu # "preview"
    /\ IF isLoading THEN UNCHANGED level ELSE level' = None
    /\ scene' = "none"
    /\ isLoading' = FALSE
    /\ freeTimer' = 0
    /\ game' = "load"
    /\ mode' = "game"
    /\ menu' = "plain"
    /\ UNCHANGED <<bgload, loader>>

\* unload_level_game, from a race or from the results behind one, then the
\* next race, a menu with a level or one without, with previews or not.
LeaveRace ==
    /\ game = "act"
    /\ mode = "game" \/ (mode = "menu" /\ menu = "plain" /\ ~isLoading)
    /\ ListRestarted
    /\ \/ /\ game' = "load" /\ freeTimer' = 0
          /\ mode' \in {"game", "menu"} /\ menu' = "plain"
          /\ isLoading' = FALSE
       \/ /\ game' = "end" /\ freeTimer' = 2
          /\ mode' = "menu" /\ menu' \in {"preview", "plain"}
          /\ isLoading' = TRUE
    /\ UNCHANGED <<bgload, loader>>

\* The end of load_level_menu or load_level_game.
FinishLoad ==
    /\ game = "load"
    /\ game' = "end"
    /\ level' \in Level
    /\ freeTimer' = 2
    /\ isLoading' = IF mode = "menu" THEN FALSE ELSE isLoading
    /\ UNCHANGED <<bgload, loader, scene, mode, menu>>

(* The menus that preview levels.                                          *)

\* Mutant: the signal is sent one frame early and again on time.
TickTwice ==
    /\ loadDelay' = IF needToLoad /\ loadDelay > 0 THEN loadDelay - 1 ELSE loadDelay
    /\ signals' = IF needToLoad /\ loadDelay \in {1, 2} /\ signals < 2
                  THEN signals + 1 ELSE signals

\* Mutant: the delay runs on while the load it led to is going on.
TickPastZero ==
    /\ loadDelay' = IF needToLoad THEN loadDelay - 1 ELSE loadDelay
    /\ signals' = IF needToLoad /\ loadDelay = 1 /\ signals < 2
                  THEN signals + 1 ELSE signals

\* bgload_tick; gThread30MesgQueue holds two messages.
Tick ==
    /\ loadDelay' = IF needToLoad /\ loadDelay > 0 THEN loadDelay - 1 ELSE loadDelay
    /\ signals' = IF needToLoad /\ loadDelay = 1 /\ signals < 2
                  THEN signals + 1 ELSE signals

\* Mutant: a request replaces the one being served.
StartAnyway(l) ==
    /\ loadDelay' = LoadDelay
    /\ levelToLoad' = l
    /\ needToLoad' = TRUE
    /\ UNCHANGED signals

\* Mutant: the loader is signalled by the request itself.
StartAtOnce(l) ==
    /\ ~needToLoad
    /\ loadDelay' = 0
    /\ levelToLoad' = l
    /\ needToLoad' = TRUE
    /\ signals' = signals + 1

\* bgload_start, of which only the first request at a time counts.
Start(l) ==
    /\ ~needToLoad
    /\ loadDelay' = LoadDelay
    /\ levelToLoad' = l
    /\ needToLoad' = TRUE
    /\ UNCHANGED signals

\* trackmenu_track_view, menu_credits_loop.
Preview ==
    /\ game = "act" /\ mode = "menu" /\ menu = "preview"
    /\ \/ Tick /\ UNCHANGED <<needToLoad, levelToLoad>>
       \/ \E l \in Level : Start(l)
    /\ game' = "end"
    /\ UNCHANGED <<loader, levelMem, mode, menu>>

\* trackmenu_input to the options of a race and back.
EnterSetup ==
    /\ game = "act" /\ mode = "menu" /\ menu = "preview" /\ NoLoadGoingOn
    /\ game' = "end"
    /\ menu' = "setup"
    /\ UNCHANGED <<bgload, loader, levelMem, mode>>

LeaveSetup ==
    /\ game = "act" /\ mode = "menu" /\ menu = "setup"
    /\ game' = "end"
    /\ menu' = "preview"
    /\ UNCHANGED <<bgload, loader, levelMem, mode>>

GameNext ==
    \/ SubmitList \/ DrawScene \/ Idle \/ EndFrame
    \/ Boot \/ SwitchLevel \/ DropLevel \/ StartRace \/ LeaveRace \/ FinishLoad
    \/ Preview \/ EnterSetup \/ LeaveSetup

-----------------------------------------------------------------------------
(* thread30_bgload: one round of its loop around load_level_for_menu.      *)

Receive ==
    /\ loader = "wait" /\ signals > 0
    /\ signals' = signals - 1
    /\ loader' = "called"
    /\ UNCHANGED <<needToLoad, loadDelay, levelToLoad, levelMem, gameAt>>

\* unload_level_menu, unless there is no level.
Unload ==
    /\ loader = "called" /\ ~isLoading
    /\ loader' = "unload"
    /\ isLoading' = TRUE
    /\ freeTimer' = 0
    /\ FreeLevel
    /\ UNCHANGED <<bgload, gameAt>>

Unloaded ==
    /\ loader = "unload"
    /\ loader' = "unloaded"
    /\ isLoading' = FALSE
    /\ freeTimer' = 2
    /\ UNCHANGED <<bgload, level, scene, gameAt>>

Load ==
    /\ loader = "unloaded" \/ (loader = "called" /\ isLoading)
    /\ loader' = "load"
    /\ freeTimer' = 0
    /\ UNCHANGED <<bgload, isLoading, level, scene, gameAt>>

\* Mutant: frees stay immediate after the load.
LoadedTimerLeft ==
    /\ loader = "load"
    /\ loader' = "done"
    /\ level' = levelToLoad
    /\ isLoading' = FALSE
    /\ UNCHANGED <<bgload, freeTimer, scene, gameAt>>

Loaded ==
    /\ loader = "load"
    /\ loader' = "done"
    /\ level' = levelToLoad
    /\ freeTimer' = 2
    /\ isLoading' = FALSE
    /\ UNCHANGED <<bgload, scene, gameAt>>

Done ==
    /\ loader = "done"
    /\ loader' = "wait"
    /\ needToLoad' = FALSE
    /\ UNCHANGED <<loadDelay, levelToLoad, signals, levelMem, gameAt>>

LoaderNext == Receive \/ Unload \/ Unloaded \/ Load \/ Loaded \/ Done

-----------------------------------------------------------------------------
Next == GameNext \/ LoaderNext

Spec == Init /\ [][Next]_vars

\* The game paces itself and waits every frame, so both threads run on.
FairSpec == Spec /\ WF_vars(GameNext) /\ WF_vars(LoaderNext)

-----------------------------------------------------------------------------
TypeOK ==
    /\ needToLoad \in BOOLEAN /\ isLoading \in BOOLEAN
    /\ loadDelay \in 0 .. LoadDelay
    /\ levelToLoad \in Level \cup {None}
    /\ signals \in 0 .. 2
    /\ loader \in {"wait", "called", "unload", "unloaded", "load", "done"}
    /\ freeTimer \in {0, 2}
    /\ level \in Level \cup {None}
    /\ scene \in {"none", "level", "freed"}
    /\ game \in {"top", "scene", "act", "load", "end"}
    /\ mode \in {"intro", "menu", "game"}
    /\ menu \in {"plain", "preview", "setup"}

\* No list is walked that draws from a level already freed: each list that shows
\* the level is walked before the loader gets to free it, and the game cuts
\* short the list it is building when it frees the level itself.
NoStaleList == scene # "freed"

\* A scene is drawn only from a level that is there and not being replaced.
SceneHasLevel ==
    game = "scene" /\ SceneDrawn => level # None /\ loader = "wait"

\* Each request is signalled to the loader exactly once.
OneSignal ==
    signals + (IF loader = "wait" THEN 0 ELSE 1)
        = IF needToLoad /\ loadDelay = 0 THEN 1 ELSE 0

\* Between loads, gIsLoading tells whether there is a level to unload: none is
\* freed twice and none is leaked.
FlagTellsLevel ==
    loader = "wait" /\ game # "load" /\ mode # "intro" => (isLoading <=> level = None)

\* Frees are immediate only while a load is going on: the rest of the game may
\* free what the list being walked still shows.
DeferredOutsideLoads ==
    loader = "wait" /\ game # "load" => freeTimer = 2

\* What was asked for is what is there when the request is over.
RequestServed == [][needToLoad /\ ~needToLoad' => level' = levelToLoad]_vars

\* The level's memory has one loader at a time.
Slot == INSTANCE LevelSlot WITH
    Loader  <- {"game", "bgload"},
    content <- level,
    owner   <- IF loader # "wait" THEN "bgload"
               ELSE IF game = "load" THEN "game" ELSE None
SlotSpec == Slot!Spec

\* Every preview asked for is loaded in the end.
PreviewLoads == needToLoad ~> ~needToLoad
=============================================================================
