-------------------------- MODULE LevelLoadProofs --------------------------
(***************************************************************************)
(* LevelLoad for every set of levels and every delay of at least a frame:  *)
(* type correctness, the invariants of MCLevelLoad.cfg, and that the game  *)
(* and the background loader share the level as LevelSlot says.            *)
(***************************************************************************)
EXTENDS LevelLoad, TLAPS

\* A request is outstanding only while its menu is up and the game is not
\* loading by itself.
RequestInMenu ==
    needToLoad => /\ mode = "menu" /\ menu = "preview"
                  /\ game # "load"
                  /\ levelToLoad \in Level

\* A list that shows the level is the one begun before the request, and has
\* been walked by the time the delay has run for a frame.
ListsBeforeRequest ==
    /\ scene # "freed"
    /\ game = "scene" => scene = "none"
    /\ needToLoad /\ game = "act" => scene = "none"
    /\ needToLoad /\ loadDelay < LoadDelay => scene = "none"

\* Whether there is a level, where the flag is no guide to it.
LevelWhileLoading ==
    /\ mode = "intro" => level = None /\ menu = "plain" /\ game # "load"
    /\ mode = "game" => ~isLoading /\ menu = "plain"
    /\ game = "load" => level = None
    /\ loader = "called" => (isLoading <=> level = None)
    /\ loader \in {"unload", "unloaded", "load"} => level = None
    /\ loader \in {"unloaded", "done"} => ~isLoading
    /\ loader = "done" => level = levelToLoad

TimerWhileLoading ==
    loader \in {"called", "unloaded", "done"} => freeTimer = 2

LoadInv ==
    /\ TypeOK
    /\ OneSignal
    /\ RequestInMenu
    /\ ListsBeforeRequest
    /\ FlagTellsLevel /\ LevelWhileLoading
    /\ DeferredOutsideLoads /\ TimerWhileLoading

-----------------------------------------------------------------------------
USE LevelLoadAssumption DEF LevelLoadAssumption

LEMMA LoadInvInit == Init => LoadInv
<1> SUFFICES ASSUME Init PROVE LoadInv
  OBVIOUS
<1> USE DEF Init
<1>1. TypeOK
  <2>1. loadDelay \in 0 .. LoadDelay /\ signals \in 0 .. 2
    OBVIOUS
  <2> QED BY <2>1, Zenon DEF TypeOK
<1>2. OneSignal /\ RequestInMenu
  BY DEF OneSignal, RequestInMenu
<1>3. ListsBeforeRequest
  BY DEF ListsBeforeRequest
<1>4. FlagTellsLevel /\ LevelWhileLoading
  BY DEF FlagTellsLevel, LevelWhileLoading
<1>5. DeferredOutsideLoads /\ TimerWhileLoading
  BY DEF DeferredOutsideLoads, TimerWhileLoading
<1> QED BY <1>1, <1>2, <1>3, <1>4, <1>5 DEF LoadInv

\* The loader is at work only for a request whose delay is over.
LEMMA LoaderServesRequest ==
  ASSUME LoadInv, loader # "wait"
  PROVE  /\ needToLoad /\ loadDelay = 0 /\ signals = 0
         /\ mode = "menu" /\ menu = "preview" /\ game # "load"
         /\ levelToLoad \in Level
         /\ scene = "none"
<1>1. needToLoad /\ loadDelay = 0 /\ signals = 0
  BY DEF LoadInv, OneSignal, TypeOK
<1> QED BY <1>1
        DEF LoadInv, RequestInMenu, ListsBeforeRequest

\* So while the game does anything a request would forbid, there is none.
LEMMA LoaderWaits ==
  ASSUME LoadInv, ~needToLoad
  PROVE  loader = "wait" /\ signals = 0
BY DEF LoadInv, OneSignal, TypeOK

LEMMA TypeStep == LoadInv /\ [Next]_vars => TypeOK'
<1> SUFFICES ASSUME LoadInv, [Next]_vars PROVE TypeOK'
  OBVIOUS
<1> USE DEF LoadInv, TypeOK
<1>1. CASE SubmitList \/ DrawScene \/ Idle \/ EndFrame
  BY <1>1 DEF SubmitList, DrawScene, Idle, EndFrame, bgload, levelMem
<1>2. CASE Boot \/ SwitchLevel \/ DropLevel \/ StartRace
  BY <1>2 DEF Boot, SwitchLevel, DropLevel, StartRace, ListRestarted, bgload
<1>3. CASE LeaveRace \/ FinishLoad
  BY <1>3 DEF LeaveRace, FinishLoad, ListRestarted, bgload
<1>4. CASE Preview
  <2>1. CASE Tick /\ UNCHANGED <<needToLoad, levelToLoad>>
    BY <1>4, <2>1 DEF Preview, Tick, levelMem
  <2>2. CASE \E l \in Level : Start(l)
    BY <1>4, <2>2 DEF Preview, Start, levelMem
  <2> QED BY <1>4, <2>1, <2>2 DEF Preview
<1>5. CASE EnterSetup \/ LeaveSetup
  BY <1>5 DEF EnterSetup, LeaveSetup, bgload, levelMem
<1>6. CASE LoaderNext
  <2>1. CASE Receive
    BY <2>1 DEF Receive, levelMem, gameAt
  <2>2. CASE Unload
    BY <2>2 DEF Unload, FreeLevel, bgload, gameAt
  <2>3. CASE Unloaded
    BY <2>3 DEF Unloaded, bgload, gameAt
  <2>4. CASE Load
    BY <2>4 DEF Load, bgload, gameAt
  <2>5. CASE Loaded
    BY <2>5 DEF Loaded, bgload, gameAt
  <2>6. CASE Done
    BY <2>6 DEF Done, levelMem, gameAt
  <2> QED BY <1>6, <2>1, <2>2, <2>3, <2>4, <2>5, <2>6 DEF LoaderNext
<1>7. CASE UNCHANGED vars
  BY <1>7 DEF vars, bgload, levelMem, gameAt
<1> QED BY <1>1, <1>2, <1>3, <1>4, <1>5, <1>6, <1>7 DEF Next, GameNext

-----------------------------------------------------------------------------
(* The steps of the game: those that need not ask whether a load is going  *)
(* on, those that do, and the ones that deal with a request.               *)
LEMMA LoadInvFrame ==
  LoadInv /\ (SubmitList \/ DrawScene \/ Idle \/ EndFrame) => LoadInv'
<1> SUFFICES ASSUME LoadInv, SubmitList \/ DrawScene \/ Idle \/ EndFrame
             PROVE  LoadInv'
  OBVIOUS
<1>1. TypeOK'
  BY TypeStep DEF Next, GameNext
<1>2. UNCHANGED <<bgload, loader, isLoading, freeTimer, level, mode, menu>>
  BY DEF SubmitList, DrawScene, Idle, EndFrame, levelMem
<1>3. game # "load" /\ game' # "load"
  BY DEF SubmitList, DrawScene, Idle, EndFrame
<1>4. ListsBeforeRequest'
  BY <1>2 DEF LoadInv, RequestInMenu, ListsBeforeRequest, SubmitList, DrawScene,
              SceneDrawn, Idle, EndFrame, levelMem, bgload
<1> QED BY <1>1, <1>2, <1>3, <1>4
        DEF LoadInv, OneSignal, RequestInMenu, FlagTellsLevel,
            LevelWhileLoading, DeferredOutsideLoads, TimerWhileLoading, bgload

LEMMA LoadInvGameLoad ==
  LoadInv /\ (Boot \/ SwitchLevel \/ DropLevel \/ StartRace \/ LeaveRace
              \/ FinishLoad) => LoadInv'
<1> SUFFICES ASSUME LoadInv, Boot \/ SwitchLevel \/ DropLevel \/ StartRace
                             \/ LeaveRace \/ FinishLoad
             PROVE  LoadInv'
  OBVIOUS
<1>1. TypeOK'
  BY TypeStep DEF Next, GameNext
<1>2. ~needToLoad
  BY DEF LoadInv, RequestInMenu, TypeOK, Boot, SwitchLevel, NoLoadGoingOn,
         DropLevel, StartRace, LeaveRace, FinishLoad
<1>3. loader = "wait" /\ signals = 0
  BY <1>2, LoaderWaits
<1>4. UNCHANGED <<bgload, loader>>
  BY DEF Boot, SwitchLevel, DropLevel, StartRace, LeaveRace, FinishLoad
<1>5. OneSignal' /\ RequestInMenu' /\ TimerWhileLoading'
  BY <1>2, <1>3, <1>4
  DEF LoadInv, OneSignal, RequestInMenu, TimerWhileLoading, bgload
<1>6. ListsBeforeRequest'
  BY <1>2, <1>4 DEF LoadInv, ListsBeforeRequest, Boot, SwitchLevel, DropLevel,
     StartRace, LeaveRace, FinishLoad, ListRestarted, bgload
<1>7. FlagTellsLevel' /\ LevelWhileLoading' /\ DeferredOutsideLoads'
  <2> USE DEF LoadInv, TypeOK, FlagTellsLevel,
          LevelWhileLoading, DeferredOutsideLoads
  <2>1. CASE Boot
    BY <1>3, <2>1 DEF Boot
  <2>2. CASE SwitchLevel
    BY <1>3, <2>2 DEF SwitchLevel, ListRestarted
  <2>3. CASE DropLevel
    BY <1>3, <2>3 DEF DropLevel, ListRestarted
  <2>4. CASE StartRace
    BY <1>3, <2>4 DEF StartRace
  <2>5. CASE LeaveRace
    BY <1>3, <2>5 DEF LeaveRace, ListRestarted
  <2>6. CASE FinishLoad
    BY <1>3, <2>6 DEF FinishLoad
  <2> QED BY <2>1, <2>2, <2>3, <2>4, <2>5, <2>6
<1> QED BY <1>1, <1>5, <1>6, <1>7 DEF LoadInv

LEMMA LoadInvPreview ==
  LoadInv /\ (Preview \/ EnterSetup \/ LeaveSetup) => LoadInv'
<1> SUFFICES ASSUME LoadInv, Preview \/ EnterSetup \/ LeaveSetup PROVE LoadInv'
  OBVIOUS
<1>1. TypeOK'
  BY TypeStep DEF Next, GameNext
<1>2. UNCHANGED <<loader, levelMem, mode>> /\ game = "act" /\ game' = "end"
  BY DEF Preview, EnterSetup, LeaveSetup
<1>3. LevelWhileLoading' /\ FlagTellsLevel'
  <2>1. needToLoad => UNCHANGED levelToLoad
    BY DEF Preview, Start, EnterSetup, LeaveSetup, bgload
  <2>2. mode = "menu"
    BY DEF Preview, EnterSetup, LeaveSetup
  <2> QED BY <1>2, <2>1, <2>2, LoaderServesRequest
          DEF LoadInv, FlagTellsLevel, LevelWhileLoading, levelMem
<1>4. DeferredOutsideLoads' /\ TimerWhileLoading'
  BY <1>2 DEF LoadInv, DeferredOutsideLoads, TimerWhileLoading, levelMem
<1>5. CASE Preview
  <2>1. mode = "menu" /\ menu = "preview" /\ UNCHANGED <<mode, menu>>
    BY <1>5 DEF Preview
  <2>2. CASE Tick /\ UNCHANGED <<needToLoad, levelToLoad>>
    <3>1. OneSignal'
      BY <1>2, <2>2 DEF LoadInv, TypeOK, OneSignal, Tick
    <3>2. RequestInMenu' /\ ListsBeforeRequest'
      BY <1>2, <2>1, <2>2
      DEF LoadInv, RequestInMenu, ListsBeforeRequest, levelMem
    <3> QED BY <1>1, <1>3, <1>4, <3>1, <3>2 DEF LoadInv
  <2>3. CASE \E l \in Level : Start(l)
    <3>1. ~needToLoad
      BY <2>3 DEF Start
    <3>2. loader = "wait" /\ signals = 0
      BY <3>1, LoaderWaits
    <3>3. /\ needToLoad' /\ loadDelay' = LoadDelay /\ levelToLoad' \in Level
          /\ UNCHANGED signals
      BY <2>3 DEF Start
    <3>4. OneSignal'
      BY <1>2, <3>2, <3>3 DEF OneSignal
    <3>5. RequestInMenu' /\ ListsBeforeRequest'
      BY <1>2, <2>1, <3>3
      DEF LoadInv, RequestInMenu, ListsBeforeRequest, levelMem
    <3> QED BY <1>1, <1>3, <1>4, <3>4, <3>5 DEF LoadInv
  <2> QED BY <1>5, <2>2, <2>3 DEF Preview
<1>6. CASE EnterSetup \/ LeaveSetup
  <2>1. UNCHANGED bgload /\ ~needToLoad
    BY <1>6 DEF EnterSetup, LeaveSetup, NoLoadGoingOn, LoadInv, RequestInMenu, TypeOK
  <2> QED BY <1>1, <1>2, <1>3, <1>4, <2>1
          DEF LoadInv, OneSignal, RequestInMenu, ListsBeforeRequest, bgload, levelMem
<1> QED BY <1>5, <1>6

\* The steps of the loader, which find the game elsewhere.
LEMMA LoadInvLoader == LoadInv /\ LoaderNext => LoadInv'
<1> SUFFICES ASSUME LoadInv, LoaderNext PROVE LoadInv'
  OBVIOUS
<1>1. TypeOK'
  BY TypeStep DEF Next
<1>2. /\ needToLoad /\ loadDelay = 0
      /\ mode = "menu" /\ menu = "preview" /\ game # "load"
      /\ levelToLoad \in Level /\ scene = "none"
  <2>1. CASE loader = "wait"
    <3>1. signals > 0
      BY <2>1 DEF LoaderNext, Receive, Unload, Unloaded, Load, Loaded, Done
    <3>2. needToLoad /\ loadDelay = 0
      BY <2>1, <3>1 DEF LoadInv, OneSignal, TypeOK
    <3> QED BY <3>2 DEF LoadInv, RequestInMenu, ListsBeforeRequest
  <2> QED BY <2>1, LoaderServesRequest
<1>3. UNCHANGED <<gameAt, levelToLoad, loadDelay>> /\ scene' = "none"
  BY <1>2 DEF LoaderNext, Receive, Unload, FreeLevel, Unloaded, Load, Loaded, Done,
              bgload, levelMem
<1>4. OneSignal'
  <2>1. signals \in Nat /\ OneSignal
    BY DEF LoadInv, TypeOK
  <2>2. CASE Receive
    BY <1>2, <1>3, <2>1, <2>2 DEF Receive, OneSignal
  <2>3. CASE Done
    BY <1>2, <1>3, <2>1, <2>3 DEF Done, OneSignal
  <2>4. CASE Unload \/ Unloaded \/ Load \/ Loaded
    BY <1>2, <1>3, <2>1, <2>4 DEF Unload, Unloaded, Load, Loaded, OneSignal, bgload
  <2> QED BY <2>2, <2>3, <2>4 DEF LoaderNext
<1>5. RequestInMenu' /\ ListsBeforeRequest'
  BY <1>2, <1>3 DEF RequestInMenu, ListsBeforeRequest, gameAt
<1>6. FlagTellsLevel' /\ LevelWhileLoading'
  <2> USE <1>2, <1>3 DEF LoadInv, FlagTellsLevel, LevelWhileLoading, gameAt
  <2>1. CASE Receive
    BY <2>1 DEF Receive, levelMem
  <2>2. CASE Unload
    BY <2>2 DEF Unload, FreeLevel
  <2>3. CASE Unloaded
    BY <2>3 DEF Unloaded
  <2>4. CASE Load
    BY <2>4 DEF Load
  <2>5. CASE Loaded
    BY <2>5 DEF Loaded
  <2>6. CASE Done
    BY <2>6 DEF Done, levelMem
  <2> QED BY <2>1, <2>2, <2>3, <2>4, <2>5, <2>6 DEF LoaderNext
<1>7. DeferredOutsideLoads' /\ TimerWhileLoading'
  BY <1>2, <1>3 DEF LoadInv, DeferredOutsideLoads, TimerWhileLoading, LoaderNext,
     Receive, Unload, Unloaded, Load, Loaded, Done, levelMem, gameAt
<1> QED BY <1>1, <1>4, <1>5, <1>6, <1>7 DEF LoadInv

LEMMA LoadInvStep == LoadInv /\ [Next]_vars => LoadInv'
<1> SUFFICES ASSUME LoadInv, [Next]_vars PROVE LoadInv'
  OBVIOUS
<1>1. CASE UNCHANGED vars
  BY <1>1 DEF vars, bgload, levelMem, gameAt, LoadInv, TypeOK, OneSignal,
     RequestInMenu, ListsBeforeRequest, FlagTellsLevel, LevelWhileLoading,
     DeferredOutsideLoads, TimerWhileLoading
<1> QED BY <1>1, LoadInvFrame, LoadInvGameLoad, LoadInvPreview, LoadInvLoader
        DEF Next, GameNext

-----------------------------------------------------------------------------
\* The strengthening everything below rests on.
THEOREM LoadInvariant == Spec => []LoadInv
BY LoadInvInit, LoadInvStep, PTL DEF Spec

\* Each accepted request is signalled to the loader once, never lost or doubled.
THEOREM SignalledOnce == Spec => []OneSignal
BY LoadInvariant, PTL DEF LoadInv

\* gIsLoading says between loads whether there is a level to free.
THEOREM FlagTrusted == Spec => []FlagTellsLevel
BY LoadInvariant, PTL DEF LoadInv

\* Outside loads a free leaves the list being walked its memory.
THEOREM FreesDeferred == Spec => []DeferredOutsideLoads
BY LoadInvariant, PTL DEF LoadInv

\* The variables keep their types; the loader's queue never overflows.
THEOREM TypeCorrect == Spec => []TypeOK
<1>1. LoadInv => TypeOK
  BY DEF LoadInv
<1> QED BY <1>1, LoadInvariant, PTL

\* No display list is walked that draws from a level already freed.
THEOREM ListsFresh == Spec => []NoStaleList
<1>1. LoadInv => NoStaleList
  BY DEF LoadInv, ListsBeforeRequest, NoStaleList
<1> QED BY <1>1, LoadInvariant, PTL

\* A scene is drawn only from a level that is whole.
THEOREM SceneWhole == Spec => []SceneHasLevel
<1>1. LoadInv => SceneHasLevel
  <2> SUFFICES ASSUME LoadInv, game = "scene", SceneDrawn
               PROVE  level # None /\ loader = "wait"
    BY DEF SceneHasLevel
  <2>1. ~needToLoad /\ ~isLoading /\ mode # "intro"
    BY DEF LoadInv, TypeOK, SceneDrawn, RequestInMenu, LevelWhileLoading
  <2>2. loader = "wait"
    BY <2>1, LoaderWaits
  <2> QED BY <2>1, <2>2 DEF LoadInv, FlagTellsLevel
<1> QED BY <1>1, LoadInvariant, PTL

\* A request is over only once its level is the one in memory.
THEOREM RequestsServed == Spec => RequestServed
<1>1. LoadInv /\ [Next]_vars =>
        [needToLoad /\ ~needToLoad' => level' = levelToLoad]_vars
  <2> SUFFICES ASSUME LoadInv, Next, needToLoad, ~needToLoad'
               PROVE  level' = levelToLoad
    OBVIOUS
  <2>1. Done
    BY DEF Next, GameNext, LoaderNext, SubmitList, DrawScene, Idle, EndFrame, Boot,
       SwitchLevel, DropLevel, StartRace, LeaveRace, FinishLoad, Preview, Start,
       EnterSetup, LeaveSetup, Receive, Unload, Unloaded, Load, Loaded, bgload
  <2> QED BY <2>1 DEF Done, LoadInv, LevelWhileLoading, levelMem
<1> QED BY <1>1, LoadInvariant, PTL DEF Spec, RequestServed

-----------------------------------------------------------------------------
(***************************************************************************)
(* The refinement of LevelSlot: a load is Take, a load's own frees and the *)
(* level it puts in place are Work, its end is Give; the game dropping the *)
(* level without a load is Discard; everything else is nothing.            *)
(***************************************************************************)
Owner == IF loader # "wait" THEN "bgload" ELSE IF game = "load" THEN "game" ELSE None

LEMMA SlotStutter ==
  ASSUME level' = level, Owner' = Owner
  PROVE  UNCHANGED Slot!vars
BY DEF Owner, Slot!vars

LEMMA SlotGame == LoadInv /\ GameNext => [Slot!Next]_(Slot!vars)
<1> SUFFICES ASSUME LoadInv, GameNext PROVE [Slot!Next]_(Slot!vars)
  OBVIOUS
<1>1. CASE SubmitList \/ DrawScene \/ Idle \/ EndFrame \/ Preview \/ EnterSetup
           \/ LeaveSetup
  <2>1. UNCHANGED <<level, loader>> /\ game # "load" /\ game' # "load"
    BY <1>1 DEF SubmitList, DrawScene, Idle, EndFrame, Preview, EnterSetup,
                LeaveSetup, levelMem
  <2> QED BY <2>1, SlotStutter DEF Owner
<1>2. CASE Boot \/ SwitchLevel \/ DropLevel \/ StartRace \/ LeaveRace \/ FinishLoad
  <2>1. ~needToLoad
    BY <1>2 DEF LoadInv, RequestInMenu, TypeOK, Boot, SwitchLevel, NoLoadGoingOn,
       DropLevel, StartRace, LeaveRace, FinishLoad
  <2>2. loader = "wait" /\ loader' = "wait"
    BY <1>2, <2>1, LoaderWaits
    DEF Boot, SwitchLevel, DropLevel, StartRace, LeaveRace, FinishLoad
  <2>3. CASE FinishLoad
    <3>1. game = "load" /\ game' = "end" /\ level' \in Level
      BY <2>3 DEF FinishLoad
    <3> QED BY <2>2, <3>1 DEF Slot!Next, Slot!Give
  <2>4. CASE ~FinishLoad
    <3>1. game = "act" /\ game' \in {"load", "end"} /\ level' \in {level, None}
      BY <1>2, <2>4 DEF Boot, SwitchLevel, DropLevel, StartRace, LeaveRace,
                        ListRestarted
    <3>2. CASE game' = "load"
      BY <2>2, <3>1, <3>2 DEF Slot!Next, Slot!Take
    <3>3. CASE game' = "end" /\ level' = None
      BY <2>2, <3>1, <3>3 DEF Slot!Next, Slot!Discard
    <3>4. CASE game' = "end" /\ level' = level
      BY <2>2, <3>1, <3>4, SlotStutter DEF Owner
    <3> QED BY <3>1, <3>2, <3>3, <3>4
  <2> QED BY <2>3, <2>4
<1> QED BY <1>1, <1>2 DEF GameNext

LEMMA SlotLoader == LoadInv /\ LoaderNext => [Slot!Next]_(Slot!vars)
<1> SUFFICES ASSUME LoadInv, LoaderNext PROVE [Slot!Next]_(Slot!vars)
  OBVIOUS
<1>1. CASE Receive
  <2>1. needToLoad
    BY <1>1 DEF Receive, LoadInv, OneSignal, TypeOK
  <2>2. game # "load"
    BY <2>1 DEF LoadInv, RequestInMenu
  <2>3. loader = "wait" /\ loader' = "called" /\ level' = level
    BY <1>1 DEF Receive, levelMem
  <2> QED BY <2>2, <2>3 DEF Slot!Next, Slot!Take
<1>2. CASE Unload
  <2>1. loader = "called" /\ loader' = "unload" /\ level' = None
    BY <1>2 DEF Unload, FreeLevel
  <2> QED BY <2>1 DEF Slot!Next, Slot!Work
<1>3. CASE Unloaded \/ Load
  <2>1. loader # "wait" /\ loader' # "wait" /\ level' = level
    BY <1>3 DEF Unloaded, Load
  <2> QED BY <2>1, SlotStutter DEF Owner
<1>4. CASE Loaded
  <2>1. loader = "load" /\ loader' = "done" /\ level' = levelToLoad
    BY <1>4 DEF Loaded
  <2>2. levelToLoad \in Level
    BY <2>1, LoaderServesRequest
  <2> QED BY <2>1, <2>2 DEF Slot!Next, Slot!Work
<1>5. CASE Done
  <2>1. loader = "done" /\ loader' = "wait" /\ UNCHANGED <<level, game>>
    BY <1>5 DEF Done, levelMem, gameAt
  <2>2. game # "load"
    BY <2>1, LoaderServesRequest
  <2> QED BY <2>1, <2>2 DEF Slot!Next, Slot!Give
<1> QED BY <1>1, <1>2, <1>3, <1>4, <1>5 DEF LoaderNext

\* The game and the loader are never at the level's memory together, and leave
\* a whole level in it or none.
THEOREM SlotImplemented == Spec => SlotSpec
<1>1. Init => Slot!Init
  BY DEF Init, Slot!Init
<1>2. LoadInv /\ [Next]_vars => [Slot!Next]_(Slot!vars)
  <2>1. CASE UNCHANGED vars
    BY <2>1, SlotStutter DEF vars, levelMem, gameAt, Owner
  <2> QED BY <2>1, SlotGame, SlotLoader DEF Next
<1> QED BY <1>1, <1>2, LoadInvariant, PTL DEF Spec, SlotSpec, Slot!Spec
=============================================================================
