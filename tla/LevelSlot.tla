----------------------------- MODULE LevelSlot -----------------------------
(***************************************************************************)
(* The memory of the one loaded level, as whoever draws or loads sees it:  *)
(* a loader takes it over, which voids what it held, works in it alone,    *)
(* and hands it back with a level in it or empty.  It can be looked at     *)
(* only between loads.                                                     *)
(***************************************************************************)
CONSTANTS Level,  \* levels that can be loaded
          Loader, \* threads that can load one
          None    \* no level, no thread

VARIABLES content, \* the level held
          owner    \* the thread loading one, or None

vars == <<content, owner>>

Init == content = None /\ owner = None

\* Whoever may look at the level may also throw it away.
Discard ==
    /\ owner = None
    /\ content' = None
    /\ UNCHANGED owner

Take(l) ==
    /\ owner = None
    /\ owner' = l
    /\ content' \in {content, None}

Work(l) ==
    /\ owner = l
    /\ content' \in Level \cup {None}
    /\ UNCHANGED owner

Give(l) ==
    /\ owner = l
    /\ owner' = None
    /\ content' \in Level \cup {content}

Next == Discard \/ \E l \in Loader : Take(l) \/ Work(l) \/ Give(l)

Spec == Init /\ [][Next]_vars
=============================================================================
