SPECIFICATION GhostSpec
CONSTANTS
    Entries = 3
    Pages = 5
    adv = adv
    save = save
    times = times
    Names = {ghosts, adv, save, times}
    NoName = NoName
    Zero = Zero
    Junk = Junk
    Unreadable = Unreadable
    SectorEnds = {1, 3}
    Values <- MCValues
    NoteSize <- MCNoteSize
    Ghosts = ghosts
    t1 = t1
    t2 = t2
    t3 = t3
    Tracks <- MCTracks
    NoTrack = NoTrack
    NotATrack = NotATrack
    Times = {1, 2}
    MaxGhosts = 2
    GhostPages = 2
INVARIANTS
    GhostsOwnTrack
