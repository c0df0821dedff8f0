SPECIFICATION ReclaimSpec
CONSTANTS
    t1 = t1
    t2 = t2
    t3 = t3
    Thread = {t1, t2}
    Key = {1, 2}
    HEIGHT = 2
    MaxCalls = 4
    head = head
    Null = Null
    Script <- Sharing
    CursorScript <- SharingCursors
    Main = t1
    Fill = 2
INVARIANTS
    NoPanic
    KeptAreNotFreed
    ReclaimTypeOK
    TakenOnce
    ReclaimInvariant
    LinkedAreNotFreed
    FreedOnce
    DrainedWereLeft
PROPERTIES
    CursorsSkipNothing
    FindsSteadyEntry
    GetReturnsLive
