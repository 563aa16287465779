SPECIFICATION BareSpec
CONSTANTS
    main = main  co = co  co2 = co2  G = G  t = t  w = w  f = f  u = u  s = s  nil = nil
    Threads <- MCThreads
    Tables <- MCTables
    Closures <- MCClosures
    UpVals <- MCUpVals
    Strings <- MCStrings
    WeakMetas <- MCWeakMetas
    Uses <- MCUses
    Page <- MCPage
    Main = main
    Globals = G
    Nil = nil
    Slots = 2
INVARIANT StackRefsLive
CHECK_DEADLOCK FALSE
