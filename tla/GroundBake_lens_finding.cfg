SPECIFICATION LensSpec
CONSTANTS
    b1 = b1
    b2 = b2
    c1 = c1
    c2 = c2
    c3 = c3
    w1 = w1
    Bodies = {b1}
    Home = b1
    Chunks = {c1, c2, c3}
    Routed = {c1}
    Near = {}
    NPieces = 1
    Workers = {w1}
    Cap = 2
    k_src_cadence = 3
    NoBody = NoBody
    None = None
    Torn = Torn
    MaxMoves = 3
ACTION_CONSTRAINT WorkersWhenRead
INVARIANTS
    CurrentShowsSource
