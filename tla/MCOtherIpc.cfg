SPECIFICATION Spec
CONSTANTS
    a1 = a1
    a2 = a2
    App = {a1, a2}
    ipc_json <- Listed
    Fd = {f1, f2, f3}
    Gid = {g1, g2, g3}
    capacity = 3
    accept_per_tick = 2
    None = None
SYMMETRY Symmetry
INVARIANTS
    DirectionsExact
    PairsLive
    BatchFresh
    AlwaysDialled
