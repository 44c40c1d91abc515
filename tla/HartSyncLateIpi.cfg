\* Hart 0 sends an interrupt to a hart that still polls its MSIP.
CONSTANTS
    N = 2
    BootHart = 0
    Senders = {0}
    WeakStores = FALSE
SPECIFICATION Spec
PROPERTY EveryHartStarts
