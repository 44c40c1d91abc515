\* Hart 0 initialises the image and releases hart 1, stores drain when they like.
CONSTANTS
    N = 2
    BootHart = 0
    Senders = {}
    WeakStores = TRUE
SPECIFICATION Spec
INVARIANT ImageVisible
