\* Two harts, each with a thread and a handler, masked or not.
CONSTANTS
    Harts = {"h0", "h1"}
    InitHart = "h0"
    Rounds = 2
    MaxBackoff = 2
    Nobody = Nobody
SPECIFICATION Spec
INVARIANTS TypeOK MutualExclusion NoLostUpdate
PROPERTIES IsMutex EveryoneFinishes
