\* Hart 2 has context 3; context 2 is another one of hart 1.
CONSTANTS
    Harts = {1, 2}
    Contexts = {0, 1, 2, 3}
    Context <- TwoModes
    NumInterrupts = 2
    WordBits = 32
    MaxPriority = 7
    Priorities = {}
    Thresholds = {}
    Registrars = {1}
    Defaults = FALSE
    Masks = {}
    IsrCalls = FALSE
    Raises = 1
SPECIFICATION Spec
PROPERTY EnabledIsServed
CHECK_DEADLOCK FALSE
