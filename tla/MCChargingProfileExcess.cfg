CONSTANTS
    Horizon = 3
    Powers = {1, 2}
    MaxSlots = 3
    MaxEntries = 3
SPECIFICATION Spec
INVARIANT AcceptedFits
