CONSTANTS
    Horizon = 4
    Powers = {1, 2}
    MaxSlots = 3
    MaxEntries = 4
SPECIFICATION Spec
INVARIANT TypeOK
INVARIANT RejectedForCause
INVARIANT AcceptedFitsTwoSlots
