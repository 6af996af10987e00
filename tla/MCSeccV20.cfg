CONSTANTS
    None = None
    Configs <- Stations
    ScheduleIds = {1, 2}
SPECIFICATION Spec
INVARIANT ReachedAsAgreed
PROPERTY KeepsPromise
