CONSTANTS
    None = None
    Configs <- Stations
    ScheduleIds = {1, 2}
SPECIFICATION Spec
INVARIANT PncProven
INVARIANT ScheduleOffered
INVARIANT OfferFitsSession
INVARIANT HlcAnnounced
INVARIANT AnsweredUnlessRaised
PROPERTY KeepsPromise
