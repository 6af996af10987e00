CONSTANTS
    None = None
    EnergyModes = {core, extended}
SPECIFICATION ChargingSpec
INVARIANT LoopPrepared
INVARIANT InStep
INVARIANT NoMutualWait
INVARIANT FedWhileAsked
PROPERTY KeepsPromise
PROPERTY NoEndlessSession
