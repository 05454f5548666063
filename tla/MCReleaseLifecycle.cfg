CONSTANTS
    d1 = d1
    d2 = d2
    d3 = d3
    None = None
    Deployment <- MCDeployment
    Mode <- MCMode
    Contract <- MCContract
    UnitOf <- MCUnitOf
    LegacyRelease = d1
    Manifest = {d1, d2, d3}
    Attestation = {d1, d2}
    MaxWrites = 1
    MaxTx = 2
    MaxFaults = 2
    MaxStops = 1
    MaxInstalls = 1
SPECIFICATION FairSpec
INVARIANTS
    OnlyNewestUnsettled
    SettledIsServed
PROPERTIES
    ManagerKeepsWrites
    InterruptedIsSettled
