SPECIFICATION LinkSpec
CONSTANTS
    U16Max = 2
    None = None
    Topics = {t1, t2, t3}
    MaxInFlight = 3
INVARIANTS
    ResolvedAsMeant
