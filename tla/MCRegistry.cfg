SPECIFICATION PartSpec
CONSTANTS
    None = None
    c1 = c1
    c2 = c2
    t1 = t1
    t2 = t2
    t3 = t3
    Cids = {c1, c2}
    Users = {c1, c2}
    Controllers <- TwoControllers
    Networks <- SamePositions
    RequireActive = TRUE
    LoginDuringRemoval = TRUE
    MaxOps = 1
INVARIANTS
    
    
    LoadedNetworksAreSound
PROPERTIES
    OperationsEnd
