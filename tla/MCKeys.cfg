SPECIFICATION PartSpec
CONSTANTS
    d1 = d1
    d2 = d2
    r1 = r1
    stick = stick
    switch = switch
    f1 = f1
    f2 = f2
    Sessions = {d1, d2, r1}
    Remote = {r1}
    Devices = {stick, switch}
    MaxPress = 2
    MaxIgnore = 0
    Parallel = 3
INVARIANTS
    MicrophoneFollowsKeys
PROPERTIES
    
    RadioFollowsTheKey
CHECK_DEADLOCK FALSE
