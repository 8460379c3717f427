SPECIFICATION PartSpec
CONSTANTS
    p1 = p1
    p2 = p2
    f1 = f1
    f2 = f2
    Toggles <- TwoToggles
    Plays <- OnePlay
    MaxRadios = 2
    MaxOps = 4
    MaxClips = 1
    Overlap = TRUE
    Lagging = TRUE
    Starts = {TRUE, FALSE}

    
PROPERTIES
    AirIsRecorded
    
CHECK_DEADLOCK FALSE
