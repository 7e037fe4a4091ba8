SPECIFICATION Spec
CONSTANTS
    Ids = {"me@pc0", "ann@pc1", "c@t@pc3"}
    BadIds = {"c@t@pc3"}
    Me = "me@pc0"
    RoomIds = {"me@pc0", "ann@pc1"}
    Talkers = {"ann@pc1"}
    Movers = {"ann@pc1"}
    NewHost = "pc4"
    NoHost = "0.0.0.0"
    DualStack = TRUE
    Rooms = {"r"}
    Expiry = 1
    Day = 5
    MaxJoins = 2
INVARIANTS
    TypeOK
    WindowIffJoined
    NamedOnce
    WindowFollowsList
    CaughtInTheEnd
    
PROPERTIES
    HalfOfTheOldLeave
    SilentPeersLeave
