SPECIFICATION Spec
CONSTANTS
    Ids = {"me@pc0", "ann@pc1"}
    BadIds = {}
    Me = "me@pc0"
    RoomIds = {}
    Talkers = {}
    Movers = {}
    NewHost = "pc4"
    NoHost = "0.0.0.0"
    DualStack = FALSE
    Rooms = {}
    Expiry = 2
    Day = 6
    MaxJoins = 0
PROPERTY
    OldPeersLeave
