SPECIFICATION Spec
CONSTANTS
    Phone <- MCPhone
    Favourites <- MCFavourites
    None = 0
    MaxAttempts = 3
    MaxEvents = 2
INVARIANTS
    TypeOK
    PlayerFollowsManager
    ControlsMatchPhone
    SwitchesMatchAdapter
PROPERTIES
    PhoneServed
    ReconnectGivesUp
