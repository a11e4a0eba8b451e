SPECIFICATION TracksSpec
CONSTANTS
    Phone <- MCPhone
    Favourites <- MCFavourites
    None = 0
    MaxAttempts = 1
    MaxEvents = 1
PROPERTIES
    ShowsConnectedPhone
