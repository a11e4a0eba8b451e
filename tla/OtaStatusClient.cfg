\* The client against a backend that answers late, fails, restarts.
SPECIFICATION FairSpec
CONSTANTS
  Reports <- MCReports
  MaxRetryAttempts = 3
  SignalsLost = TRUE
  NoReply = NoReply
  Failed = Failed
  Accepted = Accepted
INVARIANTS TypeOK PollingAlive StateConsistent
PROPERTIES HiddenGoesQuiet OfferShown RecoversOnline
