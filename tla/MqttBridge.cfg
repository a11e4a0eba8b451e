\* Links that drop, a restart, commands from both threads.
SPECIFICATION FairSpec
CONSTANTS
  c1 = c1
  c2 = c2
  r1 = r1
  r2 = r2
  None = None
  Commands <- MCCommands
  Releases <- MCReleases
  HeartbeatAlways = FALSE
  RebootConfigs = {TRUE, FALSE}
  MaxInbox = 1
  MaxOut = 1
  MaxDrops = 1
  MaxRestarts = 1
INVARIANTS TypeOK OfferIsLastAnnounced OutcomeIsLastTold
PROPERTIES SeenAgain
