\* A collector that comes and goes, two restarts or failed writes.
SPECIFICATION FairSpec
CONSTANTS
  e1 = e1
  e2 = e2
  e3 = e3
  Events <- MCEvents
  Nobody = Nobody
  Torn = Torn
  MaxUnanswered = 2
  MaxFaults = 2
INVARIANTS TypeOK LostOnlyByRace RepeatedOnlyUnanswered
PROPERTIES TakenIsDelivered
