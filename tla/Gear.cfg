\* Gamepad and head unit disagree, the controller restarts.
SPECIFICATION FairSpec
CONSTANTS
  N = N
  D = D
  R = R
  Gears <- MCGears
  Neutral = N
  None = None
  MaxPresses = 2
  MaxRequests = 2
  MaxStarts = 2
INVARIANTS TypeOK ShowsWhatWasSignalled
PROPERTIES DrivenIsShown
