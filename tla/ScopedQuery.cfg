SPECIFICATION Spec
CONSTANTS
  old = old
  new = new
  Keys <- MCKeys
  NewKeys <- MCNewKeys
  MaxCachedScopes = 1
  MaxWrites = 2
  MaxSessions = 2
INVARIANTS CacheSound LossesRecorded
PROPERTIES PinnedSurvive
