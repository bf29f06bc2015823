SPECIFICATION Spec
CONSTANTS
  Configs <- MCConfigs
  Errors <- MCErrors
  Randoms <- MCRandoms
\* A campaign ends when its event is dead-lettered.
CHECK_DEADLOCK FALSE
INVARIANTS
  DelayInJitterBand OutageUsesEveryAttempt FallbackNeverTaken
PROPERTIES
  JitterNeverUndoesBackoff
