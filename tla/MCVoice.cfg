SPECIFICATION LiveSpec
CONSTANTS
  NoReply = NoReply
  MEMORY_TURNS = 2
  Instances <- MCInstances
INVARIANTS VoiceInv HoldIsHeard IdleIsClean
PROPERTY TurnsEnd
CHECK_DEADLOCK FALSE
