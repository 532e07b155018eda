CONSTANTS
  c1 = c1  c2 = c2  timer = timer
  Caller = {c1, c2}
  Timer = timer
  Role <- Roles
  MaxLogger = 2
  MaxLoad = 1
  File <- Files
  FirstFile <- Info
  LogNode <- LogSection
  PathKey <- LogPath
  LevelKey <- LogLevel
SPECIFICATION Spec
INVARIANTS TypeOK FileInForce LineIsOwn DebugNeedsDebug FlagsFollowLevel FatalOnlyAstray
PROPERTIES ErrorIsPrinted CallsReturn
CHECK_DEADLOCK FALSE
