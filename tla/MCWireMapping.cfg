\* Two buffers at once, each id given out twice; requests of either kind.
CONSTANTS
  MaxIds = 2
  MaxSerial = 1
  MaxCommands = 2
  Requests = {r1, r2}
  NoRequest = NoRequest
  ReleaseUnderWrite = FALSE
SPECIFICATION FairSpec
INVARIANTS AnswersAreOwn SidesAgree
PROPERTY EveryRequestAnswered
CHECK_DEADLOCK FALSE
