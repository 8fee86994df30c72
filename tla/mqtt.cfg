\* Two clients at once, two topics, two handlers that overlap after a lost
\* connection.
CONSTANTS
  Attempts = {1, 2}
  NumTopics = 2
  Handlers = {1, 2}
  MaxLost = 1
SPECIFICATION StatusSpec
INVARIANTS OneLiveClient ConnectResultHonest ClosedIsQuiet DeafIsVisible
PROPERTIES ConnectReturns
