\* One MQTT client that may lose its connection, a cloud forwarder, two
\* events in one or two batches, and the environments of MCGateway.
CONSTANTS
  Environments <- MCEnvironments
  Attempts = {1}
  NumTopics = 1
  Handlers = {1}
  MaxLost = 1
  BatchSize = 2
  MaxEvents = 2
SPECIFICATION FairSpec
INVARIANTS LateAddHasCause MirrorComplete NothingLeftOpen ConfigUsable
PROPERTIES ShutdownCompletes ExposureSafe ClientAuthHonoured
