CONSTANTS
  KeepAlive = 2
  SendTimeout = 2
  ReconnectTimeout = 1
  QueueCap = 2
  MaxOrphans = 1
  BrokerSends = {"PUBLISH0", "PUBLISH1"}
SPECIFICATION Spec
INVARIANTS DataMeansSession OutageLosesOne
PROPERTIES ReconnectionHappens AttemptEnds QueueKeepsMoving
