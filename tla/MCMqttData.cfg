CONSTANTS
  U8 = {0, 1, 2}
  BlockSize = 4
  BufferLength = 140
  IdModulus = 4
  Publishes <- MCPublishes
  Topics <- MCTopics
  Infos <- MCInfos
  Acknowledged <- MCAcknowledged
  Incoming <- MCIncoming
  Together = 3
  Size = 8
  MaxLen = 4
  Packets <- MCPackets
SPECIFICATION MCSpec
INVARIANTS MessageReadsBack PublicationsDelivered LossNeedsLongerFrame
PROPERTIES ImplementsFifo ImplementsMsgQueue EveryCallReturns
