SPECIFICATION LineSpec
CONSTANTS
  Byte <- MCByte
  NoiseByte = {0, 7, 8, 126}
  MaxFrameSize = 3
  HeaderSize = 1
  CrcSize = 1
  Crc <- MCCrc
  Bodies <- MCBodies
  MaxFrames = 2
  MaxFaults = 3
INVARIANTS
  LinkTypeOK
  BufferOnlyInFrame
  DeliveredFramesFit
  Synchronized
PROPERTIES
  DelimiterSynchronizes
  IntactFrameIsDelivered
  LossyLinkSpec
CHECK_DEADLOCK FALSE
