SPECIFICATION MCSpec
CONSTANTS
  Byte = {0, 1, 34, 253}
  MaxLength = 5
  Alteration <- MCAlteration
  Fields <- MCFields
  Counters <- MCCounters
  FirstTime = 11
  SecondTime = 25
  HeaderSize = 2
  PacketTooShortError = PacketTooShortError
  Invalid = Invalid
  TooShort = TooShort
  UnknownStatusType = UnknownStatusType
  InvalidSlotNumber = InvalidSlotNumber
  InvalidGatewayID = InvalidGatewayID
  NoGatewayID = NoGatewayID
  NotTwelveBits = NotTwelveBits
  MaxData = 2
  Millisecond = 10
  UnexpectedEof = UnexpectedEof
INVARIANTS
  AlteredByteIsNoticed
  BarcodeIsReadBack
  MistypedDigitIsNoticed
  PacketsAreAllThereIs
  StatusIsReadBack
  SlotsSinceAddUp
  CaptureIsReadBack
CHECK_DEADLOCK FALSE
