SPECIFICATION EncSpec
CONSTANTS
  MessageSizes <- Ascii
  MaxInput = 6
  MaxPayload = 8
  MaxPlaintext = 9
  MaxMessages = 2
  KeySize = 8
  MaxValue = 9
  MaxLength = 65535
  Symbols = {0, 1, 2, 17, 31}
INVARIANTS NothingLost PayloadsFit FewestPayloads RoundTrips AddressesReadBack
CHECK_DEADLOCK FALSE
