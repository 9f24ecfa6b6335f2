SPECIFICATION PackSpec
CONSTANTS
  MessageSizes <- Wide
  MaxInput = 3
  MaxPayload = 9
  MaxPlaintext = 8
  MaxMessages = 2
INVARIANT PayloadsEncryptable
CHECK_DEADLOCK FALSE
