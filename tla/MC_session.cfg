\* A send context reused for two messages of up to two packets each, with
\* the test's trees of depth 1 (TEST_MSS_DEPTH): the channel tree signs up
\* to six times, past its two leaves, as in test_message.c.  The sender
\* stops at the bounds.
CONSTANTS
  Garbage = Garbage
  Junk = Junk
  NULL = NULL
  ZeroKey = ZeroKey
  MssHeight = 1
  Ch = Ch
  Ep = Ep
  Ch1 = Ch1
  Ep1 = Ep1
  Prng = Prng
  PskB = PskB
  P1 = P1
  MsgId = MsgId
  PskChoices <- MCPskChoices
  NtruChoices <- MCNtruChoices
  RecvPsks = {PskB}
  RecvNtrus = {}
  Payloads = {P1}
  PayloadLen <- MCPayloadLen
  MaxMsgs = 2
  MaxPackets = 2
SPECIFICATION Spec
CHECK_DEADLOCK FALSE
INVARIANT TypeOK
INVARIANT MessagesReadable
