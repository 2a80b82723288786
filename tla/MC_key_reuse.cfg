\* Two messages with recipients on one send context.
CONSTANTS
  Garbage = Garbage
  Junk = Junk
  NULL = NULL
  ZeroKey = ZeroKey
  MssHeight = 3
  Ch = Ch
  Ep = Ep
  Ch1 = Ch1
  Ep1 = Ep1
  Prng = Prng
  PskB = PskB
  P1 = P1
  MsgId = MsgId
  PskChoices <- MCPskChoices
  NtruChoices <- MCNtruChoices
  RecvPsks = {PskB}
  RecvNtrus = {}
  Payloads = {P1}
  PayloadLen <- MCPayloadLen
  MaxMsgs = 2
  MaxPackets = 2
SPECIFICATION Spec
CHECK_DEADLOCK FALSE
INVARIANT SessionKeyFresh
