\* The adversary rewrites the one-tryte size field of a published packet
\* to 13 trytes; the receiver reads it into a NULL payload.
CONSTANTS
  Garbage = Garbage
  Junk = Junk
  NULL = NULL
  ZeroKey = ZeroKey
  MssHeight = 1
  Owner = Owner
  Eve = Eve
  Ch = Ch
  Ep = Ep
  Ch1 = Ch1
  Ep1 = Ep1
  EveKey = EveKey
  EveEp = EveEp
  PskA = PskA
  PskB = PskB
  PskE = PskE
  NtruR = NtruR
  KOwner = KOwner
  KEve = KEve
  P1 = P1
  P2 = P2
  MsgId = MsgId
  ChannelId = Ch
  Ident <- MCIdent
  FreshKey <- MCFreshKey
  RecvPsks = {PskB}
  RecvNtrus = {NtruR}
  PayloadLen <- MCPayloadLen
  Senders <- MCSendersOwner
  PskChoices <- MCPskChoicesSmall
  NtruChoices <- MCNtruChoicesSmall
  Payloads = {P1}
  BufChoices = {NULL}
  SizeEdits = {13}
  MaxPackets = 1
  MaxReads = 1
  MaxTamper = 1
  OrdBase = 0
  MaxOrd = 0
SPECIFICATION Spec
INVARIANT AllocBounded
