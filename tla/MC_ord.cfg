\* Ordinals: both applications advance ord between packets; a packet
\* read at another ordinal than it was sent with must be rejected.
CONSTANTS
  Garbage = Garbage
  Junk = Junk
  NULL = NULL
  ZeroKey = ZeroKey
  MssHeight = 1
  Owner = Owner
  Eve = Eve
  Ch = Ch
  Ep = Ep
  Ch1 = Ch1
  Ep1 = Ep1
  EveKey = EveKey
  EveEp = EveEp
  PskA = PskA
  PskB = PskB
  PskE = PskE
  NtruR = NtruR
  KOwner = KOwner
  KEve = KEve
  P1 = P1
  P2 = P2
  MsgId = MsgId
  ChannelId = Ch
  Ident <- MCIdent
  FreshKey <- MCFreshKey
  RecvPsks = {PskB}
  RecvNtrus = {NtruR}
  PayloadLen <- MCPayloadLen
  Senders <- MCSendersOwner
  PskChoices <- MCPskChoicesSmall
  NtruChoices <- MCNtruChoicesSmall
  Payloads = {P1}
  BufChoices = {1}
  SizeEdits = {}
  MaxPackets = 2
  MaxReads = 2
  MaxTamper = 0
  OrdBase = 0
  MaxOrd = 1
SPECIFICATION Spec
INVARIANT RoundTrip
INVARIANT AuthenticPrefix
INVARIANT OrdMonotonic
