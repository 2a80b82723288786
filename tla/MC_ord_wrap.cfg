\* An application starts its send context at the last ordinal of the
\* 18-trit range (Trint18Max = 193710244) and advances it once between
\* packets; suspending and restoring the context is allowed as well.
CONSTANTS
  Garbage = Garbage
  Junk = Junk
  NULL = NULL
  ZeroKey = ZeroKey
  MssHeight = 1
  Owner = Owner
  Eve = Eve
  Ch = Ch
  Ep = Ep
  Ch1 = Ch1
  Ep1 = Ep1
  EveKey = EveKey
  EveEp = EveEp
  PskA = PskA
  PskB = PskB
  PskE = PskE
  NtruR = NtruR
  KOwner = KOwner
  KEve = KEve
  P1 = P1
  P2 = P2
  MsgId = MsgId
  ChannelId = Ch
  Ident <- MCIdent
  FreshKey <- MCFreshKey
  RecvPsks = {PskB}
  RecvNtrus = {NtruR}
  PayloadLen <- MCPayloadLen
  Senders <- MCSendersOwner
  PskChoices <- MCPskChoicesSmall
  NtruChoices <- MCNtruChoicesSmall
  Payloads = {P1}
  BufChoices = {1}
  SizeEdits = {}
  MaxPackets = 2
  MaxReads = 2
  MaxTamper = 0
  OrdBase = 193710244
  MaxOrd = 1
SPECIFICATION Spec
INVARIANT OrdMonotonic
