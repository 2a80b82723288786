\* Round trip of honest messages through suspend/resume and reordering,
\* without adversary edits.
CONSTANTS
  Garbage = Garbage
  Junk = Junk
  NULL = NULL
  ZeroKey = ZeroKey
  MssHeight = 1
  Owner = Owner
  Eve = Eve
  Ch = Ch
  Ep = Ep
  Ch1 = Ch1
  Ep1 = Ep1
  EveKey = EveKey
  EveEp = EveEp
  PskA = PskA
  PskB = PskB
  PskE = PskE
  NtruR = NtruR
  KOwner = KOwner
  KEve = KEve
  P1 = P1
  P2 = P2
  MsgId = MsgId
  Senders <- MCSendersOwner
  ChannelId = Ch
  Ident <- MCIdent
  PskChoices <- MCPskChoices
  NtruChoices <- MCNtruChoices
  FreshKey <- MCFreshKey
  RecvPsks = {PskB}
  RecvNtrus = {NtruR}
  Payloads = {P1, P2}
  PayloadLen <- MCPayloadLen
  BufChoices = {NULL, 1}
  SizeEdits = {}
  MaxPackets = 2
  MaxReads = 2
  MaxTamper = 0
  OrdBase = 0
  MaxOrd = 0
SPECIFICATION Spec
INVARIANT TypeOK
INVARIANT SizeAgreement
INVARIANT RoundTrip
INVARIANT AuthenticPrefix
