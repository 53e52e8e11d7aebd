SPECIFICATION Spec
CONSTANTS
  ann = ann
  bob = bob
  Clients = {ann, bob}
  Tries = 2
  Requests <- Posts
  NoConn = NoConn
  Resting <- BothRest
  none = none
  OLED_WIDTH = 2
  OLED_PAGES = 2
  GLYPH_WIDTH = 1
  PageRows = 1
  ColumnOffset = 2
  ByteRange = 5
  Glyphs = {0, 1}
  NoGlyph = none
  Texts <- Drawn
  MaxRestarts = 1
  Noise = Noise
  sta = sta
  eth = eth
  http = http
  ssh = ssh
  OwnHost = OwnHost
  Netifs = {sta, eth}
  Offered = {http, ssh}
  MaxOffered = 2
  MaxWaiting = 1
  MaxRenames = 1
  TextPieces <- PiecesTyped
  MaxPieces = 3
  b1 = b1
  b2 = b2
  web = web
  lpr = lpr
  on1 = on1
  on2 = on2
  h1 = h1
  h2 = h2
  NoHost = NoHost
  Browses = {b1, b2}
  Browsed = {web, lpr}
  TypeOf <- OneType
  BrowsedOn = {on1, on2}
  BrowsedAddresses = {a1}
  BrowsedTexts = {v1}
  BrowsePackets <- InPackets
  BrowseQueue = 2
  a1 = a1
  v1 = v1
  i1 = i1
  i2 = i2
  t1 = t1
  t2 = t2
  None = None
  Chains <- SearchChains
  Found = {i1, i2}
  FoundOn = {h1, h2}
  FoundPorts = {80}
  FoundTexts = {t1, t2}
  FoundAddresses = {a1}
  n1 = n1
  n2 = n2
  n3 = n3
  NULL = NULL
  NoKey = NoKey
SYMMETRY Memory
CHECK_DEADLOCK FALSE
INVARIANTS
  TypeOK
  ShownAsAsked
  AnswersForItsOwn
  ToldIsCached
  ResultsTrue
  TreesWhole
  StringsReadBack
  ParsesTheGrammar
  PrintsWhole
  PatchesLead
PROPERTIES
  PanelShows
