SPECIFICATION Spec
CONSTANTS
  s1 = s1
  m1 = m1
  m2 = m2
  opus = opus
  codexModel = codexModel
  home = home
  away = away
  x = x
  y = y
  scalar = scalar
  odd = odd
  cred = cred
  None = None
  Bad = Bad
  Unknown = Unknown
  Unsupported = Unsupported
  MsFloor = 1000
  Mtok = 10
  RangeOf <- RangeOfV
  BucketOf <- BucketOfV
  ClaudeLines <- ClaudeLinesV
  CodexLines <- CodexLinesV
  Session = Session
  Fallback = 2
  Prices <- PricesV
  Now = 7
  YamlLines <- YamlLinesV
  Declarations <- DeclarationsV
  Replies <- RepliesV
  Utc = Utc
  DefaultBytes = 3
  Credentials = {cred}
  MaxHops = 3
  MaxLog = 3
  MaxLines = 4
  MaxReplies = 5
INVARIANTS ClaudeIsLastRecord CodexIsFirstRecord TotalsAgree YamlLosesNothing FetchStaysAllowed
PROPERTIES CodexOnlyGrows
CHECK_DEADLOCK FALSE
