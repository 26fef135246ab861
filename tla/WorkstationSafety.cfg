SPECIFICATION CheckSpec
CONSTANTS
  root = root
  guest = guest
  pc1 = pc1
  pc10 = pc10
  odd = odd
  white = white
  dash = dash
  rootExpr = rootExpr
  Threads = {succeed}
  LoginThread = succeed
  Addresses = {a1, w}
  Whitelist = {w}
  Invalid = {none}
  RuleNames = {n1, n2}
  BlockTimes = {0, 1}
  TicksPerSecond = 1
  CanFail = {}
  MaxTerminations = 2
  NoTask = NoTask
  Users <- MCUsers
  Names <- MCNames
  Expressions <- MCExpressions
  Matches <- MCMatches
  Malformed = {odd}
  WhiteNames = {white}
  BlockNames = {dash}
  ConfigBinds <- MCConfigBinds
  CheckBind = TRUE
  AutoBind = TRUE
SYMMETRY Symmetry
INVARIANTS CheckTypeOK  VerdictsAgree OnlyBlockable
PROPERTY BindingsStay
