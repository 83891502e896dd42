SPECIFICATION SlackSpec
CONSTANTS
  p1 = p1
  p2 = p2
  a1 = a1
  t1 = t1
  t2 = t2
  w1 = w1
  w2 = w2
  Questions = {1, 2}
  Bots = {1, 2}
  MaxHandlers = 3
  NoThread = NoThread
  MaxSlackTrouble = 1
  MaxText = 4
  MaxPieces = 2
  MaxTimers = 2
  MaxRefusals = 1
  Pods = {p1, p2}
  Admins = {a1}
  Tokens = {t1, t2}
  MaxSaves = 2
  MaxBots = 2
  MaxBotTrouble = 1
  NoIntegration = NoIntegration
  NoTokens = NoTokens
  Workers = {w1, w2}
  MaxLinkTokens = 3
  MaxLinkTrouble = 1
  NoLink = NoLink
INVARIANTS SlackPartsTypeOK AskedOnce AllShown LinkBacked
PROPERTIES SettledKeeps BotsRight
CHECK_DEADLOCK FALSE
