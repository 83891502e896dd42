SPECIFICATION McpSpec
CONSTANTS
  v1 = v1
  e1 = e1
  e2 = e2
  c1 = c1
  c2 = c2
  u1 = u1
  d1 = d1
  a1 = a1
  a2 = a2
  Models = {1, 2}
  Providers = {v1}
  Keys = {1, 2}
  Limits = {1, 2}
  Editors = {e1, e2}
  Calls = {c1, c2}
  NoRow = NoRow
  NoModel = NoModel
  Users = {u1}
  Addresses = {"a"}
  MaxClients = 1
  MaxSessions = 3
  MaxTrouble = 1
  Chats = {d1}
  MaxRounds = 2
  MaxCalls = 2
  NoSession = NoSession
  MaxMishaps = 2
  Callers = {c1, c2}
  MaxTokens = 4
  MaxTokenTrouble = 1
  MaxConsents = 2
  NoToken = NoToken
  Pages = {c1, c2}
  MaxLoginTokens = 4
  MaxLoginTrouble = 1
  NoLogin = NoLogin
  AuthServers = {a1, a2}
  Savers = {c1}
  NoServer = NoServer
  NoClient = NoClient
  NoOauthRow = NoOauthRow
  MaxOutages = 2
INVARIANTS McpTypeOK ModelsSound ReplyAsShown GrantsLast
PROPERTIES StatusTells EffectsKept
CHECK_DEADLOCK FALSE
