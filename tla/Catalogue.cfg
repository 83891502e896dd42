SPECIFICATION ConfigSpec
CONSTANTS
  p1 = p1
  p2 = p2
  s1 = s1
  s2 = s2
  q1 = q1
  Pods = {p1}
  Savers = {s1, s2}
  PodOf <- MCPodOf
  Nobody = Nobody
  MaxFailures = 1
  MaxRestarts = 1
  Servers = {p2}
  Requests = {q1}
  ServedBy <- MCServedBy
  Ids = {1}
  Kinds = {"agent", "mcp", "group", "skill"}
  Absent = Absent
  Masked = Masked
  MaxFaults = 2
  MaxStops = 1
INVARIANTS ConfigTypeOK SavedIsListed
PROPERTIES NeverBack CopiesFollow ChangesRecorded
CHECK_DEADLOCK FALSE
