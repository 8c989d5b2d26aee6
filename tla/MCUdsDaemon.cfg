SPECIFICATION Spec
CONSTANTS
  c1 = c1
  c2 = c2
  r1 = r1
  r2 = r2
  r3 = r3
  i1 = i1
  i2 = i2
  k1 = k1
  Clients = {c1, c2}
  Requests = {r1, r2, r3}
  Instances = {i1, i2}
  Domains = {"local", "wide"}
  Local = "local"
  Keys = {k1}
  Ops = {"connection", "register", "browse", "resolve", "query", "addrinfo", "enum", "map"}
  Nobody = Nobody
  MaxName = 2
  MaxReplies = 1
  MaxReports = 1
  MaxCalls = 3
  MaxEvents = 2
SYMMETRY Alike
INVARIANTS NothingDangles ClientsAreUpToDate BrowsersFollowTheDomains
CHECK_DEADLOCK FALSE

