SPECIFICATION RecordsSpec
CONSTANTS
  q1 = q1
  q2 = q2
  q3 = q3
  r1 = r1
  r2 = r2
  r3 = r3
  Questions = {q1, q2, q3}
  CacheRecords = {r1, r2, r3}
  Kinds = {"any", "one"}
  KindOf <- MCKindOf
  Answers <- MCAnswers
  UniqueRecords <- MCUnique
  MaxUnansweredQueries = 1
  rrcache_size = 2
  Nobody = Nobody
  MaxClientCalls = 3
  MaxPackets = 2
  Services = {"srv"}
  Texts = {}
  Hosts = {"h1", "h2"}
  ServiceOf <- MCServiceOf
  Values = {"v1", "v2"}
  Addresses = {"a1"}
  Outside = "out"
  Networks = {TRUE}
  Refusing = {}
  MaxCalls = 4
  MaxLosses = 0
  MaxUnderway = 1
  Empty = ""
  Subjects = {"update"}
INVARIANT RegisteredWasSent
CHECK_DEADLOCK FALSE
