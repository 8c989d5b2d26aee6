SPECIFICATION BothSpec
CONSTANTS
  h1 = h1
  h2 = h2
  a1 = a1
  a2 = a2
  b1 = b1
  Hosts = {h1, h2}
  Records = {a1, a2, b1}
  HostOf <- MCHostOf
  DataOf <- MCDataOf
  RData = {1, 2, 3}
  NoRData = 0
  TypesOf <- MCTypesOf
  Probes = 3
  Announcements = 1
  Goodbyes = 1
  Deferral = 4
  Updates = TRUE
  MaxCallsMade = 3
  s1 = s1
  s2 = s2
  s3 = s3
  q1 = q1
  q2 = q2
  name = name
  Servers = {s1, s2, s3}
  Questions = {q1, q2}
  Depth <- MCDepth
  NameOf <- MCNameOf
  Matches <- MCMatches
  PTRs = {}
  Configs <- MCConfigs
  Slots = {1, 2, 3}
  MAX_UCAST_UNANSWERED_QUERIES = 1
  Suppressible = {q2}
  Nobody = Nobody
  MaxEvents = 4
INVARIANTS UniqueOnLink DuplicatesCovered NobodyWaits
PROPERTIES ConflictsAreReal
CHECK_DEADLOCK FALSE
