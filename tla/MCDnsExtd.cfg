SPECIFICATION DaemonAndClientSpec
CONSTANTS
  ra = ra
  rb = rb
  q1 = q1
  Zoned = {ra, rb}
  Updates <- MCUpdates
  Questions = {q1}
  AnswersTo <- MCAnswersTo
  Clients = {"c"}
  t1 = t1
  t2 = t2
  Threads = {t1, t2}
  Conns = {"k"}
  Keyed = TRUE
  PrivateLLQ = FALSE
  TableSize = 1
  MaxRequests = 2
  MaxIds = 2
  MaxCalls = 3
  Zones = {"public", "private"}
  Labels = 0
  kLLQ_MAX_TRIES = 2
  Versions = 1
  Entries = 2
  MaxEvents = 2
  MaxLosses = 1
  MaxUnderway = 2
  Nobody = Nobody
INVARIANTS LeasesFollowTheZone ClientsHearAll EstablishedIsCurrent
CHECK_DEADLOCK FALSE
SYMMETRY Alike

