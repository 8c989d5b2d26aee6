SPECIFICATION HostSpec
CONSTANTS
  e0v4 = e0v4
  e0v6 = e0v6
  e1v4 = e1v4
  lo = lo
  bad = bad
  Addresses = {e0v4, e0v6, e1v4, lo, bad}
  Attributes <- MCAttributes
  Enumeration <- MCEnumeration
  Services = {"s"}
  Labels = {1, 2, 3}
  Taken = {1, 3}
  NoLabel = 0
  MaxChanges = 2
  MaxFailures = 1
  Clients = {"c1"}
  Listener = "listener"
  Notifier = "notifier"
  Signals = {"SIGHUP", "SIGTERM"}
  Quit = {"SIGTERM"}
  Interfaces = {"i1"}
  MaxSignals = 2
  MaxPackets = 1
  Subs = {"s1", "s2"}
  Extra = {"e1", "e2"}
  NoFailure = "none"
  Together = FALSE
  MaxServiceCalls = 6
INVARIANT FreedIsGone
CHECK_DEADLOCK FALSE
