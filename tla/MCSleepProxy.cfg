SPECIFICATION SleepSpec
CONSTANTS
  h = h
  p = p
  q = q
  a = a
  b = b
  None = None
  Machines = {h, p, q}
  Servers = {p, q}
  Records = {a, b}
  OwnerOf <- MCOwnerOf
  Services = {a}
  Addresses = {b}
  Ports = {"ssh", "ipsec"}
  PortOf <- MCPortOf
  Slots = 2
  Tries = 2
  MaxProxyRecords = 3
  Links <- MCLinks
INVARIANTS SilentOnlyIfAnswered HeldOrWoken
CHECK_DEADLOCK FALSE

