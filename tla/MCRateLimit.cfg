SPECIFICATION LimitSpec
CONSTANTS
  Handlers = {h1, h2, h3}
  RPS = 2
  Burst = 2
  Scope = "per-ip"
  TrustProxyHops = 2
  Second = 3
  Clients <- MCClients
  Addresses = {"a", "b"}
  MaxTime = 8
  MaxAdmits = 6
SYMMETRY Interchangeable
CHECK_DEADLOCK FALSE
INVARIANTS
  LimitTypeOK
  WithinRate
PROPERTY PromiseKept
