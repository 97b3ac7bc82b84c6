\* Safety: two callers share a provider, a third does not.
SPECIFICATION Spec
CONSTANTS
  c1 = c1
  c2 = c2
  c3 = c3
  p1 = p1
  p2 = p2
  Tenants = {acme}
  Accounts = {h1}
  Nonces = {n1, n2}
  Callers = {c1, c2, c3}
  Providers = {p1, p2}
  ProviderOf <- MCProviderOf
  Callbacks = {k1, k2}
  NoOne = NoOne
  Lifetime = 3
  Margin = 2
  Latency = 1
  StateTTL = 1
  MaxTime = 3
SYMMETRY Interchangeable
INVARIANTS
  TypeOK
  ConnectionIsAuthorised
  RefreshIsAtomic
PROPERTIES
  ReturnedTokenLive
CHECK_DEADLOCK FALSE
