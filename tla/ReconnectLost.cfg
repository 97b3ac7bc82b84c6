\* A refresh in flight brings back the grant that a reconnect replaced.
SPECIFICATION FairSpec
CONSTANTS
  c1 = c1
  c2 = c2
  c3 = c3
  p1 = p1
  p2 = p2
  Tenants = {acme}
  Accounts = {h1}
  Nonces = {n1, n2}
  Callers = {c1}
  Providers = {p1}
  ProviderOf <- MCProviderOf
  Callbacks = {k1, k2}
  NoOne = NoOne
  Lifetime = 2
  Margin = 1
  Latency = 0
  StateTTL = 1
  MaxTime = 1
PROPERTY CompletedAuthorizationIsKept
CHECK_DEADLOCK FALSE
