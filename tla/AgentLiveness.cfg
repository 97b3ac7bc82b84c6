\* Liveness: two handlers, each of every kind, with and without a crash.
SPECIFICATION FairSpec
CONSTANTS
  ann = ann
  bob = bob
  eve = eve
  acme = acme
  other = other
  Senders = {ann, bob, eve}
  Tenants = {acme, other}
  TenantOf <- MCTenantOf
  Messages = {m1}
  SenderOf <- MCSenderOf
  ProposalIds = {p1}
  NoSender = NoSender
  NoAction = NoAction
  Requests = {r1, r2}
  ProposalTypes = {"update_contact", "delete_company"}
  MaxWrites = 2
  TTL = 1
  MaxTime = 1
PROPERTIES
  RequestsEnd
  ClaimsSettle
CHECK_DEADLOCK FALSE
