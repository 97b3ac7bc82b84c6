\* A contact change that HubSpot carried out is reported as not made.
SPECIFICATION Spec
CONSTANTS
  ann = ann
  bob = bob
  eve = eve
  acme = acme
  other = other
  Senders = {ann, bob, eve}
  Tenants = {acme, other}
  TenantOf <- MCTenantOf
  Messages = {m1}
  SenderOf <- MCSenderOf
  ProposalIds = {p1}
  NoSender = NoSender
  NoAction = NoAction
  Requests = {r1, r2}
  ProposalTypes = {"update_contact"}
  MaxWrites = 2
  TTL = 1
  MaxTime = 1
INVARIANT UnavailableMeansNotWritten
CHECK_DEADLOCK FALSE
