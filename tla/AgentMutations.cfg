\* Safety: three deliveries of one message or of confirmations of one proposal.
SPECIFICATION Spec
CONSTANTS
  ann = ann
  bob = bob
  eve = eve
  acme = acme
  other = other
  Senders = {ann, bob, eve}
  Tenants = {acme, other}
  TenantOf <- MCTenantOf
  Messages = {m1}
  SenderOf <- MCSenderOf
  ProposalIds = {p1}
  NoSender = NoSender
  NoAction = NoAction
  Requests = {r1, r2, r3}
  ProposalTypes = {"update_contact", "delete_company"}
  MaxWrites = 2
  TTL = 1
  MaxTime = 2
SYMMETRY Interchangeable
INVARIANTS
  TypeOK
  AppliedAtMostOnce
  ExecutionIsAuthorised
  LedgerAgrees
  OutcomeTellsWrites
  ReplyTellsWrites
  ClaimedOnce
  ClaimHasHandler
PROPERTIES
  SettledIsFinal
  ImplementsOnceOnly
  ImplementsPlanRun
CHECK_DEADLOCK FALSE
