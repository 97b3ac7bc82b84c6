\* Five casts of up to three gestures, on the real limits of the home.
SPECIFICATION FairSpec
CONSTANTS
  ann = ann
  bob = bob
  acme = acme
  opened = opened
  draft = draft
  blank = blank
  submit = submit
  confirm = confirm
  post = post
  send = send
  session = session
  peek = peek
  nothing = nothing
  Senders = {ann, bob}
  Tenants = {acme}
  TenantOf <- MCTenantOf
  Messages = {submit, post}
  Gestures = {opened, draft, blank, submit, confirm, post, send, session, peek, nothing}
  AuthorOf <- MCAuthorOf
  SenderOf <- MCSenderOf
  KindOf <- MCKindOf
  Casts <- MCCasts
  ProposalIds = {p1}
  NoSender = NoSender
  NoAction = NoAction
  NoHandler = 0
  NoTable = NoTable
  Handlers = {1, 2, 3}
  MaxLate = 1
  CreateTypes = {"crm_plan"}
  ProposalTypes = {"update_contact"}
  Tables <- MCTables
  MaxTableBlocks = 70
  MaxViewBlocks = 100
  TTL = 1
  MaxTime = 1
INVARIANTS
  TypeOK
  ActivityIsTrue
  WorkingViewEnds
  CreateAnsweredOnce
  TablesFit
PROPERTIES
  AwaitingCanBeConfirmed
  WorkingViewGoes
CHECK_DEADLOCK FALSE
