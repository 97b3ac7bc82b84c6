\* Three records of a type, pages of two, and one change by someone else.
SPECIFICATION FairSpec
CONSTANTS
  sales = sales
  renewals = renewals
  new = new
  won = won
  lost = lost
  odd = odd
  ann = ann
  Absent = Absent
  Invalid = Invalid
  Gone = Gone
  Stages = {new, won, lost, odd}
  Pipelines = {sales, renewals}
  StageLabel <- MCStageLabel
  StagePipeline <- MCStagePipeline
  IsClosed <- MCIsClosed
  IsClosedWon <- MCIsClosedWon
  StageChance <- MCStageChance
  PipelineLabel <- MCPipelineLabel
  MaxFilters = 6
  Questions <- MCQuestions
  Ids = {1, 2, 3}
  Existing = {1, 3}
  RecordsOf <- MCRecordsOf
  PageSize = 2
  MaxPages = 3
  LeadLimit = 2
  DealBatch = 2
  LeadBatch = 1
  MaxChanges = 1
  MaxLoops = 4
INVARIANTS
  TypeOK
  RowsWereTrue
  NothingMissed
  MostUrgentShown
  MoreIsSaid
  RefusedUnasked
  ReportSaysPartial
PROPERTIES
  AnswerComes
CHECK_DEADLOCK FALSE
