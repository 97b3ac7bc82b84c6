----------------------------- MODULE CrmQueries -----------------------------
(***************************************************************************)
(* The rules that pick records for an answer: crm_query.py (which deals a  *)
(* filter selects, on HubSpot's side and locally), the status of a deal    *)
(* from its stage, the classes of the follow-up review and leads.py (the   *)
(* score and priority of a contact).  There is no state here; CrmReads     *)
(* asks these questions of a HubSpot that changes.                         *)
(***************************************************************************)
EXTENDS Integers, FiniteSets

CONSTANTS
  Absent,        \* a property without a value, a condition that is not given
  Invalid,       \* a value that is not a finite number
  Stages,        \* ids of the stages of all pipelines
  StageLabel,    \* their labels, which two pipelines may share
  StagePipeline, \* the pipeline of a stage
  IsClosed,      \* metadata.isClosed: "true", "false", or anything else
  IsClosedWon,   \* metadata.isClosedWon: "true", "false", Absent
  StageChance,   \* metadata.probability in percent, or Absent
  Pipelines,
  PipelineLabel,
  MaxFilters     \* the conditions that HubSpot takes in a filter group, 6

ASSUME AbsentAssumption == Absent \notin Int /\ Invalid \notin Int /\ Absent # Invalid
ASSUME FiltersAssumption == MaxFilters \in Nat

\* A number: Decimal(raw) succeeds and is finite.
IsNumber(x) == x \notin {Absent, Invalid}

-----------------------------------------------------------------------------
(* The status of a deal. *)

Closed(d) == d.stage \in Stages /\ IsClosed[d.stage] = "true"

\* A stage that is not configured, or says neither, is not open either.
Open(d) == d.stage \in Stages /\ IsClosed[d.stage] = "false"

Won(d) ==
  /\ d.stage \in Stages
  /\ IF IsClosedWon[d.stage] # Absent
     THEN IsClosedWon[d.stage] = "true"
     ELSE StageChance[d.stage] = 100

Lost(d) ==
  /\ d.stage \in Stages
  /\ IF IsClosedWon[d.stage] # Absent
     THEN IsClosedWon[d.stage] = "false"
     ELSE StageChance[d.stage] = 0

HasStatus(status, d) ==
  CASE status = "open" -> Open(d)
    [] status = "closed" -> Closed(d)
    [] status = "closed_won" -> Closed(d) /\ Won(d)
    [] status = "closed_lost" -> Closed(d) /\ Lost(d)
    [] OTHER -> TRUE

\* The status a query asks for.
StatusOf(kind) ==
  CASE kind \in {"open_deals", "best_chance_deals"} -> "open"
    [] kind = "closed_deals" -> "closed"
    [] kind = "closed_won_deals" -> "closed_won"
    [] kind = "closed_lost_deals" -> "closed_lost"
    [] OTHER -> Absent

-----------------------------------------------------------------------------
(* Filters: DealFilterSpec, build_deal_filter. *)

NumericProperties == {"amount"}
SortProperties == {"amount", "closedate"}
Priorities == {"high", "medium", "low"}
DealTypes == {"newbusiness", "existingbusiness"}

Unreadable(c) ==
  \/ c.property \notin NumericProperties
  \/ ~IsNumber(c.value)
  \/ c.operator = "between" /\ ~IsNumber(c.upper)

\* Mutant: what the interpreter could not express is dropped.
Unbuildable_trimmed(f) ==
  \/ \E c \in f.conditions : Unreadable(c)
  \/ f.priority \notin Priorities \cup {Absent}
  \/ f.type \notin DealTypes \cup {Absent}
  \/ f.owner = "" \/ f.pipeline = ""
  \/ f.sort # Absent /\ f.sort.property \notin SortProperties

\* A filter that cannot be applied as a whole is refused, not trimmed.
Unbuildable(f) ==
  \/ f.unsupported
  \/ \E c \in f.conditions : Unreadable(c)
  \/ f.priority \notin Priorities \cup {Absent}
  \/ f.type \notin DealTypes \cup {Absent}
  \/ f.owner = "" \/ f.pipeline = ""
  \/ f.sort # Absent /\ f.sort.property \notin SortProperties

\* NumericFilter.matches; the bounds of "between" may come in either order.
Matches(c, x) ==
  CASE c.operator = "gt" -> x > c.value
    [] c.operator = "gte" -> x >= c.value
    [] c.operator = "lt" -> x < c.value
    [] c.operator = "lte" -> x <= c.value
    [] c.operator = "eq" -> x = c.value
    [] c.operator = "neq" -> x # c.value
    [] OTHER -> \/ c.value <= x /\ x <= c.upper
                \/ c.upper <= x /\ x <= c.value

Named(name) == {s \in Stages : name \in {s, StageLabel[s]}}
UnclearStage(f) == \E name \in f.stages : Cardinality(Named(name)) # 1
StageIds(f) == UNION {Named(name) : name \in f.stages}

\* A pipeline that is not found, or not one, is looked for under the name given.
PipelineIds(f) ==
  LET found == {p \in Pipelines : f.pipeline \in {p, PipelineLabel[p]}} IN
  IF Cardinality(found) = 1 THEN found ELSE {f.pipeline}

\* There is no list of owners to look a name up in: an owner is an id.
HubSpotConditions(f) ==
  [numeric |-> f.conditions,
   others |-> {c \in {"stages", "pipeline", "priority", "type", "owner", "unassigned"} :
                 CASE c = "stages" -> f.stages # {}
                   [] c = "unassigned" -> f.unassigned
                   [] OTHER -> f[c] # Absent}]

UsesSearch(f) ==
  LET g == HubSpotConditions(f) IN g.numeric # {} \/ g.others # {}

TooMany(f) ==
  LET g == HubSpotConditions(f) IN
  Cardinality(g.numeric) + Cardinality(g.others) > MaxFilters

\* What a filter asks of a deal before it asks for its type.
FoundButForType(f, d) ==
  /\ f.stages # {} => d.stage \in StageIds(f)
  /\ f.pipeline # Absent => d.pipeline \in PipelineIds(f)
  /\ f.priority # Absent => d.priority = f.priority

\* What HubSpot finds for a filter group: all its conditions hold.
Found(f, d) ==
  /\ FoundButForType(f, d)
  /\ \A c \in f.conditions : IsNumber(d.amount) /\ Matches(c, d.amount)
  /\ f.type # Absent => d.type = f.type
  /\ f.owner # Absent => d.owner = f.owner
  /\ f.unassigned => d.owner = Absent

\* A deal whose type is none of those known, or blank, is not passed over: it makes
\* the filter fail, as if the filter were wrong.
Untyped(f, d) ==
  /\ HasStatus(f.status, d)
  /\ FoundButForType(f, d)
  /\ f.type # Absent
  /\ d.type \notin DealTypes

\* Mutant: the status in the filter is left to HubSpot, which is not asked for it.
Passes_nostatus(f, d) == Found(f, d)

\* apply_deal_filter checks every condition again, whichever way the deals were
\* read; the status is checked only there.
Passes(f, d) == HasStatus(f.status, d) /\ Found(f, d)

\* The sort key of a deal, Absent when it has none: such deals come last.
SortKey(f, d) == IF f.sort.property = "amount" THEN d.amount ELSE d.close

\* d is sorted before e.
Sorted(f, d, e) ==
  LET k == SortKey(f, d)
      l == SortKey(f, e) IN
  /\ f.sort # Absent
  /\ IsNumber(k)
  /\ IsNumber(l) => IF f.sort.direction = "desc" THEN k > l ELSE k < l

-----------------------------------------------------------------------------
(* The follow-up review: _review_deals_for_follow_up. *)

\* The stage is one of the deal's own pipeline, and says that the deal is open.
SurelyOpen(d) == Open(d) /\ StagePipeline[d.stage] = d.pipeline

\* Days of inactivity that make a deal due.
Due(d) == SurelyOpen(d) /\ d.idle # Absent /\ d.idle > 2

\* The order of the review; deals equally long inactive are in the order of ids.
MoreUrgent(d, e) == d.idle > e.idle

-----------------------------------------------------------------------------
(* Leads: score_lead, classify_priority. *)

LifecyclePoints(c) ==
  CASE c.lifecycle \in {"opportunity", "salesqualifiedlead"} -> 25
    [] c.lifecycle = "marketingqualifiedlead" -> 20
    [] c.lifecycle = "lead" -> 10
    [] c.lifecycle \in {"subscriber", "customer", "evangelist"} -> 3
    [] OTHER -> 0

StatusPoints(c) ==
  CASE c.status \in {"OPEN_DEAL", "CONNECTED"} -> 15
    [] c.status = "IN_PROGRESS" -> 12
    [] c.status \in {"OPEN", "ATTEMPTED_TO_CONTACT"} -> 8
    [] c.status = "NEW" -> 5
    [] c.status = "BAD_TIMING" -> 2
    [] OTHER -> 0

TitlePoints(c) ==
  CASE c.title = "senior" -> 25
    [] c.title = "manager" -> 15
    [] c.title = Absent -> 0
    [] OTHER -> 8

ActivityPoints(c) ==
  CASE c.idle = Absent -> 0
    [] c.idle \in 0 .. 30 -> 15
    [] c.idle \in 31 .. 90 -> 8
    [] OTHER -> 3

\* The company has an industry, and a number of employees.
CompanyPoints(c) ==
  IF c.company = Absent THEN 0
  ELSE 5 + (IF c.company.industry THEN 3 ELSE 0)
         + (CASE c.company.employees = Absent -> 0
              [] c.company.employees >= 50 -> 7
              [] OTHER -> 3)

Score(c) ==
  TitlePoints(c) + LifecyclePoints(c) + StatusPoints(c) + ActivityPoints(c)
    + CompanyPoints(c) + (IF c.email THEN 5 ELSE 0)

Priority(c) ==
  IF c.status = "UNQUALIFIED" \/ Score(c) < 35 THEN "Low"
  ELSE IF Score(c) >= 60 THEN "High"
  ELSE "Medium"

=============================================================================
