----------------------------- MODULE MCCrmReads -----------------------------
(***************************************************************************)
(* Two pipelines of two stages, three records of each type, and a question *)
(* of each kind, with and without filters.                                 *)
(***************************************************************************)
EXTENDS CrmReads, TLC

CONSTANTS sales, renewals, new, won, lost, odd, ann

MCStagePipeline == (new :> sales) @@ (won :> sales) @@ (lost :> renewals) @@ (odd :> renewals)
\* Two pipelines have a stage of the same name, and one does not say what it is.
MCStageLabel == (new :> "Open") @@ (won :> "Won") @@ (lost :> "Lost") @@ (odd :> "Open")
MCIsClosed == (new :> "false") @@ (won :> "true") @@ (lost :> "true") @@ (odd :> "")
MCIsClosedWon == (new :> Absent) @@ (won :> Absent) @@ (lost :> "false") @@ (odd :> Absent)
MCStageChance == (new :> 20) @@ (won :> 100) @@ (lost :> 0) @@ (odd :> Absent)
MCPipelineLabel == (sales :> "Sales") @@ (renewals :> "Renewals")

Deal(stage, amount, idle, owner, of) ==
  [stage |-> stage, pipeline |-> MCStagePipeline[stage], priority |-> Absent,
   type |-> Absent, owner |-> owner, amount |-> amount, close |-> Absent, idle |-> idle, of |-> of]

MCDeals ==
  (1 :> {[Deal(new, 20, 9, Absent, {1}) EXCEPT !.type = "newbusiness"],
         Deal(won, 20, 9, ann, {1})})
    @@ (2 :> {Deal(new, 30, 20, ann, {1}), Deal(won, Invalid, 20, ann, {2})})
    @@ (3 :> {Deal(new, 10, 9, Absent, {1}), Deal(odd, Absent, Absent, Absent, {})})

Contact(title, status, company, of) ==
  [title |-> title, status |-> status, lifecycle |-> "lead", idle |-> 10,
   company |-> company, email |-> TRUE, words |-> {title}, of |-> of]
Firm == [industry |-> TRUE, employees |-> 60]

MCContacts ==
  (1 :> {Contact("manager", "NEW", Firm, {1}), Contact(Absent, "NEW", Absent, {})})
    @@ (2 :> {Contact("senior", "UNQUALIFIED", Firm, {1})})
    @@ (3 :> {Contact("senior", "CONNECTED", Absent, {2})})

MCRecordsOf ==
  [deals |-> MCDeals, contacts |-> MCContacts,
   companies |-> (1 :> {[name |-> 1]}) @@ (2 :> {}) @@ (3 :> {[name |-> 3]})]

Question(kind) == [kind |-> kind, filter |-> Absent, record |-> 1, text |-> "senior"]

NoFilter ==
  [unsupported |-> FALSE, conditions |-> {}, stages |-> {}, status |-> Absent,
   priority |-> Absent, type |-> Absent, owner |-> Absent, pipeline |-> Absent,
   unassigned |-> FALSE, sort |-> Absent, limit |-> Absent]

With(kind, filter) == [Question(kind) EXCEPT !.filter = filter]
Over(x) == [property |-> "amount", operator |-> "gt", value |-> x, upper |-> Absent]
Richest == [property |-> "amount", direction |-> "desc"]

MCQuestions ==
  {Question(kind) :
     kind \in {"closed_deals", "deal_follow_up", "deal_analysis",
               "lead_qualification", "account_summary", "company_list", "contact_search",
               "contact_deals", "company_deals", "deal_details"}}
  \cup {With("open_deals", [NoFilter EXCEPT !.sort = Richest, !.limit = 2]),
        With("open_deals", [NoFilter EXCEPT !.conditions = {Over(15)}]),
        With("all_deals", [NoFilter EXCEPT !.unassigned = TRUE, !.status = "open"]),
        With("all_deals", [NoFilter EXCEPT !.unsupported = TRUE]),
        With("all_deals", [NoFilter EXCEPT !.type = "newbusiness"]),
        With("closed_won_revenue", [NoFilter EXCEPT !.conditions = {Over(25)}]),
        With("all_deals", [NoFilter EXCEPT !.conditions = {Over(Invalid)}]),
        With("all_deals", [NoFilter EXCEPT !.stages = {"Won"}]),
        With("all_deals", [NoFilter EXCEPT !.stages = {"Open"}]),
        With("all_deals", [NoFilter EXCEPT !.conditions = {Over(x) : x \in 1 .. 7}])}
=============================================================================
