--------------------------- MODULE AgentMutations ---------------------------
(***************************************************************************)
(* The agent's CRM mutations: every request that AccountIntelligenceAgent  *)
(* and CRMOperations serve, from its claim to its reply, with the HubSpot  *)
(* writes it makes and the ActionSafety transactions around them.  Between *)
(* two steps of one request any other request may step, an HTTP answer may *)
(* be lost, the database may fail, and the process may die.                *)
(***************************************************************************)
EXTENDS ActionSafety

CONSTANTS
  Requests,       \* deliveries: two may carry the same source message
  ProposalTypes,  \* the confirmed action types that occur
  MaxWrites,      \* the most records and links one crm_plan writes
  NoAction

ASSUME RequestsAssumption ==
  /\ ProposalTypes \subseteq ContactChanges \cup RecordChanges
  /\ MaxWrites \in Nat \ {0}
  /\ NoAction \notin ActionIds

VARIABLES
  (* requests *)
  pc,       \* where the handler of a request is
  who,      \* the request's tenant_id and actor_id
  act,      \* the action it claimed, proposed or named
  written,  \* the CRM writes of its action that HubSpot acknowledged (plan.written)
  reply,    \* AgentResponse.status
  (* HubSpot, and what a claimed action set out to do *)
  planned,  \* the number of CRM writes the action consists of
  applied   \* the number of CRM writes HubSpot carried out for the action

requestVars == <<pc, who, act, written, reply>>
crmVars == <<planned, applied>>
vars == <<now, status, owner, type, expires, confirmed_at, idem, audit,
          pc, who, act, written, reply, planned, applied>>

Live == {"preparing", "writing", "plan_url", "recording", "answering", "failing"}
Places == {"idle", "done", "lost"} \cup Live

\* "unavailable" stands for every reply that says the change was not made.
Replies == {"none", "ok", "already_exists", "partial", "unavailable",
            "duplicate_request", "invalid_confirmation", "pending_confirmation"}

TypeOK ==
  /\ TablesTypeOK
  /\ pc \in [Requests -> Places]
  /\ who \in [Requests -> Senders \cup {NoSender}]
  /\ act \in [Requests -> ActionIds \cup {NoAction}]
  /\ written \in [Requests -> 0 .. MaxWrites]
  /\ reply \in [Requests -> Replies]
  /\ planned \in [ActionIds -> 0 .. MaxWrites]
  /\ applied \in [ActionIds -> Nat]

Init ==
  /\ TablesInit
  /\ pc = [r \in Requests |-> "idle"]
  /\ who = [r \in Requests |-> NoSender]
  /\ act = [r \in Requests |-> NoAction]
  /\ written = [r \in Requests |-> 0]
  /\ reply = [r \in Requests |-> "none"]
  /\ planned = [a \in ActionIds |-> 0]
  /\ applied = [a \in ActionIds |-> 0]

-----------------------------------------------------------------------------
(* How a request moves. *)

Goto(r, place) == pc' = [pc EXCEPT ![r] = place]

Answer(r, text) ==
  /\ Goto(r, "done")
  /\ reply' = [reply EXCEPT ![r] = text]

\* An exception leaves the handler: nobody is answered.
Raise(r) == Goto(r, "lost") /\ UNCHANGED reply

\* The request is s's and is about action a.
Bind(r, s, a) ==
  /\ pc[r] = "idle"
  /\ who' = [who EXCEPT ![r] = s]
  /\ act' = [act EXCEPT ![r] = a]

Untouched == UNCHANGED <<now, who, act>>

\* Only the direct flows survive a complete_action that raised.
SwallowsCompletionErrors(t) == t \in DirectTypes

-----------------------------------------------------------------------------
(* The first transaction of a request. *)

\* A create is claimed under the id that its source message and its type give.
StartDirect(r, m, t) ==
  LET a == DirectId(t, m) IN
  /\ Bind(r, SenderOf[m], a)
  /\ StartDirectAction(a, SenderOf[m], t)
  /\ Goto(r, "preparing")
  /\ UNCHANGED <<now, written, reply, planned, applied>>

\* The claim is lost: the message was delivered before.
StartDuplicate(r, m, t) ==
  LET a == DirectId(t, m) IN
  /\ Bind(r, SenderOf[m], a)
  /\ ~Claimable(a)
  /\ Answer(r, "duplicate_request")
  /\ UNCHANGED <<now, written, planned, applied, tableVars>>

\* An update or a delete is only proposed.
Propose(r, s, t, a) ==
  /\ Bind(r, s, a)
  /\ CreatePendingAction(a, s, t)
  /\ Answer(r, "pending_confirmation")
  /\ UNCHANGED <<now, written, planned, applied>>

\* When a confirmation of action a may have read the clock: at any time since the
\* action was proposed.  Its handler has been at the database from then on.
Since(a) == {at \in 0 .. now : expires[a] <= at + TTL}

\* "confirm <id>" from anybody who has the id.
Confirm(r, s, a) ==
  /\ Bind(r, s, a)
  /\ \E at \in Since(a) : ConfirmAndClaimAction(a, s, at)
  /\ planned' = [planned EXCEPT ![a] = 1]
  /\ Goto(r, "writing")
  /\ UNCHANGED <<now, written, reply, applied>>

RejectConfirmation(r, s, a) ==
  /\ Bind(r, s, a)
  /\ \E at \in Since(a) : ~(Confirmable(a, s, at) /\ Claimable(a))
  /\ Answer(r, "invalid_confirmation")
  /\ UNCHANGED <<now, written, planned, applied, tableVars>>

-----------------------------------------------------------------------------
(* Preparing and writing. *)

PlanSizes(t) == IF t = "crm_plan" THEN 0 .. MaxWrites ELSE {1}

\* Every record is resolved before anything is written.  A plan whose records
\* all exist and need no link has nothing to write.
Prepare(r) ==
  LET a == act[r] IN
  /\ pc[r] = "preparing"
  /\ \E n \in PlanSizes(type[a]) :
       /\ planned' = [planned EXCEPT ![a] = n]
       /\ Goto(r, IF n = 0 THEN "recording" ELSE "writing")
  /\ Untouched
  /\ UNCHANGED <<written, reply, applied, tableVars>>

PrepareFails(r) ==
  /\ pc[r] = "preparing"
  /\ Goto(r, "failing")
  /\ Untouched
  /\ UNCHANGED <<written, reply, crmVars, tableVars>>

\* Mutant: one write is taken for the whole plan.
AfterWrites_early(r, n) == "recording"

AfterWrites(r, n) == IF n = planned[act[r]] THEN "recording" ELSE "writing"

\* Mutant: a plan does not notice that it has no step left.
WriteAcknowledged_forgotten(r) ==
  LET a == act[r] IN
  /\ pc[r] = "writing"
  /\ applied' = [applied EXCEPT ![a] = @ + 1]
  /\ written' = [written EXCEPT ![r] = @ + 1]
  /\ Goto(r, IF type[a] = "crm_plan" THEN "writing" ELSE "recording")
  /\ Untouched
  /\ UNCHANGED <<reply, planned, tableVars>>

\* HubSpot wrote and answered.  A plan looks up the URL of a record it created.
WriteAcknowledged(r) ==
  LET a == act[r] IN
  /\ pc[r] = "writing"
  /\ applied' = [applied EXCEPT ![a] = @ + 1]
  /\ written' = [written EXCEPT ![r] = @ + 1]
  /\ \E created \in BOOLEAN :
       Goto(r, IF type[a] = "crm_plan" /\ created
               THEN "plan_url" ELSE AfterWrites(r, written[r] + 1))
  /\ Untouched
  /\ UNCHANGED <<reply, planned, tableVars>>

\* Mutant: a write that timed out is sent again.
WriteUnacknowledged_retried(r) ==
  LET a == act[r] IN
  /\ pc[r] = "writing"
  /\ applied' = [applied EXCEPT ![a] = @ + 1]
  /\ Untouched
  /\ UNCHANGED <<pc, written, reply, planned, tableVars>>

\* HubSpot wrote, and the answer was lost or unusable: an IntegrationError.
WriteUnacknowledged(r) ==
  LET a == act[r] IN
  /\ pc[r] = "writing"
  /\ applied' = [applied EXCEPT ![a] = @ + 1]
  /\ Goto(r, "failing")
  /\ Untouched
  /\ UNCHANGED <<written, reply, planned, tableVars>>

\* HubSpot did not write: an IntegrationError, or a ValueError where it is caught.
WriteRefused(r) ==
  /\ pc[r] = "writing"
  /\ Goto(r, "failing")
  /\ Untouched
  /\ UNCHANGED <<written, reply, crmVars, tableVars>>

\* No HubSpot connection: the contact changes do not catch the ValueError.
WriteNotConnected(r) ==
  /\ pc[r] = "writing"
  /\ type[act[r]] \in ContactChanges
  /\ Raise(r)
  /\ Untouched
  /\ UNCHANGED <<written, crmVars, tableVars>>

PlanUrlFound(r) ==
  /\ pc[r] = "plan_url"
  /\ Goto(r, AfterWrites(r, written[r]))
  /\ Untouched
  /\ UNCHANGED <<written, reply, crmVars, tableVars>>

\* The URL lookup is inside the try block of the plan's writes.
PlanUrlFails(r) ==
  /\ pc[r] = "plan_url"
  /\ Goto(r, "failing")
  /\ Untouched
  /\ UNCHANGED <<written, reply, crmVars, tableVars>>

-----------------------------------------------------------------------------
(* Recording the outcome and answering. *)

\* A plan that wrote something has its URLs already; every other reply needs one.
AfterCompletion(r) ==
  IF type[act[r]] = "crm_plan" /\ planned[act[r]] > 0
  THEN Answer(r, "ok")
  ELSE Goto(r, "answering") /\ UNCHANGED reply

Complete(r) ==
  LET a == act[r] IN
  /\ pc[r] = "recording"
  /\ CompleteAction(a, who[r])
  /\ IF Updatable(a, who[r]) \/ SwallowsCompletionErrors(type[a])
     THEN AfterCompletion(r)
     ELSE Raise(r)
  /\ Untouched
  /\ UNCHANGED <<written, crmVars>>

\* The transaction of complete_action is not committed.
CompleteRaises(r) ==
  /\ pc[r] = "recording"
  /\ IF SwallowsCompletionErrors(type[act[r]])
     THEN AfterCompletion(r)
     ELSE Raise(r)
  /\ Untouched
  /\ UNCHANGED <<written, crmVars, tableVars>>

UrlFound(r) ==
  /\ pc[r] = "answering"
  /\ Answer(r, IF planned[act[r]] = 0 THEN "already_exists" ELSE "ok")
  /\ Untouched
  /\ UNCHANGED <<written, crmVars, tableVars>>

\* The contact changes look up the URL inside the try block of the write, and
\* answer an IntegrationError with fail_action.
UrlFails(r) ==
  /\ pc[r] = "answering"
  /\ type[act[r]] \in ContactChanges
  /\ Goto(r, "failing")
  /\ Untouched
  /\ UNCHANGED <<written, reply, crmVars, tableVars>>

\* Anywhere else, and for a ValueError, the exception leaves the handler.
UrlRaises(r) ==
  /\ pc[r] = "answering"
  /\ Raise(r)
  /\ Untouched
  /\ UNCHANGED <<written, crmVars, tableVars>>

\* Mutant: what a plan has written already is forgotten.
Fail_nopartial(r) ==
  /\ pc[r] = "failing"
  /\ FailAction(act[r], who[r])
  /\ Answer(r, "unavailable")
  /\ Untouched
  /\ UNCHANGED <<written, crmVars>>

\* Mutant: the failure is told and not recorded.
Fail_unrecorded(r) ==
  /\ pc[r] = "failing"
  /\ Answer(r, "unavailable")
  /\ Untouched
  /\ UNCHANGED <<written, crmVars, tableVars>>

\* Mutant: an action that wrote nothing is prepared again, for ever.
Fail_restarted(r) ==
  /\ pc[r] = "failing"
  /\ IF applied[act[r]] = 0
     THEN Goto(r, "preparing") /\ UNCHANGED <<reply, tableVars>>
     ELSE FailAction(act[r], who[r]) /\ Answer(r, "unavailable")
  /\ Untouched
  /\ UNCHANGED <<written, crmVars>>

\* Some writes of a plan were acknowledged: it is partial.  Otherwise it failed.
Fail(r) ==
  LET a == act[r] IN
  /\ pc[r] = "failing"
  /\ IF type[a] = "crm_plan" /\ written[r] > 0
     THEN RecordPartialAction(a, who[r]) /\ Answer(r, "partial")
     ELSE FailAction(a, who[r]) /\ Answer(r, "unavailable")
  /\ Untouched
  /\ UNCHANGED <<written, crmVars>>

FailRaises(r) ==
  /\ pc[r] = "failing"
  /\ Raise(r)
  /\ Untouched
  /\ UNCHANGED <<written, crmVars, tableVars>>

\* The process dies: every request in memory is gone, the tables remain.
Crash ==
  /\ \E r \in Requests : pc[r] \in Live
  /\ pc' = [r \in Requests |-> IF pc[r] \in Live THEN "lost" ELSE pc[r]]
  /\ Untouched
  /\ UNCHANGED <<written, reply, crmVars, tableVars>>

Clock == Tick /\ UNCHANGED <<requestVars, crmVars>>

-----------------------------------------------------------------------------
Arrive(r) ==
  \/ \E m \in Messages, t \in DirectTypes : StartDirect(r, m, t)
  \/ \E m \in Messages, t \in DirectTypes : StartDuplicate(r, m, t)
  \/ \E s \in Senders, t \in ProposalTypes, a \in ProposalIds : Propose(r, s, t, a)
  \/ \E s \in Senders, a \in ProposalIds : Confirm(r, s, a)
  \/ \E s \in Senders, a \in ProposalIds : RejectConfirmation(r, s, a)

Continue(r) ==
  \/ Prepare(r)
  \/ PrepareFails(r)
  \/ WriteAcknowledged(r)
  \/ WriteUnacknowledged(r)
  \/ WriteRefused(r)
  \/ WriteNotConnected(r)
  \/ PlanUrlFound(r)
  \/ PlanUrlFails(r)
  \/ Complete(r)
  \/ CompleteRaises(r)
  \/ UrlFound(r)
  \/ UrlFails(r)
  \/ UrlRaises(r)
  \/ Fail(r)
  \/ FailRaises(r)

Next ==
  \/ \E r \in Requests : Arrive(r) \/ Continue(r)
  \/ Crash
  \/ Clock

Spec == Init /\ [][Next]_vars

\* Every await of a handler ends: the HTTP clients have timeouts, and the event
\* loop runs whatever is ready.
FairSpec == Spec /\ \A r \in Requests : WF_vars(Continue(r))

-----------------------------------------------------------------------------
(* Safety. *)

Kind(a) == type[a]
Executing(r, a) == pc[r] \in Live /\ act[r] = a

\* No action is executed by two requests at a time, however often its message
\* is delivered or its confirmation is sent: the claim in start_direct_action
\* and confirm_and_claim_action excludes it.
OneExecutor ==
  \A r, q \in Requests, a \in ActionIds :
    Executing(r, a) /\ Executing(q, a) => r = q

\* The request got the claim of its action, and may be gone by now.
TookOn(r) ==
  /\ pc[r] # "idle"
  /\ reply[r] \notin {"duplicate_request", "invalid_confirmation", "pending_confirmation"}

\* An action is taken on by one request in its whole life: what a crash, a lost
\* answer or a failed transaction left behind, no redelivery and no further
\* confirmation resumes.  The claim outlives the process that won it.
ClaimedOnce ==
  \A r, q \in Requests : TookOn(r) /\ TookOn(q) /\ act[r] = act[q] => r = q

\* HubSpot is changed at most as often as the action planned, over the whole
\* life of the action: redeliveries, repeated confirmations, lost answers,
\* crashes and database failures never write a record a second time.
AppliedAtMostOnce ==
  \A a \in ActionIds : applied[a] <= planned[a]

\* An update or delete reaches HubSpot only if the person it was offered to
\* confirmed it before it expired (PendingActionRepository.confirm), and is
\* carried out by that person's request.
ExecutionIsAuthorised ==
  /\ \A a \in ProposalIds : applied[a] > 0 =>
       /\ status[a] \notin Unclaimed
       /\ confirmed_at[a] < expires[a]
  /\ \A r \in Requests : pc[r] \in Live => who[r] = owner[act[r]]

\* The three tables tell one story about an action.  A contact change whose URL
\* lookup failed after it was completed is the exception: fail_action then
\* overwrites the idempotency row and appends a second outcome.
Story(a, i, success, failure, partial) ==
  /\ idem[a] = i
  /\ audit[a]["success"] = success
  /\ audit[a]["failure"] = failure
  /\ audit[a]["partial"] = partial

TablesAgree(a) ==
  /\ status[a] \in Unclaimed => Story(a, "none", 0, 0, 0)
  /\ status[a] = "confirmed" => Story(a, "in_progress", 0, 0, 0)
  /\ status[a] = "completed" =>
       \/ Story(a, "succeeded", 1, 0, 0)
       \/ Kind(a) \in ContactChanges /\ Story(a, "failed", 1, 1, 0)
  /\ status[a] = "failed" => Story(a, "failed", 0, 1, 0)
  /\ status[a] = "reconciliation_required" => Story(a, "partial", 0, 0, 1)

LedgerAgrees == \A a \in ActionIds : TablesAgree(a)

\* The recorded outcome tells what happened in HubSpot: a completed action wrote
\* everything it planned, one that needs reconciliation wrote something, and a
\* failed one wrote nothing but, at most, the one write whose answer was lost.
WritesAgree(a) ==
  /\ status[a] \in Unclaimed => applied[a] = 0
  /\ status[a] = "completed" => applied[a] = planned[a]
  /\ status[a] = "reconciliation_required" => applied[a] > 0
  /\ status[a] = "failed" => applied[a] <= 1

OutcomeTellsWrites == \A a \in ActionIds : WritesAgree(a)

\* The reply tells the user what happened in HubSpot: "ok" only when everything
\* planned was written, "already_exists" only when nothing was to be written,
\* "partial" only when something was.
ReplyIsTrue(r) ==
  LET a == act[r] IN
  /\ reply[r] = "ok" => applied[a] = planned[a] /\ applied[a] > 0
  /\ reply[r] = "already_exists" => applied[a] = 0
  /\ reply[r] = "partial" => status[a] = "reconciliation_required"
  /\ reply[r] = "duplicate_request" => status[a] \notin Unclaimed

ReplyTellsWrites == \A r \in Requests : pc[r] = "done" => ReplyIsTrue(r)

\* An action does not stay claimed behind a reply that ends it: its handler runs,
\* or is gone, or completed it and could not record so (the direct flows then
\* answer all the same).  No flow says "unavailable" or "partial", or answers a
\* confirmed change, and leaves the row of the action "confirmed".
GivenUp(a) ==
  \E r \in Requests : act[r] = a /\
    \/ pc[r] = "lost"
    \/ pc[r] = "done" /\ reply[r] \in {"ok", "already_exists"} /\ Kind(a) \in DirectTypes

ClaimHasHandler ==
  \A a \in ActionIds :
    status[a] = "confirmed" => GivenUp(a) \/ \E r \in Requests : Executing(r, a)

\* A claimed action is never unclaimed and a settled one keeps its status: what
\* PendingActionRepository.set_status refuses to touch stays as it was.
SettledIsFinal ==
  [][\A a \in ActionIds :
       /\ status[a] \in Settled => status'[a] = status[a]
       /\ status[a] \notin Unclaimed => status'[a] \notin Unclaimed
       /\ idem[a] # "none" => idem'[a] # "none"]_vars

\* The abstract promise, under the refinement mapping of an action's status.
Phase(a) ==
  CASE status[a] = "none" -> "absent"
    [] status[a] = "pending" -> "offered"
    [] status[a] = "confirmed" -> "taken"
    [] OTHER -> "settled"

Phases == [a \in ActionIds |-> Phase(a)]

Once == INSTANCE OnceOnly WITH
  Ids <- ActionIds,
  phase <- Phases,
  allowance <- planned,
  effects <- applied

\* The bookkeeping and the agent's flows implement OnceOnly: an action is taken
\* once, writes only while it is taken, and is settled at most once.
ImplementsOnceOnly == Once!OnceSpec

\* The request carries out a crm_plan that it claimed.
IsPlan(r) == TookOn(r) /\ Kind(act[r]) = "crm_plan"

PlanStage(r) ==
  IF ~IsPlan(r) THEN "absent"
  ELSE CASE pc[r] = "done" -> "answered"
         [] pc[r] = "lost" -> "gone"
         [] pc[r] = "preparing" -> "deciding"
         [] pc[r] = "failing" -> IF planned[act[r]] = 0 THEN "deciding" ELSE "writing"
         [] OTHER -> "writing"

PlanAnswer(r) ==
  IF ~IsPlan(r) THEN "none"
  ELSE CASE reply[r] = "already_exists" -> "existing"
         [] reply[r] = "unavailable" -> "failed"
         [] OTHER -> reply[r]

\* The first n steps of r's plan; other requests have none.
StepsUpTo(r, n) == IF IsPlan(r) THEN 1 .. n ELSE {}

PlanStages == [r \in Requests |-> PlanStage(r)]
PlanDecided == [r \in Requests |-> StepsUpTo(r, planned[act[r]])]
PlanCarried == [r \in Requests |-> StepsUpTo(r, applied[act[r]])]
PlanKnown == [r \in Requests |-> StepsUpTo(r, written[r])]
PlanAnswers == [r \in Requests |-> PlanAnswer(r)]

Run == INSTANCE PlanRun WITH
  Runs <- Requests,
  Steps <- 1 .. MaxWrites,
  stage <- PlanStages,
  plan <- PlanDecided,
  carried <- PlanCarried,
  known <- PlanKnown,
  answer <- PlanAnswers

\* The requests that carry out a crm_plan implement PlanRun: all records are
\* resolved before the first is written, nothing is written after a write whose
\* outcome is unknown, and the reply tells how far the plan came, whatever other
\* deliveries, confirmations and crashes come between.
ImplementsPlanRun == Run!RunSpec

-----------------------------------------------------------------------------
(* The inductive invariant behind the safety properties: what holds of an     *)
(* action whatever its requests do, and of a request at each of its places.   *)

ActionInv(a) ==
  /\ TablesAgree(a)
  /\ WritesAgree(a)
  /\ status[a] # "none" => owner[a] \in Senders /\ type[a] \in ActionTypes
  /\ status[a] = "pending" => a \in ProposalIds
  /\ a \in ProposalIds /\ status[a] # "none" => type[a] \notin DirectTypes
  /\ status[a] \in Unclaimed => planned[a] = 0
  /\ type[a] # "crm_plan" => planned[a] <= 1
  /\ a \in ProposalIds /\ status[a] \notin Unclaimed => confirmed_at[a] < expires[a]
  /\ applied[a] <= planned[a]

RequestInv(r) ==
  LET a == act[r]
      w == written[r]
  IN
  /\ pc[r] = "idle" => w = 0
  /\ pc[r] \in Live =>
       /\ a \in ActionIds
       /\ who[r] = owner[a]
       /\ status[a] \notin Unclaimed
  /\ pc[r] \in {"preparing", "writing", "plan_url", "recording"} => status[a] = "confirmed"
  /\ pc[r] = "preparing" => planned[a] = 0 /\ w = 0 /\ type[a] \in DirectTypes
  /\ pc[r] = "writing" => applied[a] = w /\ w < planned[a]
  /\ pc[r] = "plan_url" => applied[a] = w /\ w <= planned[a] /\ type[a] = "crm_plan" /\ w > 0
  /\ pc[r] = "recording" => applied[a] = w /\ w = planned[a]
  /\ pc[r] = "answering" =>
       /\ applied[a] = planned[a] /\ w = planned[a]
       /\ status[a] = "confirmed" => type[a] \in DirectTypes
       /\ status[a] # "confirmed" => status[a] = "completed" /\ idem[a] = "succeeded"
  /\ pc[r] = "failing" =>
       \/ status[a] = "confirmed" /\ w <= applied[a] /\ applied[a] <= w + 1
       \/ /\ status[a] = "completed"
          /\ idem[a] = "succeeded"
          /\ type[a] \in ContactChanges

IndInv ==
  /\ TypeOK
  /\ OneExecutor
  /\ \A a \in ActionIds : ActionInv(a)
  /\ \A r \in Requests : RequestInv(r)

\* What a request knows of its claim, and keeps to after its reply: the action it
\* is about stays claimed, and what was said of it stays true.
RepliedInv(r) ==
  /\ pc[r] = "idle" \/ pc[r] \in Live => reply[r] = "none"
  /\ TookOn(r) \/ reply[r] = "duplicate_request" =>
       act[r] \in ActionIds /\ status[act[r]] \notin Unclaimed
  /\ pc[r] = "done" => ReplyIsTrue(r)

ClaimInv ==
  /\ ClaimedOnce
  /\ \A r \in Requests : RepliedInv(r)
  /\ ClaimHasHandler

-----------------------------------------------------------------------------
(* Liveness, under FairSpec. *)

\* Every request whose handler started is answered, or its handler is gone.
RequestsEnd ==
  \A r \in Requests : pc[r] \in Live ~> pc[r] \in {"done", "lost"}

\* A claimed action is settled, unless it was given up.
ClaimsSettle ==
  \A a \in ActionIds :
    status[a] = "confirmed" ~> status[a] \in Settled \/ GivenUp(a)

\* The steps r's handler may still take: two for a write and the URL of what it
\* made, and those that resolve, record, look up the URL of the reply, and fail.
StepsLeft(r) ==
  LET writes == planned[act[r]] - written[r] IN
  CASE pc[r] = "idle" -> 5 + 2 * MaxWrites
    [] pc[r] = "preparing" -> 4 + 2 * MaxWrites
    [] pc[r] = "plan_url" -> 4 + 2 * writes
    [] pc[r] = "writing" -> 3 + 2 * writes
    [] pc[r] = "recording" -> 3
    [] pc[r] = "answering" -> 2
    [] pc[r] = "failing" -> 1
    [] OTHER -> 0

\* The safety half of RequestsEnd: a handler never goes round in a circle.  Each
\* of its steps leaves it fewer, nothing anybody else does gives it more, and so
\* no retry, lookup or failure makes a request last longer than its plan.
HandlersAdvance ==
  [][\A r \in Requests :
       /\ StepsLeft(r) \in 0 .. 5 + 2 * MaxWrites
       /\ StepsLeft(r)' <= StepsLeft(r)
       /\ Continue(r) => StepsLeft(r)' < StepsLeft(r)]_vars

-----------------------------------------------------------------------------
(* What the code says of itself and does not do; each is refuted by a run. *)

\* A reply that says the change was not made is not sent for a contact change
\* that HubSpot acknowledged (src/src/app/agent/service.py:334, :592).
UnavailableMeansNotWritten ==
  \A r \in Requests :
    pc[r] = "done" /\ reply[r] = "unavailable" /\ Kind(act[r]) \in ContactChanges
      => written[r] = 0

\* Where a redelivery is dropped as a duplicate, the first delivery replied or
\* is still to reply (src/src/app/api/slack.py:127).
DuplicateWasAnswered ==
  \A r \in Requests : pc[r] = "done" /\ reply[r] = "duplicate_request" =>
    \E q \in Requests \ {r} :
      /\ act[q] = act[r]
      /\ pc[q] \in Live \/ (pc[q] = "done" /\ reply[q] # "duplicate_request")
=============================================================================
