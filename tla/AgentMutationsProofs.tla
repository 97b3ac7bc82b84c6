------------------------ MODULE AgentMutationsProofs ------------------------
(***************************************************************************)
(* IndInv is an inductive invariant of AgentMutations, for any number of   *)
(* requests, messages, proposals and senders, any plan size and any clock. *)
(* The safety properties follow from it.                                   *)
(*                                                                         *)
(* The argument: a step of request r about action a leaves every other     *)
(* request and action alone, and no other request executes a.  So it is    *)
(* enough to look at r and a (StepIsLocal); the rest is one lemma a step.  *)
(***************************************************************************)
EXTENDS AgentMutations, TLAPS

\* Nothing but action a and request r changes.
TouchesOnly(r, a) ==
  /\ \A b \in ActionIds \ {a} :
       /\ status'[b] = status[b]
       /\ owner'[b] = owner[b]
       /\ type'[b] = type[b]
       /\ expires'[b] = expires[b]
       /\ confirmed_at'[b] = confirmed_at[b]
       /\ idem'[b] = idem[b]
       /\ audit'[b] = audit[b]
       /\ planned'[b] = planned[b]
       /\ applied'[b] = applied[b]
  /\ \A q \in Requests \ {r} :
       /\ pc'[q] = pc[q]
       /\ who'[q] = who[q]
       /\ act'[q] = act[q]
       /\ written'[q] = written[q]

\* No request but r executes a.
Alone(r, a) == \A q \in Requests \ {r} : ~Executing(q, a)

\* LEMMA: a step that touches only r and a keeps the invariant if it keeps it
\* of r and a; what any other request or action satisfies is undisturbed.
LEMMA StepIsLocal ==
  ASSUME IndInv, NEW r \in Requests, NEW a \in ActionIds,
         TouchesOnly(r, a), Alone(r, a),
         TypeOK', ActionInv(a)', RequestInv(r)',
         pc'[r] \in Live => act'[r] = a
  PROVE  IndInv'
<1>1. ASSUME NEW b \in ActionIds
      PROVE  ActionInv(b)'
  <2>1. CASE b = a
    BY <2>1
  <2>2. CASE b # a
    BY <2>2 DEF IndInv, TouchesOnly, ActionInv, TablesAgree, WritesAgree, Story, Kind
  <2> QED BY <2>1, <2>2
<1>2. ASSUME NEW q \in Requests
      PROVE  RequestInv(q)'
  <2>1. CASE q = r
    BY <2>1
  <2>2. CASE q # r /\ pc[q] \in Live
    <3>1. act[q] \in ActionIds /\ act[q] # a
      BY <2>2 DEF IndInv, RequestInv, Alone, Executing
    <3> QED
      BY <2>2, <3>1 DEF IndInv, TouchesOnly, RequestInv, Live
  <2>3. CASE q # r /\ pc[q] \notin Live
    BY <2>3 DEF IndInv, TouchesOnly, RequestInv, Live
  <2> QED BY <2>1, <2>2, <2>3
<1>3. OneExecutor'
  BY DEF IndInv, OneExecutor, Executing, TouchesOnly, Alone
<1> QED
  BY <1>1, <1>2, <1>3 DEF IndInv

\* LEMMA: a request that executes an action does so alone.
LEMMA ExecutorIsAlone ==
  ASSUME IndInv, NEW r \in Requests, pc[r] \in Live
  PROVE  act[r] \in ActionIds /\ Alone(r, act[r])
BY DEF IndInv, RequestInv, OneExecutor, Alone, Executing

\* LEMMA: nobody executes an action that was not claimed yet.
LEMMA UnclaimedIsAlone ==
  ASSUME IndInv, NEW r \in Requests, NEW a \in ActionIds, status[a] \in Unclaimed
  PROVE  Alone(r, a)
BY DEF IndInv, RequestInv, Alone, Executing

\* LEMMA: a transaction that settles an action keeps the tables well typed.
LEMMA SettlingIsTyped ==
  ASSUME TablesTypeOK, NEW a \in ActionIds, NEW s, NEW st \in Settled,
         NEW i \in IdemStatuses, NEW o \in Outcomes,
         SetStatus(a, s, st), CompleteKey(a, i), AppendAudit(a, o),
         UNCHANGED <<now, owner, type, expires, confirmed_at>>
  PROVE  TablesTypeOK'
<1>1. status' \in [ActionIds -> Statuses]
  BY DEF TablesTypeOK, SetStatus, Statuses
<1>2. idem' \in [ActionIds -> IdemStatuses]
  BY DEF TablesTypeOK, CompleteKey
<1>3. audit' \in [ActionIds -> [Outcomes -> Nat]]
  BY DEF TablesTypeOK, AppendAudit
<1> QED
  BY <1>1, <1>2, <1>3 DEF TablesTypeOK

-----------------------------------------------------------------------------
(* The steps of a handler that runs. *)

\* LEMMA: a handler that only moves on keeps the invariant, if it keeps its own
\* part of it: the tables, HubSpot and every other request are as they were.
LEMMA QuietStep ==
  ASSUME IndInv, NEW r \in Requests, pc[r] \in Live,
         NEW place \in Places, Goto(r, place), reply' \in [Requests -> Replies],
         RequestInv(r)', Untouched, UNCHANGED <<written, crmVars, tableVars>>
  PROVE  IndInv'
<1> DEFINE a == act[r]
<1> USE DEF Goto, Untouched, crmVars, tableVars
<1>1. a \in ActionIds /\ Alone(r, a)
  BY ExecutorIsAlone
<1>2. TypeOK'
  BY DEF IndInv, TypeOK, TablesTypeOK
<1>3. TouchesOnly(r, a)
  BY DEF IndInv, TypeOK, TouchesOnly
<1>4. ActionInv(a)'
  BY <1>1 DEF IndInv, ActionInv, TablesAgree, WritesAgree, Story, Kind
<1> QED
  BY <1>1, <1>2, <1>3, <1>4, StepIsLocal

\* LEMMA: Prepare keeps the invariant: nothing was written yet, so any plan size
\* agrees.
LEMMA PrepareStep ==
  ASSUME IndInv, NEW r \in Requests, Prepare(r)
  PROVE  IndInv'
<1> DEFINE a == act[r]
<1> USE DEF Prepare, PlanSizes, Goto, Untouched, tableVars
<1>1. pc[r] \in Live /\ a \in ActionIds /\ Alone(r, a)
  BY ExecutorIsAlone DEF Live
<1>2. TypeOK'
  BY <1>1, RequestsAssumption DEF IndInv, TypeOK, TablesTypeOK, Live, Places, Replies,
     Statuses, Settled, Unclaimed, IdemStatuses, Outcomes, RequestInv
<1>3. TouchesOnly(r, a)
  BY <1>1 DEF IndInv, TypeOK, TablesTypeOK, TouchesOnly
<1>4. ActionInv(a)'
  BY <1>1, SendersAssumption DEF IndInv, TypeOK, TablesTypeOK, ActionInv, TablesAgree,
     WritesAgree, Story, Kind, RequestInv, Live, Outcomes, Unclaimed, ContactChanges,
     DirectTypes, RequestsAssumption, ActionTypes
<1>5. RequestInv(r)' /\ act'[r] = a
  BY <1>1 DEF IndInv, TypeOK, TablesTypeOK, RequestInv, ActionInv, TablesAgree, Story, Kind,
     Live, Places, Unclaimed, ContactChanges, DirectTypes
<1> QED
  BY <1>1, <1>2, <1>3, <1>4, <1>5, StepIsLocal

\* LEMMA: PrepareFails keeps the invariant: a record could not be resolved; the
\* action stays claimed, unwritten.
LEMMA PrepareFailsStep ==
  ASSUME IndInv, NEW r \in Requests, PrepareFails(r)
  PROVE  IndInv'
<1> USE DEF PrepareFails
<1>1. pc[r] \in Live
  BY DEF Live
<1>2. RequestInv(r)'
  BY <1>1 DEF IndInv, TypeOK, RequestInv, ActionInv, Live, Unclaimed, ContactChanges,
     DirectTypes, Goto, Untouched, crmVars, tableVars
<1>3. reply' \in [Requests -> Replies]
  BY DEF IndInv, TypeOK, Replies
<1> QED
  BY <1>1, <1>2, <1>3, QuietStep DEF Places, Live

\* LEMMA: an acknowledged write keeps applied and written equal, up to planned.
LEMMA WriteAcknowledgedStep ==
  ASSUME IndInv, NEW r \in Requests, WriteAcknowledged(r)
  PROVE  IndInv'
<1> DEFINE a == act[r]
<1> USE DEF WriteAcknowledged, AfterWrites, Goto, Untouched, tableVars
<1>1. pc[r] \in Live /\ a \in ActionIds /\ Alone(r, a)
  BY ExecutorIsAlone DEF Live
<1>2. TypeOK'
  BY <1>1, RequestsAssumption DEF IndInv, TypeOK, TablesTypeOK, Live, Places, Replies,
     Statuses, Settled, Unclaimed, IdemStatuses, Outcomes, RequestInv
<1>3. TouchesOnly(r, a)
  BY <1>1 DEF IndInv, TypeOK, TablesTypeOK, TouchesOnly
<1>4. ActionInv(a)'
  BY <1>1, SendersAssumption DEF IndInv, TypeOK, TablesTypeOK, ActionInv, TablesAgree,
     WritesAgree, Story, Kind, RequestInv, Live, Outcomes, Unclaimed, ContactChanges,
     DirectTypes, RequestsAssumption, ActionTypes
<1>5. RequestInv(r)' /\ act'[r] = a
  <2>1. /\ written[r] \in Nat /\ planned[a] \in Nat /\ applied[a] \in Nat
        /\ written'[r] = written[r] + 1
        /\ applied'[a] = applied[a] + 1
        /\ status[a] = "confirmed" /\ who[r] = owner[a]
        /\ applied[a] = written[r] /\ written[r] < planned[a]
    BY <1>1, RequestsAssumption DEF IndInv, TypeOK, RequestInv, Live
  <2>2. \/ pc'[r] = "plan_url" /\ type[a] = "crm_plan"
        \/ pc'[r] = "recording" /\ written[r] + 1 = planned[a]
        \/ pc'[r] = "writing" /\ written[r] + 1 # planned[a]
    BY DEF IndInv, TypeOK
  <2> QED
    BY <1>1, <2>1, <2>2 DEF RequestInv, Live, Unclaimed
<1> QED
  BY <1>1, <1>2, <1>3, <1>4, <1>5, StepIsLocal

\* LEMMA: an unacknowledged write leaves applied one ahead of written.
LEMMA WriteUnacknowledgedStep ==
  ASSUME IndInv, NEW r \in Requests, WriteUnacknowledged(r)
  PROVE  IndInv'
<1> DEFINE a == act[r]
<1> USE DEF WriteUnacknowledged, Goto, Untouched, tableVars
<1>1. pc[r] \in Live /\ a \in ActionIds /\ Alone(r, a)
  BY ExecutorIsAlone DEF Live
<1>2. TypeOK'
  BY <1>1, RequestsAssumption DEF IndInv, TypeOK, TablesTypeOK, Live, Places, Replies,
     Statuses, Settled, Unclaimed, IdemStatuses, Outcomes, RequestInv
<1>3. TouchesOnly(r, a)
  BY <1>1 DEF IndInv, TypeOK, TablesTypeOK, TouchesOnly
<1>4. ActionInv(a)'
  BY <1>1, SendersAssumption DEF IndInv, TypeOK, TablesTypeOK, ActionInv, TablesAgree,
     WritesAgree, Story, Kind, RequestInv, Live, Outcomes, Unclaimed, ContactChanges,
     DirectTypes, RequestsAssumption, ActionTypes
<1>5. RequestInv(r)' /\ act'[r] = a
  BY <1>1 DEF IndInv, TypeOK, TablesTypeOK, RequestInv, ActionInv, TablesAgree, Story, Kind,
     Live, Places, Unclaimed, ContactChanges, DirectTypes
<1> QED
  BY <1>1, <1>2, <1>3, <1>4, <1>5, StepIsLocal

\* LEMMA: WriteRefused keeps the invariant: HubSpot wrote nothing, so what was
\* acknowledged is what was applied.
LEMMA WriteRefusedStep ==
  ASSUME IndInv, NEW r \in Requests, WriteRefused(r)
  PROVE  IndInv'
<1> USE DEF WriteRefused
<1>1. pc[r] \in Live
  BY DEF Live
<1>2. RequestInv(r)'
  BY <1>1 DEF IndInv, TypeOK, RequestInv, ActionInv, Live, Unclaimed, ContactChanges,
     DirectTypes, Goto, Untouched, crmVars, tableVars
<1>3. reply' \in [Requests -> Replies]
  BY DEF IndInv, TypeOK, Replies
<1> QED
  BY <1>1, <1>2, <1>3, QuietStep DEF Places, Live

\* LEMMA: WriteNotConnected keeps the invariant: the exception leaves the
\* handler; nothing is claimed of a lost request.
LEMMA WriteNotConnectedStep ==
  ASSUME IndInv, NEW r \in Requests, WriteNotConnected(r)
  PROVE  IndInv'
<1> USE DEF WriteNotConnected, Raise
<1>1. pc[r] \in Live
  BY DEF Live
<1>2. RequestInv(r)'
  BY <1>1 DEF IndInv, TypeOK, RequestInv, ActionInv, Live, Unclaimed, ContactChanges,
     DirectTypes, Goto, Untouched, crmVars, tableVars
<1>3. reply' \in [Requests -> Replies]
  BY DEF IndInv, TypeOK, Replies
<1> QED
  BY <1>1, <1>2, <1>3, QuietStep DEF Places, Live

\* LEMMA: PlanUrlFound keeps the invariant: the plan goes on where its written
\* steps say.
LEMMA PlanUrlFoundStep ==
  ASSUME IndInv, NEW r \in Requests, PlanUrlFound(r)
  PROVE  IndInv'
<1> USE DEF PlanUrlFound, AfterWrites
<1>1. pc[r] \in Live
  BY DEF Live
<1>2. RequestInv(r)'
  BY <1>1 DEF IndInv, TypeOK, RequestInv, ActionInv, Live, Unclaimed, ContactChanges,
     DirectTypes, Goto, Untouched, crmVars, tableVars
<1>3. reply' \in [Requests -> Replies]
  BY DEF IndInv, TypeOK, Replies
<1> QED
  BY <1>1, <1>2, <1>3, QuietStep DEF Places, Live

\* LEMMA: PlanUrlFails keeps the invariant: everything written so far was
\* acknowledged.
LEMMA PlanUrlFailsStep ==
  ASSUME IndInv, NEW r \in Requests, PlanUrlFails(r)
  PROVE  IndInv'
<1> USE DEF PlanUrlFails
<1>1. pc[r] \in Live
  BY DEF Live
<1>2. RequestInv(r)'
  BY <1>1 DEF IndInv, TypeOK, RequestInv, ActionInv, Live, Unclaimed, ContactChanges,
     DirectTypes, Goto, Untouched, crmVars, tableVars
<1>3. reply' \in [Requests -> Replies]
  BY DEF IndInv, TypeOK, Replies
<1> QED
  BY <1>1, <1>2, <1>3, QuietStep DEF Places, Live

\* LEMMA: Complete keeps the invariant: only a plan written to the end is
\* recorded.
LEMMA CompleteStep ==
  ASSUME IndInv, NEW r \in Requests, Complete(r)
  PROVE  IndInv'
<1> DEFINE a == act[r]
<1> USE DEF Complete, CompleteAction, SetStatus, CompleteKey, AppendAudit, Updatable,
        SwallowsCompletionErrors, AfterCompletion, Answer, Raise, Goto, Untouched,
        tableVars, crmVars
<1>1. pc[r] \in Live /\ a \in ActionIds /\ Alone(r, a)
  BY ExecutorIsAlone DEF Live
<1>2. TypeOK'
  <2>1. TablesTypeOK'
    <3>1. CASE Updatable(a, who[r])
      BY <1>1, <3>1, SettlingIsTyped DEF IndInv, TypeOK, Settled, IdemStatuses, Outcomes
    <3>2. CASE ~Updatable(a, who[r])
      BY <3>2 DEF IndInv, TypeOK, TablesTypeOK
    <3> QED BY <3>1, <3>2
  <2>2. /\ pc' \in [Requests -> Places]
        /\ reply' \in [Requests -> Replies]
    BY DEF IndInv, TypeOK, Live, Places, Replies
  <2> QED
    BY <2>1, <2>2 DEF IndInv, TypeOK
<1>3. TouchesOnly(r, a)
  BY <1>1 DEF IndInv, TypeOK, TablesTypeOK, TouchesOnly
<1>4. ActionInv(a)'
  BY <1>1, SendersAssumption DEF IndInv, TypeOK, TablesTypeOK, ActionInv, TablesAgree,
     WritesAgree, Story, Kind, RequestInv, Live, Outcomes, Unclaimed, ContactChanges,
     DirectTypes, RequestsAssumption, ActionTypes
<1>5. RequestInv(r)' /\ act'[r] = a
  BY <1>1 DEF IndInv, TypeOK, TablesTypeOK, RequestInv, ActionInv, TablesAgree, Story, Kind,
     Live, Places, Unclaimed, ContactChanges, DirectTypes
<1> QED
  BY <1>1, <1>2, <1>3, <1>4, <1>5, StepIsLocal

\* LEMMA: CompleteRaises keeps the invariant: the transaction rolled back; a
\* direct flow answers all the same.
LEMMA CompleteRaisesStep ==
  ASSUME IndInv, NEW r \in Requests, CompleteRaises(r)
  PROVE  IndInv'
<1> USE DEF CompleteRaises, SwallowsCompletionErrors, AfterCompletion, Answer, Raise
<1>1. pc[r] \in Live
  BY DEF Live
<1>2. RequestInv(r)'
  BY <1>1 DEF IndInv, TypeOK, RequestInv, ActionInv, Live, Unclaimed, ContactChanges,
     DirectTypes, Goto, Untouched, crmVars, tableVars
<1>3. reply' \in [Requests -> Replies]
  BY DEF IndInv, TypeOK, Replies
<1> QED
  BY <1>1, <1>2, <1>3, QuietStep DEF Places, Live

\* LEMMA: UrlFound keeps the invariant: an answer claims nothing of the tables.
LEMMA UrlFoundStep ==
  ASSUME IndInv, NEW r \in Requests, UrlFound(r)
  PROVE  IndInv'
<1> USE DEF UrlFound, Answer
<1>1. pc[r] \in Live
  BY DEF Live
<1>2. RequestInv(r)'
  BY <1>1 DEF IndInv, TypeOK, RequestInv, ActionInv, Live, Unclaimed, ContactChanges,
     DirectTypes, Goto, Untouched, crmVars, tableVars
<1>3. reply' \in [Requests -> Replies]
  BY DEF IndInv, TypeOK, Replies
<1> QED
  BY <1>1, <1>2, <1>3, QuietStep DEF Places, Live

\* LEMMA: UrlFails keeps the invariant: the contact change was completed before
\* its URL lookup failed.
LEMMA UrlFailsStep ==
  ASSUME IndInv, NEW r \in Requests, UrlFails(r)
  PROVE  IndInv'
<1> USE DEF UrlFails
<1>1. pc[r] \in Live
  BY DEF Live
<1>2. RequestInv(r)'
  BY <1>1 DEF IndInv, TypeOK, RequestInv, ActionInv, Live, Unclaimed, ContactChanges,
     DirectTypes, Goto, Untouched, crmVars, tableVars
<1>3. reply' \in [Requests -> Replies]
  BY DEF IndInv, TypeOK, Replies
<1> QED
  BY <1>1, <1>2, <1>3, QuietStep DEF Places, Live

\* LEMMA: UrlRaises keeps the invariant: the exception leaves the handler.
LEMMA UrlRaisesStep ==
  ASSUME IndInv, NEW r \in Requests, UrlRaises(r)
  PROVE  IndInv'
<1> USE DEF UrlRaises, Raise
<1>1. pc[r] \in Live
  BY DEF Live
<1>2. RequestInv(r)'
  BY <1>1 DEF IndInv, TypeOK, RequestInv, ActionInv, Live, Unclaimed, ContactChanges,
     DirectTypes, Goto, Untouched, crmVars, tableVars
<1>3. reply' \in [Requests -> Replies]
  BY DEF IndInv, TypeOK, Replies
<1> QED
  BY <1>1, <1>2, <1>3, QuietStep DEF Places, Live

\* LEMMA: Fail keeps the invariant, also after Complete, when set_status refuses.
LEMMA FailStep ==
  ASSUME IndInv, NEW r \in Requests, Fail(r)
  PROVE  IndInv'
<1> DEFINE a == act[r]
<1> USE DEF Fail, FailAction, RecordPartialAction, SetStatus, CompleteKey, AppendAudit,
        Updatable, Answer, Goto, Untouched, tableVars, crmVars
<1>1. pc[r] \in Live /\ a \in ActionIds /\ Alone(r, a)
  BY ExecutorIsAlone DEF Live
<1>2. TypeOK'
  <2>1. TablesTypeOK'
    BY <1>1, SettlingIsTyped DEF IndInv, TypeOK, Settled, IdemStatuses, Outcomes
  <2>2. /\ pc' \in [Requests -> Places]
        /\ reply' \in [Requests -> Replies]
    BY DEF IndInv, TypeOK, Live, Places, Replies
  <2> QED
    BY <2>1, <2>2 DEF IndInv, TypeOK
<1>3. TouchesOnly(r, a)
  BY <1>1 DEF IndInv, TypeOK, TablesTypeOK, TouchesOnly
<1>4. ActionInv(a)'
  BY <1>1, SendersAssumption DEF IndInv, TypeOK, TablesTypeOK, ActionInv, TablesAgree,
     WritesAgree, Story, Kind, RequestInv, Live, Outcomes, Unclaimed, ContactChanges,
     DirectTypes, RequestsAssumption, ActionTypes
<1>5. RequestInv(r)' /\ act'[r] = a
  BY <1>1 DEF IndInv, TypeOK, TablesTypeOK, RequestInv, ActionInv, TablesAgree, Story, Kind,
     Live, Places, Unclaimed, ContactChanges, DirectTypes
<1> QED
  BY <1>1, <1>2, <1>3, <1>4, <1>5, StepIsLocal

\* LEMMA: FailRaises keeps the invariant: the outcome is not recorded and the
\* exception leaves the handler.
LEMMA FailRaisesStep ==
  ASSUME IndInv, NEW r \in Requests, FailRaises(r)
  PROVE  IndInv'
<1> USE DEF FailRaises, Raise
<1>1. pc[r] \in Live
  BY DEF Live
<1>2. RequestInv(r)'
  BY <1>1 DEF IndInv, TypeOK, RequestInv, ActionInv, Live, Unclaimed, ContactChanges,
     DirectTypes, Goto, Untouched, crmVars, tableVars
<1>3. reply' \in [Requests -> Replies]
  BY DEF IndInv, TypeOK, Replies
<1> QED
  BY <1>1, <1>2, <1>3, QuietStep DEF Places, Live

-----------------------------------------------------------------------------
(* The first transaction of a request. *)

\* LEMMA: a won claim finds an action that nobody executes and that wrote nothing.
LEMMA StartDirectStep ==
  ASSUME IndInv, NEW r \in Requests, NEW m \in Messages, NEW t \in DirectTypes,
         StartDirect(r, m, t)
  PROVE  IndInv'
<1> DEFINE a == DirectId(t, m)
<1> USE DEF StartDirect, Bind, StartDirectAction, CreateRow, Goto
<1>1. a \in DirectIds /\ a \in ActionIds /\ a \notin ProposalIds /\ SenderOf[m] \in Senders
  BY IdsAssumption, SendersAssumption DEF DirectIds, ActionIds
<1>2. pc[r] = "idle" /\ written[r] = 0 /\ idem[a] = "none"
  BY DEF IndInv, RequestInv, Claimable
<1>3. status[a] \in Unclaimed /\ Story(a, "none", 0, 0, 0) /\ planned[a] = 0 /\ applied[a] = 0
  BY <1>1, <1>2 DEF IndInv, TypeOK, TablesTypeOK, ActionInv, TablesAgree, WritesAgree,
     Story, Statuses, Settled, Unclaimed
<1>4. Alone(r, a)
  BY <1>1, <1>3, UnclaimedIsAlone
<1>5. TypeOK'
  <2>1. TablesTypeOK'
    BY <1>1, ClockAssumption DEF IndInv, TypeOK, TablesTypeOK, Statuses, IdemStatuses, ActionTypes
  <2> QED
    BY <1>1, <2>1 DEF IndInv, TypeOK, Places, Live
<1>6. TouchesOnly(r, a)
  BY <1>1 DEF IndInv, TypeOK, TablesTypeOK, TouchesOnly
<1>7. ActionInv(a)'
  BY <1>1, <1>3 DEF IndInv, TypeOK, TablesTypeOK, ActionInv, TablesAgree, WritesAgree,
     Story, Unclaimed, ActionTypes
<1>8. RequestInv(r)' /\ act'[r] = a
  BY <1>1, <1>2, <1>3 DEF IndInv, TypeOK, TablesTypeOK, RequestInv, Live, Unclaimed
<1> QED
  BY <1>1, <1>4, <1>5, <1>6, <1>7, <1>8, StepIsLocal

\* LEMMA: a new proposal is a row no request executes.
LEMMA ProposeStep ==
  ASSUME IndInv, NEW r \in Requests, NEW s \in Senders, NEW t \in ProposalTypes,
         NEW a \in ProposalIds, Propose(r, s, t, a)
  PROVE  IndInv'
<1> USE DEF Propose, Bind, CreatePendingAction, CreateRow, Answer, Goto
<1>1. a \in ActionIds /\ t \in ActionTypes /\ t # "crm_plan" /\ t \notin DirectTypes
  BY RequestsAssumption DEF ActionIds, ActionTypes, DirectTypes, ContactChanges, RecordChanges
<1>2. pc[r] = "idle" /\ written[r] = 0 /\ status[a] = "none"
  BY DEF IndInv, RequestInv
<1>3. Story(a, "none", 0, 0, 0) /\ planned[a] = 0 /\ applied[a] = 0
  BY <1>1, <1>2 DEF IndInv, ActionInv, TablesAgree, WritesAgree, Unclaimed
<1>4. Alone(r, a)
  BY <1>1, <1>2, UnclaimedIsAlone DEF Unclaimed
<1>5. TypeOK'
  <2>1. TablesTypeOK'
    BY <1>1, ClockAssumption DEF IndInv, TypeOK, TablesTypeOK, Statuses, Unclaimed
  <2> QED
    BY <1>1, <2>1 DEF IndInv, TypeOK, Places, Replies
<1>6. TouchesOnly(r, a)
  BY <1>1 DEF IndInv, TypeOK, TablesTypeOK, TouchesOnly
<1>7. ActionInv(a)'
  BY <1>1, <1>3 DEF IndInv, TypeOK, TablesTypeOK, ActionInv, TablesAgree, WritesAgree,
     Story, Unclaimed
<1>8. RequestInv(r)' /\ pc'[r] \notin Live
  BY <1>2 DEF IndInv, TypeOK, RequestInv, Live
<1> QED
  BY <1>1, <1>4, <1>5, <1>6, <1>7, <1>8, StepIsLocal

\* LEMMA: a won confirmation finds an action that nobody executes, in time.
LEMMA ConfirmStep ==
  ASSUME IndInv, NEW r \in Requests, NEW s \in Senders, NEW a \in ProposalIds,
         Confirm(r, s, a)
  PROVE  IndInv'
<1> USE DEF Confirm, Bind, ConfirmAndClaimAction, Confirmable, Goto
<1> PICK at \in 0 .. now : ConfirmAndClaimAction(a, s, at)
  BY DEF Since
<1>1. a \in ActionIds
  BY DEF ActionIds
<1>2. /\ pc[r] = "idle" /\ written[r] = 0 /\ status[a] = "pending" /\ owner[a] = s
      /\ expires[a] > at /\ at \in Nat
  BY DEF IndInv, RequestInv
<1>3. /\ Story(a, "none", 0, 0, 0) /\ planned[a] = 0 /\ applied[a] = 0
      /\ type[a] \in ActionTypes
  BY <1>1, <1>2 DEF IndInv, ActionInv, TablesAgree, WritesAgree, Unclaimed
<1>4. Alone(r, a)
  BY <1>1, <1>2, UnclaimedIsAlone DEF Unclaimed
<1>5. TypeOK'
  <2>1. TablesTypeOK'
    BY <1>1, ClockAssumption DEF IndInv, TypeOK, TablesTypeOK, Statuses, IdemStatuses
  <2> QED
    BY <1>1, <2>1, RequestsAssumption DEF IndInv, TypeOK, Places, Live
<1>6. TouchesOnly(r, a)
  BY <1>1 DEF IndInv, TypeOK, TablesTypeOK, TouchesOnly
<1>7. ActionInv(a)'
  BY <1>1, <1>2, <1>3, ClockAssumption DEF IndInv, TypeOK, TablesTypeOK, ActionInv,
     TablesAgree, WritesAgree, Story, Unclaimed
<1>8. RequestInv(r)' /\ act'[r] = a
  BY <1>1, <1>2, <1>3 DEF IndInv, TypeOK, TablesTypeOK, RequestInv, Live, Unclaimed
<1> QED
  BY <1>1, <1>4, <1>5, <1>6, <1>7, <1>8, StepIsLocal

\* LEMMA: a request that claims nothing is answered and changes no table.
LEMMA RefusalStep ==
  ASSUME IndInv, NEW r \in Requests, NEW s \in Senders, NEW a \in ActionIds,
         NEW text \in Replies, Bind(r, s, a), Answer(r, text),
         UNCHANGED <<now, written, planned, applied, tableVars>>
  PROVE  IndInv'
<1> USE DEF Bind, Answer, Goto, tableVars
<1>1. TypeOK'
  BY DEF IndInv, TypeOK, TablesTypeOK, Places
<1>2. ASSUME NEW q \in Requests
      PROVE  RequestInv(q)'
  BY <1>2 DEF IndInv, TypeOK, RequestInv, Live
<1>3. OneExecutor'
  BY DEF IndInv, TypeOK, OneExecutor, Executing, Live
<1> QED
  BY <1>1, <1>2, <1>3 DEF IndInv, ActionInv, TablesAgree, WritesAgree, Story, Kind

\* LEMMA: a crash only loses requests.
LEMMA CrashStep == IndInv /\ Crash => IndInv'
<1> SUFFICES ASSUME IndInv, Crash PROVE IndInv'
  OBVIOUS
<1> USE DEF Crash, Untouched, tableVars, crmVars
<1>1. TypeOK'
  BY DEF IndInv, TypeOK, TablesTypeOK, Places
<1>2. ASSUME NEW q \in Requests
      PROVE  RequestInv(q)'
  BY <1>2 DEF IndInv, RequestInv, Live
<1>3. OneExecutor'
  BY DEF OneExecutor, Executing, Live
<1> QED
  BY <1>1, <1>2, <1>3 DEF IndInv, ActionInv, TablesAgree, WritesAgree, Story, Kind

\* LEMMA: the clock and stuttering change nothing the invariant is about.
LEMMA ClockStep == IndInv /\ (Clock \/ UNCHANGED vars) => IndInv'
<1> SUFFICES ASSUME IndInv, Clock \/ UNCHANGED vars PROVE IndInv'
  OBVIOUS
<1> USE DEF Clock, Tick, tableVars, requestVars, crmVars, vars
<1>1. TypeOK'
  BY ClockAssumption DEF IndInv, TypeOK, TablesTypeOK
<1>2. ASSUME NEW q \in Requests
      PROVE  RequestInv(q)'
  BY <1>2 DEF IndInv, RequestInv
<1>3. OneExecutor'
  BY DEF IndInv, OneExecutor, Executing
<1> QED
  BY <1>1, <1>2, <1>3 DEF IndInv, ActionInv, TablesAgree, WritesAgree, Story, Kind

-----------------------------------------------------------------------------
(* The invariant of the specification. *)

\* LEMMA: the first transaction of a request keeps the invariant.
LEMMA ArriveStep ==
  ASSUME IndInv, NEW r \in Requests, Arrive(r)
  PROVE  IndInv'
<1>1. CASE \E m \in Messages, t \in DirectTypes : StartDirect(r, m, t)
  BY <1>1, StartDirectStep
<1>2. CASE \E m \in Messages, t \in DirectTypes : StartDuplicate(r, m, t)
  <2> PICK m \in Messages, t \in DirectTypes : StartDuplicate(r, m, t)
    BY <1>2
  <2>1. DirectId(t, m) \in ActionIds /\ SenderOf[m] \in Senders
    BY SendersAssumption DEF ActionIds, DirectIds
  <2> QED
    BY <2>1, RefusalStep DEF StartDuplicate, Replies
<1>3. CASE \E s \in Senders, t \in ProposalTypes, a \in ProposalIds : Propose(r, s, t, a)
  BY <1>3, ProposeStep
<1>4. CASE \E s \in Senders, a \in ProposalIds : Confirm(r, s, a)
  BY <1>4, ConfirmStep
<1>5. CASE \E s \in Senders, a \in ProposalIds : RejectConfirmation(r, s, a)
  BY <1>5, RefusalStep DEF RejectConfirmation, Replies, ActionIds
<1> QED
  BY <1>1, <1>2, <1>3, <1>4, <1>5 DEF Arrive

\* LEMMA: every later step of a request keeps the invariant.
LEMMA ContinueStep ==
  ASSUME IndInv, NEW r \in Requests, Continue(r)
  PROVE  IndInv'
BY PrepareStep, PrepareFailsStep, WriteAcknowledgedStep, WriteUnacknowledgedStep,
   WriteRefusedStep, WriteNotConnectedStep, PlanUrlFoundStep, PlanUrlFailsStep,
   CompleteStep, CompleteRaisesStep, UrlFoundStep, UrlFailsStep, UrlRaisesStep,
   FailStep, FailRaisesStep DEF Continue

\* LEMMA: the invariant holds of empty tables and idle requests.
LEMMA IndInvInit == Init => IndInv
<1> SUFFICES ASSUME Init PROVE IndInv
  OBVIOUS
<1> USE DEF Init, TablesInit
<1>1. TypeOK
  BY ClockAssumption, RequestsAssumption DEF TypeOK, TablesTypeOK, Places, Replies,
     Statuses, Unclaimed, IdemStatuses, Outcomes
<1>2. OneExecutor
  BY DEF OneExecutor, Executing, Live
<1>3. \A a \in ActionIds : ActionInv(a)
  BY DEF ActionInv, TablesAgree, WritesAgree, Story, Unclaimed, Outcomes
<1>4. \A r \in Requests : RequestInv(r)
  BY DEF RequestInv, Live
<1> QED
  BY <1>1, <1>2, <1>3, <1>4 DEF IndInv

\* LEMMA: every step keeps the invariant.
LEMMA IndInvNext == IndInv /\ [Next]_vars => IndInv'
BY ArriveStep, ContinueStep, CrashStep, ClockStep DEF Next

\* LEMMA: the invariant holds throughout.
LEMMA IndInvHolds == Spec => []IndInv
BY IndInvInit, IndInvNext, PTL DEF Spec

-----------------------------------------------------------------------------
(* The theorems. *)

\* THEOREM: every column of the tables and every field of a request keeps its
\* type; in particular no request acknowledges more writes than a plan may have.
THEOREM TypeCorrect == Spec => []TypeOK
<1>1. IndInv => TypeOK
  BY DEF IndInv
<1> QED
  BY <1>1, IndInvHolds, PTL

\* THEOREM: two requests never execute the same action, for any number of
\* deliveries of a message and of confirmations of a proposal.
THEOREM ExecutionIsExclusive == Spec => []OneExecutor
<1>1. IndInv => OneExecutor
  BY DEF IndInv
<1> QED
  BY <1>1, IndInvHolds, PTL

\* THEOREM: no action changes HubSpot more often than it planned.
THEOREM AtMostOnce == Spec => []AppliedAtMostOnce
<1>1. IndInv => AppliedAtMostOnce
  BY DEF IndInv, ActionInv, AppliedAtMostOnce
<1> QED
  BY <1>1, IndInvHolds, PTL

\* THEOREM: updates and deletes are executed only for who confirmed them in time.
THEOREM Authorised == Spec => []ExecutionIsAuthorised
<1>1. IndInv => ExecutionIsAuthorised
  <2> SUFFICES ASSUME IndInv PROVE ExecutionIsAuthorised
    OBVIOUS
  <2>1. \A a \in ProposalIds : applied[a] > 0 =>
          status[a] \notin Unclaimed /\ confirmed_at[a] < expires[a]
    BY DEF IndInv, ActionInv, WritesAgree, ActionIds
  <2>2. \A r \in Requests : pc[r] \in Live => who[r] = owner[act[r]]
    BY DEF IndInv, RequestInv
  <2> QED
    BY <2>1, <2>2 DEF ExecutionIsAuthorised
<1> QED
  BY <1>1, IndInvHolds, PTL

\* THEOREM: pending_actions, idempotency_records and audit_logs agree.
THEOREM LedgerIsConsistent == Spec => []LedgerAgrees
<1>1. IndInv => LedgerAgrees
  BY DEF IndInv, ActionInv, LedgerAgrees
<1> QED
  BY <1>1, IndInvHolds, PTL

\* THEOREM: a recorded outcome tells what HubSpot did.
THEOREM OutcomesAreTrue == Spec => []OutcomeTellsWrites
<1>1. IndInv => OutcomeTellsWrites
  BY DEF IndInv, ActionInv, OutcomeTellsWrites
<1> QED
  BY <1>1, IndInvHolds, PTL

-----------------------------------------------------------------------------
(* Action properties: what a step may never do to an action. *)

\* A status moves forward only, and a claim is never given back.
Forward(a) ==
  /\ status[a] \in Settled => status'[a] = status[a]
  /\ status[a] \notin Unclaimed => status'[a] \notin Unclaimed
  /\ idem[a] # "none" => idem'[a] # "none"

\* LEMMA: a later step of a request moves statuses forward only: it leaves the
\* tables alone, or it settles a claimed action.
LEMMA ContinueIsForward ==
  ASSUME IndInv, NEW r \in Requests, Continue(r), NEW a \in ActionIds
  PROVE  Forward(a)
<1> USE DEF Forward, Unclaimed, Settled
<1>1. CASE UNCHANGED tableVars
  BY <1>1 DEF tableVars
<1>2. CASE Complete(r)
  BY <1>2 DEF IndInv, TypeOK, TablesTypeOK, Complete, CompleteAction, SetStatus,
     CompleteKey, Updatable, tableVars
<1>3. CASE Fail(r)
  BY <1>3 DEF IndInv, TypeOK, TablesTypeOK, Fail, FailAction, RecordPartialAction,
     SetStatus, CompleteKey, Updatable
<1> QED
  BY <1>1, <1>2, <1>3 DEF Continue, Prepare, PrepareFails, WriteAcknowledged, WriteUnacknowledged,
     WriteRefused, WriteNotConnected, PlanUrlFound, PlanUrlFails, CompleteRaises, UrlFound,
     UrlFails, UrlRaises, FailRaises

\* LEMMA: the first transaction of a request moves statuses forward only.
LEMMA ArriveIsForward ==
  ASSUME IndInv, NEW r \in Requests, Arrive(r), NEW a \in ActionIds
  PROVE  Forward(a)
<1> USE DEF Forward, Unclaimed, Settled
<1>1. CASE UNCHANGED tableVars
  BY <1>1 DEF tableVars
<1>2. CASE \E m \in Messages, t \in DirectTypes : StartDirect(r, m, t)
  BY <1>2 DEF IndInv, TypeOK, TablesTypeOK, ActionInv, TablesAgree, Story, Statuses,
     StartDirect, StartDirectAction, CreateRow, Claimable
<1>3. CASE \E s \in Senders, t \in ProposalTypes, b \in ProposalIds : Propose(r, s, t, b)
  BY <1>3 DEF IndInv, TypeOK, TablesTypeOK, Propose, CreatePendingAction, CreateRow
<1>4. CASE \E s \in Senders, b \in ProposalIds : Confirm(r, s, b)
  BY <1>4 DEF IndInv, TypeOK, TablesTypeOK, Confirm, ConfirmAndClaimAction, Confirmable
<1> QED
  BY <1>1, <1>2, <1>3, <1>4 DEF Arrive, StartDuplicate, RejectConfirmation

\* THEOREM: a settled action keeps its status and a claim is never released.
THEOREM SettledStaysSettled == Spec => SettledIsFinal
<1>1. IndInv /\ [Next]_vars => [\A a \in ActionIds : Forward(a)]_vars
  <2>1. IndInv /\ Next => \A a \in ActionIds : Forward(a)
    BY ContinueIsForward, ArriveIsForward DEF Next, Crash, Clock, Tick, tableVars, Forward
  <2> QED
    BY <2>1
<1>2. [\A a \in ActionIds : Forward(a)]_vars =>
        [\A a \in ActionIds :
           /\ status[a] \in Settled => status'[a] = status[a]
           /\ status[a] \notin Unclaimed => status'[a] \notin Unclaimed
           /\ idem[a] # "none" => idem'[a] # "none"]_vars
  BY DEF Forward
<1> QED
  BY <1>1, <1>2, IndInvHolds, PTL DEF Spec, SettledIsFinal

-----------------------------------------------------------------------------
(* Claims and replies: what a request was told stays true, because no other   *)
(* request ever takes its action on.                                          *)

\* A step of request r that leaves every other request and action alone.
MovesOnly(r, a) ==
  /\ TouchesOnly(r, a)
  /\ \A q \in Requests \ {r} : reply'[q] = reply[q]

\* LEMMA: a later step of a request is about the action it took on.
LEMMA ContinueMoves ==
  ASSUME IndInv, NEW r \in Requests, Continue(r)
  PROVE  /\ pc[r] \in Live /\ act[r] \in ActionIds
         /\ MovesOnly(r, act[r]) /\ act'[r] = act[r]
<1> USE DEF Goto, Answer, Raise, Untouched, tableVars, crmVars
<1>1. pc[r] \in Live
  BY DEF Live, Continue, Prepare, PrepareFails, WriteAcknowledged, WriteUnacknowledged,
     WriteRefused, WriteNotConnected, PlanUrlFound, PlanUrlFails, Complete, CompleteRaises,
     UrlFound, UrlFails, UrlRaises, Fail, FailRaises
<1>2. act[r] \in ActionIds
  BY <1>1, ExecutorIsAlone
<1>3. act' = act /\ who' = who
  BY DEF Continue, Prepare, PrepareFails, WriteAcknowledged, WriteUnacknowledged,
     WriteRefused, WriteNotConnected, PlanUrlFound, PlanUrlFails, Complete, CompleteRaises,
     UrlFound, UrlFails, UrlRaises, Fail, FailRaises
<1>4. ASSUME NEW q \in Requests \ {r}
      PROVE  pc'[q] = pc[q] /\ reply'[q] = reply[q]
  BY <1>4 DEF IndInv, TypeOK, Continue, Prepare, PrepareFails, WriteAcknowledged,
     WriteUnacknowledged, WriteRefused, WriteNotConnected, PlanUrlFound, PlanUrlFails,
     Complete, CompleteRaises, UrlFound, UrlFails, UrlRaises, Fail, FailRaises, AfterCompletion
<1>5. CASE Prepare(r) \/ WriteAcknowledged(r) \/ WriteUnacknowledged(r)
  BY <1>1, <1>2, <1>3, <1>4, <1>5 DEF IndInv, TypeOK, TablesTypeOK, MovesOnly, TouchesOnly, Prepare,
     WriteAcknowledged, WriteUnacknowledged
<1>6. CASE Complete(r)
  BY <1>1, <1>2, <1>3, <1>4, <1>6 DEF IndInv, TypeOK, TablesTypeOK, MovesOnly, TouchesOnly, Complete,
     CompleteAction, SetStatus, CompleteKey, AppendAudit
<1>7. CASE Fail(r)
  BY <1>1, <1>2, <1>3, <1>4, <1>7 DEF IndInv, TypeOK, TablesTypeOK, MovesOnly, TouchesOnly, Fail,
     FailAction, RecordPartialAction, SetStatus, CompleteKey, AppendAudit
<1>8. CASE UNCHANGED <<written, crmVars, tableVars>>
  BY <1>1, <1>2, <1>3, <1>4, <1>8 DEF MovesOnly, TouchesOnly
<1> QED
  BY <1>1, <1>2, <1>3, <1>5, <1>6, <1>7, <1>8 DEF Continue, PrepareFails, WriteRefused,
     WriteNotConnected, PlanUrlFound, PlanUrlFails, CompleteRaises, UrlFound, UrlFails,
     UrlRaises, FailRaises

\* What a first transaction does: a claim, an offer, or a refusal.
Claims(r, a) ==
  /\ pc'[r] \in Live /\ reply'[r] = reply[r]
  /\ status[a] \in Unclaimed /\ status'[a] = "confirmed"

Offers(r, a) ==
  /\ pc'[r] = "done" /\ reply'[r] = "pending_confirmation"
  /\ status[a] = "none" /\ status'[a] = "pending"

Refuses(r, a) ==
  /\ pc'[r] = "done" /\ reply'[r] \in {"duplicate_request", "invalid_confirmation"}
  /\ reply'[r] = "duplicate_request" => status[a] \notin Unclaimed
  /\ UNCHANGED <<status, type, planned, applied>>

\* LEMMA: a first transaction is about one action, and is one of the three.
LEMMA ArriveMoves ==
  ASSUME IndInv, NEW r \in Requests, Arrive(r)
  PROVE  /\ pc[r] = "idle"
         /\ \E a \in ActionIds :
              /\ MovesOnly(r, a) /\ act'[r] = a
              /\ Claims(r, a) \/ Offers(r, a) \/ Refuses(r, a)
<1> USE DEF Bind, Answer, Goto, tableVars
<1>1. pc[r] = "idle"
  BY DEF Arrive, StartDirect, StartDuplicate, Propose, Confirm, RejectConfirmation
<1>2. CASE \E m \in Messages, t \in DirectTypes : StartDirect(r, m, t)
  <2> PICK m \in Messages, t \in DirectTypes : StartDirect(r, m, t)
    BY <1>2
  <2> DEFINE a == DirectId(t, m)
  <2>1. a \in ActionIds
    BY DEF ActionIds, DirectIds
  <2>2. status[a] \in Unclaimed
    BY <2>1 DEF IndInv, TypeOK, TablesTypeOK, ActionInv, TablesAgree, Story, Statuses,
       Settled, Unclaimed, StartDirect, StartDirectAction, Claimable
  <2>3. MovesOnly(r, a) /\ act'[r] = a
    BY <2>1 DEF IndInv, TypeOK, TablesTypeOK, MovesOnly, TouchesOnly, StartDirect,
       StartDirectAction, CreateRow
  <2>4. Claims(r, a)
    BY <2>1, <2>2 DEF IndInv, TypeOK, TablesTypeOK, Claims, Live, StartDirect,
       StartDirectAction, CreateRow
  <2> QED BY <1>1, <2>1, <2>3, <2>4
<1>3. CASE \E m \in Messages, t \in DirectTypes : StartDuplicate(r, m, t)
  <2> PICK m \in Messages, t \in DirectTypes : StartDuplicate(r, m, t)
    BY <1>3
  <2> DEFINE a == DirectId(t, m)
  <2>1. a \in ActionIds
    BY DEF ActionIds, DirectIds
  <2>2. status[a] \notin Unclaimed
    BY <2>1 DEF IndInv, ActionInv, TablesAgree, Story, StartDuplicate, Claimable
  <2>3. MovesOnly(r, a) /\ act'[r] = a
    BY DEF IndInv, TypeOK, MovesOnly, TouchesOnly, StartDuplicate
  <2>4. Refuses(r, a)
    BY <2>2 DEF IndInv, TypeOK, Refuses, StartDuplicate
  <2> QED BY <1>1, <2>1, <2>3, <2>4
<1>4. CASE \E s \in Senders, t \in ProposalTypes, a \in ProposalIds : Propose(r, s, t, a)
  <2> PICK s \in Senders, t \in ProposalTypes, a \in ProposalIds : Propose(r, s, t, a)
    BY <1>4
  <2>1. a \in ActionIds
    BY DEF ActionIds
  <2>2. MovesOnly(r, a) /\ act'[r] = a
    BY <2>1 DEF IndInv, TypeOK, TablesTypeOK, MovesOnly, TouchesOnly, Propose,
       CreatePendingAction, CreateRow
  <2>3. Offers(r, a)
    BY <2>1 DEF IndInv, TypeOK, TablesTypeOK, Offers, Propose, CreatePendingAction, CreateRow
  <2> QED BY <1>1, <2>1, <2>2, <2>3
<1>5. CASE \E s \in Senders, a \in ProposalIds : Confirm(r, s, a)
  <2> PICK s \in Senders, a \in ProposalIds : Confirm(r, s, a)
    BY <1>5
  <2>1. a \in ActionIds
    BY DEF ActionIds
  <2>2. MovesOnly(r, a) /\ act'[r] = a
    BY <2>1 DEF IndInv, TypeOK, TablesTypeOK, MovesOnly, TouchesOnly, Confirm,
       ConfirmAndClaimAction
  <2>3. Claims(r, a)
    BY <2>1 DEF IndInv, TypeOK, TablesTypeOK, Claims, Live, Unclaimed, Confirm,
       ConfirmAndClaimAction, Confirmable
  <2> QED BY <1>1, <2>1, <2>2, <2>3
<1>6. CASE \E s \in Senders, a \in ProposalIds : RejectConfirmation(r, s, a)
  <2> PICK s \in Senders, a \in ProposalIds : RejectConfirmation(r, s, a)
    BY <1>6
  <2>1. a \in ActionIds
    BY DEF ActionIds
  <2>2. MovesOnly(r, a) /\ act'[r] = a
    BY DEF IndInv, TypeOK, MovesOnly, TouchesOnly, RejectConfirmation
  <2>3. Refuses(r, a)
    BY DEF IndInv, TypeOK, Refuses, RejectConfirmation
  <2> QED BY <1>1, <2>1, <2>2, <2>3
<1> QED
  BY <1>2, <1>3, <1>4, <1>5, <1>6 DEF Arrive

\* LEMMA: a later step runs on, or loses the request, or answers it with what is
\* true of its action; and an answer leaves the action claimed only where the
\* direct flows do.
LEMMA ContinueAnswers ==
  ASSUME IndInv, NEW r \in Requests, Continue(r), reply[r] = "none"
  PROVE  \/ pc'[r] \in Live \cup {"lost"} /\ reply'[r] = "none"
         \/ /\ pc'[r] = "done"
            /\ reply'[r] \in {"ok", "already_exists", "partial", "unavailable"}
            /\ ReplyIsTrue(r)'
            /\ status'[act[r]] = "confirmed" =>
                 reply'[r] \in {"ok", "already_exists"} /\ type'[act[r]] \in DirectTypes
<1> DEFINE a == act[r]
<1> USE DEF Goto, Answer, Raise, Untouched, tableVars, crmVars
<1>0. pc[r] \in Live /\ a \in ActionIds /\ act'[r] = a
  BY ContinueMoves
<1>1. CASE Prepare(r) \/ PrepareFails(r) \/ WriteAcknowledged(r) \/ WriteUnacknowledged(r)
            \/ WriteRefused(r) \/ WriteNotConnected(r) \/ PlanUrlFound(r) \/ PlanUrlFails(r)
            \/ UrlFails(r) \/ UrlRaises(r) \/ FailRaises(r)
  <2>1. reply' = reply
    BY <1>1 DEF Prepare, PrepareFails, WriteAcknowledged, WriteUnacknowledged, WriteRefused,
       WriteNotConnected, PlanUrlFound, PlanUrlFails, UrlFails, UrlRaises, FailRaises
  <2>2. pc'[r] \in Live \cup {"lost"}
    BY <1>1 DEF IndInv, TypeOK, Live, AfterWrites, Prepare, PrepareFails, WriteAcknowledged,
       WriteUnacknowledged, WriteRefused, WriteNotConnected, PlanUrlFound, PlanUrlFails,
       UrlFails, UrlRaises, FailRaises
  <2> QED BY <2>1, <2>2
<1>2. CASE Complete(r) \/ CompleteRaises(r)
  <2>1. /\ pc[r] = "recording" /\ who[r] = owner[a] /\ status[a] = "confirmed"
        /\ applied[a] = planned[a] /\ planned[a] \in Nat
    BY <1>0, <1>2, RequestsAssumption DEF IndInv, TypeOK, RequestInv, Live, Complete, CompleteRaises
  <2>2. /\ UNCHANGED <<planned, applied, type>>
        /\ status' = status \/ status'[a] = "completed"
    BY <1>0, <1>2, <2>1 DEF IndInv, TypeOK, TablesTypeOK, Complete, CompleteRaises,
       CompleteAction, SetStatus, Updatable
  <2>3. CASE type[a] = "crm_plan" /\ planned[a] > 0
    <3>1. pc'[r] = "done" /\ reply'[r] = "ok"
      BY <1>0, <1>2, <2>1, <2>3 DEF IndInv, TypeOK, Complete, CompleteRaises, AfterCompletion,
         SwallowsCompletionErrors, DirectTypes
    <3>2. ReplyIsTrue(r)'
      BY <1>0, <2>1, <2>2, <2>3, <3>1 DEF ReplyIsTrue
    <3>3. type'[a] \in DirectTypes
      BY <2>2, <2>3 DEF DirectTypes
    <3> QED BY <3>1, <3>2, <3>3
  <2>4. CASE ~(type[a] = "crm_plan" /\ planned[a] > 0)
    BY <1>2, <2>4 DEF IndInv, TypeOK, Complete, CompleteRaises, AfterCompletion, Live
  <2> QED BY <2>3, <2>4
<1>3. CASE UrlFound(r)
  <2>1. /\ pc[r] = "answering" /\ applied[a] = planned[a] /\ planned[a] \in Nat
        /\ status[a] = "confirmed" => type[a] \in DirectTypes
    BY <1>0, <1>3, RequestsAssumption DEF IndInv, TypeOK, RequestInv, UrlFound
  <2>2. /\ pc'[r] = "done" /\ UNCHANGED <<planned, applied, type, status>>
        /\ reply'[r] = IF planned[a] = 0 THEN "already_exists" ELSE "ok"
    BY <1>3 DEF IndInv, TypeOK, UrlFound
  <2>3. ReplyIsTrue(r)'
    BY <1>0, <2>1, <2>2 DEF ReplyIsTrue
  <2> QED BY <2>1, <2>2, <2>3
<1>4. CASE Fail(r)
  <2>1. /\ pc[r] = "failing" /\ who[r] = owner[a]
        /\ status[a] = "confirmed" \/ (status[a] = "completed" /\ type[a] # "crm_plan")
    BY <1>0, <1>4 DEF IndInv, RequestInv, Live, Fail, ContactChanges
  <2>2. CASE type[a] = "crm_plan" /\ written[r] > 0
    BY <1>0, <1>4, <2>1, <2>2 DEF IndInv, TypeOK, TablesTypeOK, Fail, RecordPartialAction,
       SetStatus, Updatable, ReplyIsTrue
  <2>3. CASE ~(type[a] = "crm_plan" /\ written[r] > 0)
    BY <1>0, <1>4, <2>1, <2>3 DEF IndInv, TypeOK, TablesTypeOK, Fail, FailAction,
       SetStatus, Updatable, ReplyIsTrue
  <2> QED BY <2>2, <2>3
<1> QED
  BY <1>1, <1>2, <1>3, <1>4 DEF Continue

\* LEMMA: a request whose action is not the one that moves, or that has answered,
\* keeps what it knows of its claim.
LEMMA RepliedStays ==
  ASSUME NEW q \in Requests, RepliedInv(q), NEW a \in ActionIds,
         pc'[q] = pc[q], act'[q] = act[q], reply'[q] = reply[q],
         \A b \in ActionIds \ {a} :
           status'[b] = status[b] /\ planned'[b] = planned[b] /\ applied'[b] = applied[b],
         status[a] \notin Unclaimed => status'[a] \notin Unclaimed,
         act[q] = a /\ TookOn(q) => UNCHANGED <<status[a], planned[a], applied[a]>>
  PROVE  RepliedInv(q)'
<1>1. TookOn(q)' <=> TookOn(q)
  BY DEF TookOn
<1>2. CASE TookOn(q)
  BY <1>1, <1>2 DEF RepliedInv, ReplyIsTrue
<1>3. CASE ~TookOn(q)
  BY <1>1, <1>3 DEF RepliedInv, ReplyIsTrue, TookOn, Live
<1> QED BY <1>2, <1>3

\* LEMMA: a running handler has the claim of its action.
LEMMA RunningTookOn ==
  ASSUME ClaimInv, NEW r \in Requests, pc[r] \in Live
  PROVE  TookOn(r) /\ reply[r] = "none"
BY DEF ClaimInv, RepliedInv, TookOn, Live

\* LEMMA: a later step of a request keeps claims and replies.
LEMMA ContinueKeepsClaims ==
  ASSUME IndInv, ClaimInv, NEW r \in Requests, Continue(r)
  PROVE  ClaimInv'
<1> DEFINE a == act[r]
<1>1. /\ pc[r] \in Live /\ a \in ActionIds
      /\ MovesOnly(r, a) /\ act'[r] = a
  BY ContinueMoves
<1>2. TookOn(r) /\ reply[r] = "none"
  BY <1>1, RunningTookOn
<1>3. Forward(a)
  BY <1>1, ContinueIsForward
<1>4. \/ pc'[r] \in Live \cup {"lost"} /\ reply'[r] = "none"
      \/ /\ pc'[r] = "done"
         /\ reply'[r] \in {"ok", "already_exists", "partial", "unavailable"}
         /\ ReplyIsTrue(r)'
         /\ status'[a] = "confirmed" =>
              reply'[r] \in {"ok", "already_exists"} /\ type'[a] \in DirectTypes
  BY <1>2, ContinueAnswers
<1>5. TookOn(r)'
  BY <1>4 DEF TookOn, Live
<1>6. status[a] \notin Unclaimed /\ status'[a] \notin Unclaimed
  BY <1>1, <1>3 DEF IndInv, RequestInv, Forward
<1>7. ASSUME NEW q \in Requests \ {r}
      PROVE  /\ pc'[q] = pc[q] /\ act'[q] = act[q] /\ reply'[q] = reply[q]
             /\ TookOn(q) => act[q] # a
  BY <1>1, <1>2 DEF MovesOnly, TouchesOnly, ClaimInv, ClaimedOnce
<1>8. ClaimedOnce'
  BY <1>1, <1>2, <1>5, <1>7 DEF ClaimInv, ClaimedOnce, TookOn
<1>9. ASSUME NEW q \in Requests
      PROVE  RepliedInv(q)'
  <2>1. CASE q = r
    BY <1>1, <1>4, <1>6, <2>1 DEF RepliedInv, Live
  <2>2. CASE q # r
    <3>1. RepliedInv(q)
      BY DEF ClaimInv
    <3> QED
      BY <1>1, <1>6, <1>7, <2>2, <3>1, RepliedStays DEF MovesOnly, TouchesOnly
  <2> QED BY <2>1, <2>2
<1>10. ASSUME NEW b \in ActionIds, status'[b] = "confirmed"
       PROVE  GivenUp(b)' \/ \E q \in Requests : Executing(q, b)'
  <2>1. CASE b = a
    <3>1. CASE pc'[r] \in Live
      BY <1>1, <2>1, <3>1 DEF Executing
    <3>2. CASE pc'[r] \notin Live
      BY <1>1, <1>4, <1>10, <2>1, <3>2 DEF GivenUp, Kind
    <3> QED BY <3>1, <3>2
  <2>2. CASE b # a
    <3>1. status[b] = "confirmed" /\ type'[b] = type[b]
      BY <1>1, <1>10, <2>2 DEF MovesOnly, TouchesOnly
    <3>2. PICK q \in Requests :
            /\ act[q] = b
            /\ \/ pc[q] \in Live \cup {"lost"}
               \/ pc[q] = "done" /\ reply[q] \in {"ok", "already_exists"} /\ type[b] \in DirectTypes
      BY <3>1 DEF ClaimInv, ClaimHasHandler, GivenUp, Executing, Kind
    <3>3. q # r
      BY <2>2, <3>2
    <3> QED
      BY <1>7, <3>1, <3>2, <3>3 DEF GivenUp, Executing, Kind
  <2> QED BY <2>1, <2>2
<1> QED
  BY <1>8, <1>9, <1>10 DEF ClaimInv, ClaimHasHandler

\* LEMMA: a first transaction keeps claims and replies: it claims what nobody has.
LEMMA ArriveKeepsClaims ==
  ASSUME IndInv, ClaimInv, NEW r \in Requests, Arrive(r)
  PROVE  ClaimInv'
<1>1. PICK a \in ActionIds :
        /\ MovesOnly(r, a) /\ act'[r] = a
        /\ Claims(r, a) \/ Offers(r, a) \/ Refuses(r, a)
  BY ArriveMoves
<1>2. pc[r] = "idle" /\ reply[r] = "none"
  BY ArriveMoves DEF ClaimInv, RepliedInv
<1>3. Forward(a)
  BY ArriveIsForward
<1>4. ASSUME NEW q \in Requests \ {r}
      PROVE  pc'[q] = pc[q] /\ act'[q] = act[q] /\ reply'[q] = reply[q]
  BY <1>1 DEF MovesOnly, TouchesOnly
<1>5. ASSUME NEW q \in Requests, act[q] = a, TookOn(q)
      PROVE  Refuses(r, a)
  BY <1>1, <1>5 DEF ClaimInv, RepliedInv, Claims, Offers, Unclaimed
<1>6. TookOn(r)' <=> Claims(r, a)
  BY <1>1, <1>2 DEF TookOn, Live, Claims, Offers, Refuses
<1>7. ClaimedOnce'
  BY <1>1, <1>4, <1>5, <1>6 DEF ClaimInv, ClaimedOnce, TookOn, Claims, Refuses, Live
<1>8. ASSUME NEW q \in Requests
      PROVE  RepliedInv(q)'
  <2>1. CASE q = r
    BY <1>1, <1>2, <1>6, <2>1 DEF RepliedInv, ReplyIsTrue, Claims, Offers, Refuses, Live, Unclaimed
  <2>2. CASE q # r
    <3>1. RepliedInv(q)
      BY DEF ClaimInv
    <3>2. act[q] = a /\ TookOn(q) => UNCHANGED <<status[a], planned[a], applied[a]>>
      BY <1>5 DEF Refuses
    <3> QED
      BY <1>1, <1>3, <1>4, <2>2, <3>1, <3>2, RepliedStays DEF MovesOnly, TouchesOnly, Forward
  <2> QED BY <2>1, <2>2
<1>9. ASSUME NEW b \in ActionIds, status'[b] = "confirmed"
      PROVE  GivenUp(b)' \/ \E q \in Requests : Executing(q, b)'
  <2>1. CASE b = a /\ Claims(r, a)
    BY <1>1, <2>1 DEF Claims, Executing
  <2>2. CASE ~(b = a /\ Claims(r, a))
    <3>1. status[b] = "confirmed" /\ type'[b] = type[b]
      BY <1>1, <1>9, <2>2 DEF MovesOnly, TouchesOnly, Offers, Refuses
    <3>2. PICK q \in Requests :
            /\ act[q] = b
            /\ \/ pc[q] \in Live \cup {"lost"}
               \/ pc[q] = "done" /\ reply[q] \in {"ok", "already_exists"} /\ type[b] \in DirectTypes
      BY <3>1 DEF ClaimInv, ClaimHasHandler, GivenUp, Executing, Kind
    <3>3. q # r
      BY <1>2, <3>2 DEF Live
    <3> QED
      BY <1>4, <3>1, <3>2, <3>3 DEF GivenUp, Executing, Kind
  <2> QED BY <2>1, <2>2
<1> QED
  BY <1>7, <1>8, <1>9 DEF ClaimInv, ClaimHasHandler

\* LEMMA: a crash, the clock and stuttering keep claims and replies.
LEMMA OthersKeepClaims == ClaimInv /\ (Crash \/ Clock \/ UNCHANGED vars) => ClaimInv'
<1> SUFFICES ASSUME ClaimInv, Crash \/ Clock \/ UNCHANGED vars PROVE ClaimInv'
  OBVIOUS
<1>1. /\ UNCHANGED <<act, reply, status, type, planned, applied>>
      /\ \A r \in Requests : pc'[r] = pc[r] \/ (pc[r] \in Live /\ pc'[r] = "lost")
  BY DEF Crash, Clock, Tick, Untouched, requestVars, crmVars, tableVars, vars
<1>2. ClaimedOnce'
  BY <1>1 DEF ClaimInv, ClaimedOnce, TookOn, Live
<1>3. ASSUME NEW r \in Requests
      PROVE  RepliedInv(r)'
  <2>1. RepliedInv(r)
    BY DEF ClaimInv
  <2> QED
    BY <1>1, <2>1 DEF RepliedInv, ReplyIsTrue, TookOn, Live
<1>4. ClaimHasHandler'
  BY <1>1 DEF ClaimInv, ClaimHasHandler, GivenUp, Executing, Kind, Live
<1> QED
  BY <1>2, <1>3, <1>4 DEF ClaimInv

\* LEMMA: claims and replies hold throughout.
LEMMA ClaimInvHolds == Spec => []ClaimInv
<1>1. Init => ClaimInv
  BY DEF Init, TablesInit, ClaimInv, ClaimedOnce, RepliedInv, TookOn, ClaimHasHandler
<1>2. IndInv /\ ClaimInv /\ [Next]_vars => ClaimInv'
  BY ContinueKeepsClaims, ArriveKeepsClaims, OthersKeepClaims DEF Next
<1> QED
  BY <1>1, <1>2, IndInvHolds, PTL DEF Spec

\* THEOREM: an action is taken on by one request in its whole life.
THEOREM ActionsAreClaimedOnce == Spec => []ClaimedOnce
<1>1. ClaimInv => ClaimedOnce
  BY DEF ClaimInv
<1> QED
  BY <1>1, ClaimInvHolds, PTL

\* THEOREM: what a reply tells of the writes in HubSpot is true, and stays true.
THEOREM RepliesAreTrue == Spec => []ReplyTellsWrites
<1>1. ClaimInv => ReplyTellsWrites
  BY DEF ClaimInv, RepliedInv, ReplyTellsWrites
<1> QED
  BY <1>1, ClaimInvHolds, PTL

\* THEOREM: no claim is left behind by a handler that answered.
THEOREM ClaimsHaveHandlers == Spec => []ClaimHasHandler
<1>1. ClaimInv => ClaimHasHandler
  BY DEF ClaimInv
<1> QED
  BY <1>1, ClaimInvHolds, PTL

-----------------------------------------------------------------------------
(* A handler's steps are numbered: no step of anybody makes them more. *)

\* LEMMA: the steps left are a number, and none once a request is over.
LEMMA StepsAreCounted ==
  IndInv => \A r \in Requests :
    /\ StepsLeft(r) \in 0 .. 5 + 2 * MaxWrites
    /\ pc[r] \in Live => StepsLeft(r) > 0
<1> SUFFICES ASSUME IndInv, NEW r \in Requests
             PROVE  /\ StepsLeft(r) \in 0 .. 5 + 2 * MaxWrites
                    /\ pc[r] \in Live => StepsLeft(r) > 0
  OBVIOUS
<1>1. MaxWrites \in Nat /\ MaxWrites > 0 /\ written[r] \in 0 .. MaxWrites
  BY RequestsAssumption DEF IndInv, TypeOK
<1>2. CASE pc[r] \in {"writing", "plan_url"}
  <2>1. act[r] \in ActionIds /\ planned[act[r]] \in 0 .. MaxWrites
    BY <1>2 DEF IndInv, TypeOK, RequestInv, Live
  <2>2. /\ pc[r] = "writing" => written[r] < planned[act[r]]
        /\ pc[r] = "plan_url" => written[r] <= planned[act[r]] /\ written[r] > 0
    BY <1>2 DEF IndInv, RequestInv
  <2> QED BY <1>1, <1>2, <2>1, <2>2 DEF StepsLeft
<1>3. CASE pc[r] \notin {"writing", "plan_url"}
  BY <1>1, <1>3 DEF IndInv, TypeOK, Places, StepsLeft, Live
<1> QED BY <1>2, <1>3

\* LEMMA: so they are after a step.
LEMMA StepsAreCountedNext ==
  IndInv' => \A r \in Requests : StepsLeft(r)' \in 0 .. 5 + 2 * MaxWrites
<1>1. (IndInv => \A r \in Requests :
         /\ StepsLeft(r) \in 0 .. 5 + 2 * MaxWrites
         /\ pc[r] \in Live => StepsLeft(r) > 0)'
  BY StepsAreCounted, PTL
<1> QED BY <1>1

\* LEMMA: a request that does not move keeps its steps, whatever others do, as
\* nobody else touches the plan of the action it executes.
LEMMA OthersKeepTheirSteps ==
  ASSUME IndInv, NEW q \in Requests, pc'[q] = pc[q], act'[q] = act[q], written'[q] = written[q],
         pc[q] \in Live => planned'[act[q]] = planned[act[q]]
  PROVE  StepsLeft(q)' = StepsLeft(q)
BY DEF StepsLeft, Live

\* LEMMA: a later step of a request leaves it fewer.
LEMMA ContinueAdvances ==
  ASSUME IndInv, IndInv', NEW r \in Requests, Continue(r)
  PROVE  StepsLeft(r)' < StepsLeft(r)
<1> DEFINE a == act[r]
<1> USE DEF Goto, Answer, Raise, Untouched, tableVars, crmVars
<1>0. /\ pc[r] \in Live /\ a \in ActionIds /\ act'[r] = a
      /\ MaxWrites \in Nat /\ planned[a] \in 0 .. MaxWrites /\ planned'[a] \in 0 .. MaxWrites
      /\ written[r] \in 0 .. MaxWrites /\ StepsLeft(r) \in Nat /\ StepsLeft(r) > 0
  BY ContinueMoves, StepsAreCounted, RequestsAssumption DEF IndInv, TypeOK
<1>1. CASE pc'[r] \in {"done", "lost"}
  BY <1>0, <1>1 DEF StepsLeft
<1>2. CASE Prepare(r)
  <2>1. /\ pc[r] = "preparing" /\ pc'[r] \in {"recording", "writing"}
        /\ written'[r] = 0
    BY <1>0, <1>2 DEF IndInv, TypeOK, RequestInv, Prepare
  <2> QED BY <1>0, <2>1 DEF StepsLeft
<1>3. CASE WriteAcknowledged(r)
  <2>1. /\ pc[r] = "writing" /\ written[r] < planned[a] /\ planned'[a] = planned[a]
        /\ written'[r] = written[r] + 1
    BY <1>0, <1>3 DEF IndInv, TypeOK, RequestInv, WriteAcknowledged
  <2>2. pc'[r] \in {"plan_url", "recording", "writing"}
    BY <1>0, <1>3 DEF IndInv, TypeOK, WriteAcknowledged, AfterWrites
  <2> QED BY <1>0, <2>1, <2>2 DEF StepsLeft
<1>4. CASE PlanUrlFound(r)
  <2>1. /\ pc[r] = "plan_url" /\ written[r] <= planned[a]
        /\ pc'[r] \in {"recording", "writing"} /\ UNCHANGED <<planned, written>>
    BY <1>0, <1>4 DEF IndInv, TypeOK, RequestInv, PlanUrlFound, AfterWrites
  <2> QED BY <1>0, <2>1 DEF StepsLeft
<1>5. CASE PrepareFails(r) \/ WriteUnacknowledged(r) \/ WriteRefused(r) \/ PlanUrlFails(r) \/ UrlFails(r)
  <2>1. /\ pc[r] \in {"preparing", "writing", "plan_url", "answering"} /\ pc'[r] = "failing"
        /\ pc[r] = "writing" => written[r] < planned[a]
        /\ pc[r] = "plan_url" => written[r] <= planned[a]
    BY <1>0, <1>5 DEF IndInv, TypeOK, RequestInv, PrepareFails, WriteUnacknowledged, WriteRefused,
       PlanUrlFails, UrlFails
  <2> QED BY <1>0, <2>1 DEF StepsLeft
<1>6. CASE Complete(r) \/ CompleteRaises(r)
  <2>1. pc[r] = "recording" /\ pc'[r] \in {"answering", "done", "lost"}
    BY <1>0, <1>6 DEF IndInv, TypeOK, Complete, CompleteRaises, AfterCompletion
  <2> QED BY <2>1 DEF StepsLeft
<1>7. CASE WriteNotConnected(r) \/ UrlFound(r) \/ UrlRaises(r) \/ Fail(r) \/ FailRaises(r)
  <2>1. pc'[r] \in {"done", "lost"}
    BY <1>0, <1>7 DEF IndInv, TypeOK, WriteNotConnected, UrlFound, UrlRaises, Fail, FailRaises
  <2> QED BY <1>1, <2>1
<1> QED BY <1>2, <1>3, <1>4, <1>5, <1>6, <1>7 DEF Continue

\* LEMMA: a first transaction gives nobody more steps: what it claims, nobody
\* else executes.
LEMMA ArriveAdvances ==
  ASSUME IndInv, IndInv', NEW r \in Requests, Arrive(r), NEW q \in Requests
  PROVE  StepsLeft(q)' <= StepsLeft(q)
<1>1. pc[r] = "idle" /\ \E a \in ActionIds :
        /\ MovesOnly(r, a) /\ act'[r] = a
        /\ Claims(r, a) \/ Offers(r, a) \/ Refuses(r, a)
  BY ArriveMoves
<1> PICK a \in ActionIds :
      /\ MovesOnly(r, a) /\ act'[r] = a
      /\ Claims(r, a) \/ Offers(r, a) \/ Refuses(r, a)
  BY <1>1
<1>2. StepsLeft(q) \in 0 .. 5 + 2 * MaxWrites /\ StepsLeft(q)' \in 0 .. 5 + 2 * MaxWrites
      /\ MaxWrites \in Nat
  BY StepsAreCounted, StepsAreCountedNext, RequestsAssumption
<1>3. CASE q = r
  BY <1>1, <1>2, <1>3 DEF StepsLeft
<1>4. CASE q # r
  <2>1. pc[q] \in Live => planned'[act[q]] = planned[act[q]]
    <3>1. CASE Refuses(r, a)
      BY <3>1 DEF Refuses
    <3>2. CASE status[a] \in Unclaimed
      BY <1>4, <3>2, UnclaimedIsAlone, ExecutorIsAlone DEF Alone, Executing, MovesOnly, TouchesOnly
    <3> QED BY <3>1, <3>2 DEF Claims, Offers, Unclaimed
  <2>2. StepsLeft(q)' = StepsLeft(q)
    BY <1>4, <2>1, OthersKeepTheirSteps DEF MovesOnly, TouchesOnly
  <2> QED BY <1>2, <2>2
<1> QED BY <1>3, <1>4

\* THEOREM: every step of a handler brings it nearer to its end, and no step of
\* another request, no crash and no passing of time takes it back: a request that
\* is given its turn ends after at most 5 + 2 * MaxWrites of its own steps.
THEOREM RequestsAdvance == Spec => HandlersAdvance
<1> DEFINE Advance ==
      \A r \in Requests :
        /\ StepsLeft(r) \in 0 .. 5 + 2 * MaxWrites
        /\ StepsLeft(r)' <= StepsLeft(r)
        /\ Continue(r) => StepsLeft(r)' < StepsLeft(r)
<1>1. IndInv /\ IndInv' /\ [Next]_vars => Advance
  <2> SUFFICES ASSUME IndInv, IndInv', [Next]_vars, NEW r \in Requests
               PROVE  /\ StepsLeft(r) \in 0 .. 5 + 2 * MaxWrites
                      /\ StepsLeft(r)' <= StepsLeft(r)
                      /\ Continue(r) => StepsLeft(r)' < StepsLeft(r)
    OBVIOUS
  <2>1. StepsLeft(r) \in 0 .. 5 + 2 * MaxWrites /\ MaxWrites \in Nat
    BY StepsAreCounted, RequestsAssumption
  <2>2. StepsLeft(r)' \in 0 .. 5 + 2 * MaxWrites
    BY StepsAreCountedNext
  <2>3. Continue(r) => StepsLeft(r)' < StepsLeft(r)
    BY ContinueAdvances
  <2>4. CASE \E q \in Requests : Continue(q)
    <3> PICK q \in Requests : Continue(q)
      BY <2>4
    <3>1. CASE q = r
      BY <2>1, <2>2, <2>3, <3>1
    <3>2. CASE q # r
      <4>1. MovesOnly(q, act[q]) /\ act[q] \in ActionIds /\ pc[q] \in Live
        BY ContinueMoves
      <4>2. pc[r] \in Live => planned'[act[r]] = planned[act[r]]
        BY <3>2, <4>1, ExecutorIsAlone DEF Alone, Executing, MovesOnly, TouchesOnly
      <4>3. StepsLeft(r)' = StepsLeft(r)
        BY <3>2, <4>1, <4>2, OthersKeepTheirSteps DEF MovesOnly, TouchesOnly
      <4> QED BY <2>1, <2>3, <4>3
    <3> QED BY <3>1, <3>2
  <2>5. CASE \E q \in Requests : Arrive(q)
    BY <2>1, <2>3, <2>5, ArriveAdvances
  <2>6. CASE Crash
    <3>1. pc'[r] = pc[r] \/ pc'[r] = "lost"
      BY <2>6 DEF Crash
    <3>2. UNCHANGED <<act, written, planned>>
      BY <2>6 DEF Crash, Untouched, crmVars
    <3> QED BY <2>1, <2>2, <2>3, <3>1, <3>2, OthersKeepTheirSteps DEF StepsLeft
  <2>7. CASE Clock \/ UNCHANGED vars
    <3>1. UNCHANGED <<pc, act, written, planned>>
      BY <2>7 DEF Clock, requestVars, crmVars, vars
    <3> QED BY <2>1, <2>3, <3>1, OthersKeepTheirSteps
  <2> QED BY <2>4, <2>5, <2>6, <2>7 DEF Next
<1>2. [Advance]_vars => [\A r \in Requests :
        /\ StepsLeft(r) \in 0 .. 5 + 2 * MaxWrites
        /\ StepsLeft(r)' <= StepsLeft(r)
        /\ Continue(r) => StepsLeft(r)' < StepsLeft(r)]_vars
  OBVIOUS
<1> QED
  BY <1>1, <1>2, IndInvHolds, PTL DEF Spec, HandlersAdvance

-----------------------------------------------------------------------------
(* Refinement: every step is a step of OnceOnly or changes nothing it sees. *)

\* LEMMA: one status changes one phase.
LEMMA PhaseMoves ==
  ASSUME NEW a \in ActionIds, \A b \in ActionIds \ {a} : status'[b] = status[b]
  PROVE  Phases' = [Phases EXCEPT ![a] = Phase(a)']
BY DEF Phases, Phase

\* LEMMA: unchanged statuses are unchanged phases.
LEMMA PhasesKept == status' = status => Phases' = Phases
BY DEF Phases, Phase

OnceStep == [Once!OnceNext]_(Once!onceVars)

\* LEMMA: a first transaction is Offer, TakeDirect, TakeOffered or a stutter.
LEMMA ArriveRefines ==
  ASSUME IndInv, NEW r \in Requests, Arrive(r)
  PROVE  OnceStep
<1>1. CASE \E m \in Messages, t \in DirectTypes : StartDirect(r, m, t)
  <2> PICK m \in Messages, t \in DirectTypes : StartDirect(r, m, t)
    BY <1>1
  <2> DEFINE a == DirectId(t, m)
  <2>1. a \in ActionIds /\ a \notin ProposalIds
    BY IdsAssumption DEF ActionIds, DirectIds
  <2>2. status[a] = "none"
    BY <2>1 DEF IndInv, TypeOK, TablesTypeOK, ActionInv, TablesAgree, Story, Statuses,
       Settled, Unclaimed, StartDirect, StartDirectAction, Claimable
  <2>3. /\ \A b \in ActionIds \ {a} : status'[b] = status[b]
        /\ status'[a] = "confirmed"
        /\ UNCHANGED <<planned, applied>>
    BY <2>1 DEF IndInv, TypeOK, TablesTypeOK, StartDirect, StartDirectAction, CreateRow
  <2>4. Phases[a] = "absent" /\ Phase(a)' = "taken"
    BY <2>1, <2>2, <2>3 DEF Phases, Phase
  <2>5. Once!TakeDirect(a)
    BY <2>1, <2>3, <2>4, PhaseMoves DEF Once!TakeDirect, Once!Move
  <2> QED
    BY <2>1, <2>5 DEF OnceStep, Once!OnceNext
<1>2. CASE \E s \in Senders, t \in ProposalTypes, a \in ProposalIds : Propose(r, s, t, a)
  <2> PICK s \in Senders, t \in ProposalTypes, a \in ProposalIds : Propose(r, s, t, a)
    BY <1>2
  <2>1. a \in ActionIds
    BY DEF ActionIds
  <2>2. /\ \A b \in ActionIds \ {a} : status'[b] = status[b]
        /\ status[a] = "none" /\ status'[a] = "pending"
        /\ UNCHANGED <<planned, applied>>
    BY <2>1 DEF IndInv, TypeOK, TablesTypeOK, Propose, CreatePendingAction, CreateRow
  <2>3. Phases[a] = "absent" /\ Phase(a)' = "offered"
    BY <2>1, <2>2 DEF Phases, Phase
  <2>4. Once!Offer(a)
    BY <2>1, <2>2, <2>3, PhaseMoves DEF Once!Offer, Once!Move
  <2> QED
    BY <2>1, <2>4 DEF OnceStep, Once!OnceNext
<1>3. CASE \E s \in Senders, a \in ProposalIds : Confirm(r, s, a)
  <2> PICK s \in Senders, a \in ProposalIds : Confirm(r, s, a)
    BY <1>3
  <2>1. a \in ActionIds
    BY DEF ActionIds
  <2>2. /\ \A b \in ActionIds \ {a} : status'[b] = status[b]
        /\ status[a] = "pending" /\ status'[a] = "confirmed"
        /\ planned' = [planned EXCEPT ![a] = 1]
        /\ UNCHANGED applied
    BY <2>1 DEF IndInv, TypeOK, TablesTypeOK, Confirm, ConfirmAndClaimAction, Confirmable
  <2>3. Phases[a] = "offered" /\ Phase(a)' = "taken"
    BY <2>1, <2>2 DEF Phases, Phase
  <2>4. Once!TakeOffered(a)
    BY <2>1, <2>2, <2>3, PhaseMoves DEF Once!TakeOffered, Once!Move
  <2> QED
    BY <2>1, <2>4 DEF OnceStep, Once!OnceNext
<1>4. CASE UNCHANGED <<planned, applied, tableVars>>
  BY <1>4, PhasesKept DEF OnceStep, Once!onceVars, tableVars
<1> QED
  BY <1>1, <1>2, <1>3, <1>4 DEF Arrive, StartDuplicate, RejectConfirmation

\* LEMMA: a later step is Allow, Affect, Settle or a stutter.
LEMMA ContinueRefines ==
  ASSUME IndInv, NEW r \in Requests, Continue(r)
  PROVE  OnceStep
<1>0. PICK a \in ActionIds : a = act[r]
  <2>1. pc[r] \in Live
    BY DEF Live, Continue, Prepare, PrepareFails, WriteAcknowledged, WriteUnacknowledged,
       WriteRefused, WriteNotConnected, PlanUrlFound, PlanUrlFails, Complete, CompleteRaises,
       UrlFound, UrlFails, UrlRaises, Fail, FailRaises
  <2> QED
    BY <2>1, ExecutorIsAlone
<1>1. CASE Prepare(r)
  <2>1. /\ status[a] = "confirmed" /\ planned[a] = 0 /\ applied[a] = 0
        /\ UNCHANGED <<status, applied>>
    BY <1>0, <1>1 DEF IndInv, TypeOK, ActionInv, RequestInv, Prepare, tableVars
  <2>2. PICK n \in PlanSizes(type[a]) : planned' = [planned EXCEPT ![a] = n]
    BY <1>0, <1>1 DEF Prepare
  <2>3. CASE n = 0
    <3>1. planned' = planned
      BY <1>0, <2>1, <2>2, <2>3 DEF IndInv, TypeOK
    <3> QED
      BY <2>1, <3>1, PhasesKept DEF OnceStep, Once!onceVars
  <2>4. CASE n # 0
    <3>1. n \in 1 .. MaxWrites
      BY <2>2, <2>4, RequestsAssumption DEF PlanSizes
    <3>2. Phases[a] = "taken"
      BY <1>0, <2>1 DEF Phases, Phase
    <3>3. Once!Allow(a, n)
      BY <2>1, <2>2, <3>2, PhasesKept DEF Once!Allow
    <3> QED
      BY <1>0, <3>1, <3>3 DEF OnceStep, Once!OnceNext
  <2> QED BY <2>3, <2>4
<1>2. CASE WriteAcknowledged(r) \/ WriteUnacknowledged(r)
  <2>1. /\ status[a] = "confirmed" /\ applied[a] < planned[a]
        /\ UNCHANGED <<status, planned>>
        /\ applied' = [applied EXCEPT ![a] = @ + 1]
    BY <1>0, <1>2 DEF IndInv, RequestInv, WriteAcknowledged, WriteUnacknowledged, tableVars
  <2>2. Phases[a] = "taken"
    BY <1>0, <2>1 DEF Phases, Phase
  <2>3. Once!Affect(a)
    BY <2>1, <2>2, PhasesKept DEF Once!Affect
  <2> QED
    BY <1>0, <2>3 DEF OnceStep, Once!OnceNext
<1>3. CASE Complete(r) \/ Fail(r)
  <2>1. /\ \A b \in ActionIds \ {a} : status'[b] = status[b]
        /\ status'[a] = status[a] \/ (status[a] = "confirmed" /\ status'[a] \in Settled)
        /\ UNCHANGED <<planned, applied>>
    BY <1>0, <1>3 DEF IndInv, TypeOK, TablesTypeOK, Settled, Complete, CompleteAction, Fail,
       FailAction, RecordPartialAction, SetStatus, Updatable, tableVars, crmVars
  <2>2. CASE status'[a] = status[a]
    <3>1. Phases' = Phases
      BY <2>1, <2>2 DEF Phases, Phase
    <3> QED
      BY <2>1, <3>1 DEF OnceStep, Once!onceVars
  <2>3. CASE status[a] = "confirmed" /\ status'[a] \in Settled
    <3>1. Phases[a] = "taken" /\ Phase(a)' = "settled"
      BY <1>0, <2>3 DEF Phases, Phase, Settled
    <3>2. Once!Settle(a)
      BY <1>0, <2>1, <3>1, PhaseMoves DEF Once!Settle, Once!Move
    <3> QED
      BY <1>0, <3>2 DEF OnceStep, Once!OnceNext
  <2> QED BY <2>1, <2>2, <2>3
<1>4. CASE UNCHANGED <<planned, applied, tableVars>>
  BY <1>4, PhasesKept DEF OnceStep, Once!onceVars, tableVars
<1> QED
  BY <1>1, <1>2, <1>3, <1>4 DEF Continue, PrepareFails, WriteRefused, WriteNotConnected,
     PlanUrlFound, PlanUrlFails, CompleteRaises, UrlFound, UrlFails, UrlRaises, FailRaises, crmVars

\* THEOREM: the agent's flows over the three tables implement OnceOnly.
THEOREM Refinement == Spec => ImplementsOnceOnly
<1>1. Init => Once!OnceInit
  BY DEF Init, TablesInit, Once!OnceInit, Phases, Phase
<1>2. IndInv /\ [Next]_vars => [Once!OnceNext]_(Once!onceVars)
  <2>1. IndInv /\ (Crash \/ Clock \/ UNCHANGED vars) => OnceStep
    BY PhasesKept DEF OnceStep, Once!onceVars, Crash, Clock, Tick, tableVars, crmVars, vars
  <2> QED
    BY <2>1, ArriveRefines, ContinueRefines DEF Next, OnceStep
<1> QED
  BY <1>1, <1>2, IndInvHolds, PTL DEF Spec, ImplementsOnceOnly, Once!OnceSpec

-----------------------------------------------------------------------------
(* Refinement of PlanRun: a request that carries out a plan owns its action,  *)
(* so that what PlanRun sees of it changes by its own steps only.             *)

RunStep == [Run!RunNext]_(Run!runVars)

\* PlanRun sees nothing happen to request q.
SameRun(q) ==
  /\ PlanStages'[q] = PlanStages[q]
  /\ PlanDecided'[q] = PlanDecided[q]
  /\ PlanCarried'[q] = PlanCarried[q]
  /\ PlanKnown'[q] = PlanKnown[q]
  /\ PlanAnswers'[q] = PlanAnswers[q]

\* LEMMA: what PlanRun sees of a request depends on the request and its action.
LEMMA RunKept ==
  ASSUME NEW q \in Requests,
         pc'[q] = pc[q], act'[q] = act[q], reply'[q] = reply[q], written'[q] = written[q],
         TookOn(q) => /\ type'[act[q]] = type[act[q]]
                      /\ planned'[act[q]] = planned[act[q]]
                      /\ applied'[act[q]] = applied[act[q]]
  PROVE  SameRun(q)
<1>1. IsPlan(q)' <=> IsPlan(q)
  BY DEF IsPlan, TookOn, Kind
<1>2. IsPlan(q) => TookOn(q)
  BY DEF IsPlan
<1>3. PlanStage(q)' = PlanStage(q)
  BY <1>1, <1>2 DEF PlanStage
<1>4. PlanAnswer(q)' = PlanAnswer(q)
  BY <1>1 DEF PlanAnswer
<1>5. \A n : StepsUpTo(q, n)' = StepsUpTo(q, n)
  BY <1>1 DEF StepsUpTo
<1> QED
  BY <1>1, <1>2, <1>3, <1>4, <1>5 DEF SameRun, PlanStages, PlanDecided, PlanCarried, PlanKnown,
     PlanAnswers, StepsUpTo

\* LEMMA: a request that carries out no plan has no run.
LEMMA Unplanned ==
  ASSUME NEW q \in Requests, ~IsPlan(q)
  PROVE  /\ PlanStages[q] = "absent" /\ PlanAnswers[q] = "none"
         /\ PlanDecided[q] = {} /\ PlanCarried[q] = {} /\ PlanKnown[q] = {}
<1>1. PlanStages[q] = "absent"
  BY DEF PlanStages, PlanStage
<1>2. PlanAnswers[q] = "none"
  BY DEF PlanAnswers, PlanAnswer
<1> QED
  BY <1>1, <1>2 DEF PlanDecided, PlanCarried, PlanKnown, StepsUpTo

\* LEMMA: and PlanRun sees nothing of it.
LEMMA UnplannedUnseen ==
  ASSUME NEW q \in Requests, ~IsPlan(q), ~IsPlan(q)'
  PROVE  SameRun(q)
<1>1. PlanStages'[q] = "absent"
  BY DEF PlanStages, PlanStage
<1>2. PlanAnswers'[q] = "none"
  BY DEF PlanAnswers, PlanAnswer
<1> QED
  BY <1>1, <1>2, Unplanned DEF SameRun, PlanDecided, PlanCarried, PlanKnown, StepsUpTo

\* LEMMA: if PlanRun sees nothing happen to any request, it sees a stutter.
LEMMA AllRunsKept ==
  ASSUME \A q \in Requests : SameRun(q)
  PROVE  RunStep
BY DEF RunStep, Run!runVars, SameRun, PlanStages, PlanDecided, PlanCarried, PlanKnown, PlanAnswers

\* LEMMA: a step that PlanRun sees of one request only, component by component.
LEMMA OneRunMoves ==
  ASSUME NEW r \in Requests, \A q \in Requests \ {r} : SameRun(q)
  PROVE  /\ PlanStages' = [PlanStages EXCEPT ![r] = PlanStages'[r]]
         /\ PlanDecided' = [PlanDecided EXCEPT ![r] = PlanDecided'[r]]
         /\ PlanCarried' = [PlanCarried EXCEPT ![r] = PlanCarried'[r]]
         /\ PlanKnown' = [PlanKnown EXCEPT ![r] = PlanKnown'[r]]
         /\ PlanAnswers' = [PlanAnswers EXCEPT ![r] = PlanAnswers'[r]]
         /\ PlanDecided'[r] = PlanDecided[r] => PlanDecided' = PlanDecided
         /\ PlanCarried'[r] = PlanCarried[r] => PlanCarried' = PlanCarried
         /\ PlanKnown'[r] = PlanKnown[r] => PlanKnown' = PlanKnown
         /\ PlanAnswers'[r] = PlanAnswers[r] => PlanAnswers' = PlanAnswers
         /\ PlanStages'[r] = PlanStages[r] => PlanStages' = PlanStages
BY DEF SameRun, PlanStages, PlanDecided, PlanCarried, PlanKnown, PlanAnswers

\* LEMMA: a later step of a request is not seen of any other: none took its action.
LEMMA ContinueIsAlone ==
  ASSUME IndInv, ClaimInv, NEW r \in Requests, Continue(r)
  PROVE  \A q \in Requests \ {r} : SameRun(q)
<1> SUFFICES ASSUME NEW q \in Requests \ {r} PROVE SameRun(q)
  OBVIOUS
<1>1. /\ pc[r] \in Live /\ act[r] \in ActionIds
      /\ MovesOnly(r, act[r])
  BY ContinueMoves
<1>2. TookOn(q) => act[q] \in ActionIds \ {act[r]}
  BY <1>1, RunningTookOn DEF ClaimInv, ClaimedOnce, RepliedInv
<1> QED
  BY <1>1, <1>2, RunKept DEF MovesOnly, TouchesOnly

\* LEMMA: nor is a first transaction: it leaves an action that was taken on alone.
LEMMA ArriveIsAlone ==
  ASSUME IndInv, ClaimInv, NEW r \in Requests, Arrive(r)
  PROVE  \A q \in Requests \ {r} : SameRun(q)
<1> SUFFICES ASSUME NEW q \in Requests \ {r} PROVE SameRun(q)
  OBVIOUS
<1>1. PICK a \in ActionIds :
        /\ MovesOnly(r, a)
        /\ Claims(r, a) \/ Offers(r, a) \/ Refuses(r, a)
  BY ArriveMoves
<1>2. TookOn(q) => act[q] \in ActionIds /\ status[act[q]] \notin Unclaimed
  BY DEF ClaimInv, RepliedInv
<1>3. TookOn(q) => act[q] # a \/ Refuses(r, a)
  BY <1>1, <1>2 DEF Claims, Offers, Unclaimed
<1> QED
  BY <1>1, <1>2, <1>3, RunKept DEF MovesOnly, TouchesOnly, Refuses

\* What PlanRun sees of a request that carries out a plan.
SeenAsPlan(r) ==
  /\ pc[r] = "preparing" => PlanStages[r] = "deciding"
  /\ pc[r] = "failing" => PlanStages[r] = IF planned[act[r]] = 0 THEN "deciding" ELSE "writing"
  /\ pc[r] \in {"writing", "plan_url", "recording", "answering"} => PlanStages[r] = "writing"
  /\ pc[r] = "done" => PlanStages[r] = "answered"
  /\ pc[r] = "lost" => PlanStages[r] = "gone"
  /\ PlanDecided[r] = 1 .. planned[act[r]]
  /\ PlanCarried[r] = 1 .. applied[act[r]]
  /\ PlanKnown[r] = 1 .. written[r]
  /\ reply[r] \in {"none", "ok", "partial"} => PlanAnswers[r] = reply[r]
  /\ reply[r] = "already_exists" => PlanAnswers[r] = "existing"
  /\ reply[r] = "unavailable" => PlanAnswers[r] = "failed"

\* LEMMA: that is what it sees.
LEMMA PlanSeen == \A r \in Requests : IsPlan(r) => SeenAsPlan(r)
<1> SUFFICES ASSUME NEW r \in Requests, IsPlan(r) PROVE SeenAsPlan(r)
  OBVIOUS
<1>1. PlanStages[r] = PlanStage(r) /\ PlanAnswers[r] = PlanAnswer(r)
  BY DEF PlanStages, PlanAnswers
<1>2. pc[r] = "preparing" => PlanStages[r] = "deciding"
  BY <1>1 DEF PlanStage
<1>3. pc[r] = "failing" => PlanStages[r] = IF planned[act[r]] = 0 THEN "deciding" ELSE "writing"
  BY <1>1 DEF PlanStage
<1>4. pc[r] \in {"writing", "plan_url", "recording", "answering"} => PlanStages[r] = "writing"
  BY <1>1 DEF PlanStage
<1>5. (pc[r] = "done" => PlanStages[r] = "answered") /\ (pc[r] = "lost" => PlanStages[r] = "gone")
  BY <1>1 DEF PlanStage
<1>6. reply[r] \in {"none", "ok", "partial"} => PlanAnswers[r] = reply[r]
  BY <1>1 DEF PlanAnswer
<1>7. /\ reply[r] = "already_exists" => PlanAnswers[r] = "existing"
      /\ reply[r] = "unavailable" => PlanAnswers[r] = "failed"
  BY <1>1 DEF PlanAnswer
<1> QED
  BY <1>2, <1>3, <1>4, <1>5, <1>6, <1>7 DEF SeenAsPlan, PlanDecided, PlanCarried, PlanKnown,
     StepsUpTo

\* LEMMA: and what it sees after a step.
LEMMA PlanSeenNext == \A r \in Requests : IsPlan(r)' => SeenAsPlan(r)'
<1>1. (\A r \in Requests : IsPlan(r) => SeenAsPlan(r))'
  BY PlanSeen, PTL
<1> QED
  BY <1>1

\* LEMMA: the numbers of a plan that runs: the request is at most one write behind.
LEMMA PlanRuns ==
  ASSUME IndInv, ClaimInv, NEW r \in Requests, Continue(r), IsPlan(r)
  PROVE  LET a == act[r] IN
         /\ a \in ActionIds /\ type[a] = "crm_plan" /\ reply[r] = "none"
         /\ IsPlan(r)' /\ act'[r] = a
         /\ planned[a] \in 0 .. MaxWrites /\ applied[a] \in Nat /\ written[r] \in Nat
         /\ applied[a] <= planned[a]
<1> DEFINE a == act[r]
<1>1. pc[r] \in Live /\ a \in ActionIds /\ act'[r] = a
  BY ContinueMoves
<1>2. reply[r] = "none"
  BY <1>1, RunningTookOn
<1>3. type' = type
  BY DEF Continue, Prepare, PrepareFails, WriteAcknowledged, WriteUnacknowledged, WriteRefused,
     WriteNotConnected, PlanUrlFound, PlanUrlFails, Complete, CompleteAction, CompleteRaises,
     UrlFound, UrlFails, UrlRaises, Fail, FailAction, RecordPartialAction, FailRaises, tableVars
<1>4. TookOn(r)'
  BY <1>2, ContinueAnswers DEF TookOn, Live
<1> QED
  BY <1>1, <1>2, <1>3, <1>4, RequestsAssumption DEF IsPlan, Kind, IndInv, TypeOK, ActionInv

\* LEMMA: a plan's writes are steps of PlanRun.
LEMMA WritingRefines ==
  ASSUME IndInv, ClaimInv, NEW r \in Requests, IsPlan(r),
         WriteAcknowledged(r) \/ WriteUnacknowledged(r)
  PROVE  RunStep
<1> DEFINE a == act[r]
           i == written[r] + 1
<1>1. Continue(r)
  BY DEF Continue
<1>2. /\ a \in ActionIds /\ type[a] = "crm_plan" /\ reply[r] = "none"
      /\ IsPlan(r)' /\ act'[r] = a
      /\ planned[a] \in 0 .. MaxWrites /\ applied[a] \in Nat /\ written[r] \in Nat
  BY <1>1, PlanRuns
<1>3. /\ pc[r] = "writing" /\ applied[a] = written[r] /\ written[r] < planned[a]
      /\ applied'[a] = i /\ UNCHANGED <<planned, reply>>
  BY <1>2 DEF IndInv, TypeOK, RequestInv, WriteAcknowledged, WriteUnacknowledged
<1>4. \/ written'[r] = i /\ pc'[r] \in {"writing", "plan_url", "recording"}
      \/ written'[r] = written[r] /\ pc'[r] = "failing"
  BY DEF IndInv, TypeOK, WriteAcknowledged, WriteUnacknowledged, AfterWrites, Goto
<1>5. /\ PlanStages[r] = "writing" /\ PlanStages'[r] = "writing"
      /\ PlanDecided[r] = 1 .. planned[a] /\ PlanDecided'[r] = 1 .. planned[a]
      /\ PlanCarried[r] = 1 .. written[r] /\ PlanCarried'[r] = 1 .. i
      /\ PlanKnown[r] = 1 .. written[r]
      /\ PlanKnown'[r] = 1 .. i \/ PlanKnown'[r] = PlanKnown[r]
      /\ PlanAnswers[r] = "none" /\ PlanAnswers'[r] = "none"
  <2>1. SeenAsPlan(r) /\ SeenAsPlan(r)'
    BY <1>2, PlanSeen, PlanSeenNext
  <2> QED
    BY <1>2, <1>3, <1>4, <2>1 DEF SeenAsPlan
<1>6. 1 .. i = (1 .. written[r]) \cup {i} /\ i \in (1 .. planned[a]) \ (1 .. written[r])
  BY <1>2, <1>3
<1>7. Run!Carry(r, i)
  BY <1>1, <1>5, <1>6, ContinueIsAlone, OneRunMoves DEF Run!Carry
<1>8. i \in 1 .. MaxWrites
  BY <1>2, <1>3, RequestsAssumption
<1> QED
  BY <1>7, <1>8 DEF RunStep, Run!RunNext

\* LEMMA: Prepare is PlanRun's decision: the plan has no write behind it.
LEMMA PrepareRefines ==
  ASSUME IndInv, ClaimInv, NEW r \in Requests, IsPlan(r), Prepare(r)
  PROVE  RunStep
<1> DEFINE a == act[r]
<1>1. Continue(r)
  BY DEF Continue
<1>2. /\ a \in ActionIds /\ type[a] = "crm_plan" /\ reply[r] = "none"
      /\ IsPlan(r)' /\ act'[r] = a
      /\ applied[a] \in Nat /\ applied[a] <= planned[a]
  BY <1>1, PlanRuns
<1>3. /\ pc[r] = "preparing" /\ planned[a] = 0 /\ written[r] = 0
      /\ UNCHANGED <<applied, written, reply>>
  BY <1>2 DEF IndInv, RequestInv, Prepare
<1>4. PICK n \in 0 .. MaxWrites : planned'[a] = n /\ pc'[r] \in {"recording", "writing"}
  BY <1>2 DEF IndInv, TypeOK, Prepare, PlanSizes, Goto
<1>5. applied[a] = 0
  BY <1>2, <1>3
<1>6. /\ PlanStages[r] = "deciding" /\ PlanStages'[r] = "writing"
      /\ PlanDecided'[r] = 1 .. n
      /\ PlanCarried'[r] = PlanCarried[r]
      /\ PlanKnown'[r] = PlanKnown[r]
      /\ PlanAnswers'[r] = PlanAnswers[r]
  <2>1. SeenAsPlan(r) /\ SeenAsPlan(r)'
    BY <1>2, PlanSeen, PlanSeenNext
  <2> QED
    BY <1>2, <1>3, <1>4, <1>5, <2>1 DEF SeenAsPlan
<1>7. 1 .. n \in SUBSET (1 .. MaxWrites)
  BY <1>4, RequestsAssumption
<1>8. Run!Decide(r)
  BY <1>1, <1>6, <1>7, ContinueIsAlone, OneRunMoves DEF Run!Decide, Run!Goto
<1> QED
  BY <1>8 DEF RunStep, Run!RunNext

\* LEMMA: a plan that is answered with what it came to.
LEMMA AnswerRefines ==
  ASSUME IndInv, ClaimInv, NEW r \in Requests, IsPlan(r), Continue(r), pc'[r] = "done"
  PROVE  RunStep
<1> DEFINE a == act[r]
<1> USE DEF Goto, Answer, Untouched, crmVars
<1>1. /\ a \in ActionIds /\ type[a] = "crm_plan" /\ reply[r] = "none"
      /\ IsPlan(r)' /\ act'[r] = a
      /\ planned[a] \in 0 .. MaxWrites /\ applied[a] \in Nat /\ written[r] \in Nat
      /\ applied[a] <= planned[a]
  BY PlanRuns
<1>2. Complete(r) \/ CompleteRaises(r) \/ UrlFound(r) \/ Fail(r)
  BY DEF IndInv, TypeOK, Continue, Prepare, PrepareFails, WriteAcknowledged, WriteUnacknowledged,
     WriteRefused, WriteNotConnected, PlanUrlFound, PlanUrlFails, UrlFails, UrlRaises, FailRaises,
     AfterWrites, Raise
<1>3. UNCHANGED <<planned, applied, written>>
  BY <1>2 DEF Complete, CompleteRaises, UrlFound, Fail
<1>4. SeenAsPlan(r) /\ SeenAsPlan(r)'
  BY <1>1, PlanSeen, PlanSeenNext
<1>5. /\ PlanStages'[r] = "answered"
      /\ PlanDecided'[r] = PlanDecided[r] /\ PlanDecided[r] = 1 .. planned[a]
      /\ PlanCarried'[r] = PlanCarried[r] /\ PlanCarried[r] = 1 .. applied[a]
      /\ PlanKnown'[r] = PlanKnown[r] /\ PlanKnown[r] = 1 .. written[r]
  BY <1>1, <1>3, <1>4 DEF SeenAsPlan
<1>6. /\ PlanStages' = [PlanStages EXCEPT ![r] = "answered"]
      /\ PlanDecided' = PlanDecided /\ PlanCarried' = PlanCarried /\ PlanKnown' = PlanKnown
      /\ PlanAnswers' = [PlanAnswers EXCEPT ![r] = PlanAnswers'[r]]
  BY <1>5, ContinueIsAlone, OneRunMoves
<1>7. CASE Complete(r) \/ CompleteRaises(r) \/ UrlFound(r)
  <2>1. /\ pc[r] \in {"recording", "answering"}
        /\ applied[a] = planned[a] /\ written[r] = planned[a]
    BY <1>1, <1>7 DEF IndInv, RequestInv, Complete, CompleteRaises, UrlFound
  <2>2. reply'[r] = IF planned[a] = 0 THEN "already_exists" ELSE "ok"
    BY <1>1, <1>7 DEF IndInv, TypeOK, Complete, CompleteRaises, UrlFound, AfterCompletion, Raise
  <2>3. PlanAnswers'[r] = IF planned[a] = 0 THEN "existing" ELSE "ok"
    BY <1>4, <2>2 DEF SeenAsPlan
  <2>4. PlanStages[r] = "writing"
    BY <1>4, <2>1 DEF SeenAsPlan
  <2>5. (1 .. planned[a]) = {} <=> planned[a] = 0
    BY <1>1, RequestsAssumption
  <2>6. Run!Finish(r)
    BY <1>5, <1>6, <2>1, <2>3, <2>4, <2>5 DEF Run!Finish, Run!Say, Run!Goto
  <2> QED
    BY <2>6 DEF RunStep, Run!RunNext
<1>8. CASE Fail(r)
  <2>1. pc[r] = "failing"
    BY <1>8 DEF Fail
  <2>2. reply'[r] = IF written[r] > 0 THEN "partial" ELSE "unavailable"
    BY <1>1, <1>8 DEF IndInv, TypeOK, Fail
  <2>3. PlanAnswers'[r] = IF written[r] > 0 THEN "partial" ELSE "failed"
    BY <1>4, <2>2 DEF SeenAsPlan
  <2>4. (1 .. written[r]) = {} <=> written[r] = 0
    BY <1>1
  <2>5. CASE planned[a] = 0
    <3>1. written[r] = 0
      BY <1>1, <2>1, <2>5 DEF IndInv, RequestInv, ContactChanges
    <3>2. Run!Decline(r)
      BY <1>4, <1>6, <2>1, <2>3, <2>5, <3>1 DEF SeenAsPlan, Run!Decline, Run!Say, Run!Goto
    <3> QED
      BY <3>2 DEF RunStep, Run!RunNext
  <2>6. CASE planned[a] # 0
    <3>1. PlanStages[r] = "writing"
      BY <1>4, <2>1, <2>6 DEF SeenAsPlan
    <3>2. PlanAnswers'[r] = IF PlanKnown'[r] = {} THEN "failed" ELSE "partial"
      BY <1>1, <1>5, <2>3, <2>4
    <3>3. Run!GiveUp(r)
      BY <1>6, <3>1, <3>2 DEF Run!GiveUp, Run!Stop, Run!Say, Run!Goto
    <3> QED
      BY <3>3 DEF RunStep, Run!RunNext
  <2> QED BY <2>5, <2>6
<1> QED
  BY <1>2, <1>7, <1>8

\* LEMMA: a plan whose handler raises is gone.
LEMMA RaiseRefines ==
  ASSUME IndInv, ClaimInv, NEW r \in Requests, IsPlan(r), Continue(r), pc'[r] = "lost"
  PROVE  RunStep
<1> DEFINE a == act[r]
<1>1. /\ a \in ActionIds /\ type[a] = "crm_plan" /\ reply[r] = "none"
      /\ IsPlan(r)' /\ act'[r] = a
  BY PlanRuns
<1>2. UrlRaises(r) \/ FailRaises(r)
  BY <1>1 DEF IndInv, TypeOK, RequestInv, Live, DirectTypes, ContactChanges, Goto, Answer, Raise, Untouched, Continue,
     Prepare, PrepareFails, WriteAcknowledged, WriteUnacknowledged, WriteRefused,
     WriteNotConnected, PlanUrlFound, PlanUrlFails, Complete, CompleteRaises, UrlFound,
     UrlFails, Fail, AfterWrites, AfterCompletion, SwallowsCompletionErrors
<1>3. pc[r] \in {"answering", "failing"} /\ UNCHANGED <<planned, applied, written, reply>>
  BY <1>2 DEF UrlRaises, FailRaises, Raise, crmVars
<1>4. SeenAsPlan(r) /\ SeenAsPlan(r)'
  BY <1>1, PlanSeen, PlanSeenNext
<1>5. PlanStages[r] \in {"deciding", "writing"} /\ PlanStages'[r] = "gone"
  BY <1>3, <1>4 DEF SeenAsPlan
<1>6. /\ PlanDecided'[r] = PlanDecided[r] /\ PlanCarried'[r] = PlanCarried[r]
      /\ PlanKnown'[r] = PlanKnown[r] /\ PlanAnswers'[r] = PlanAnswers[r]
  BY <1>1, <1>3, <1>4 DEF SeenAsPlan
<1>7. PlanStages' = [q \in Requests |-> IF q \in {r} THEN "gone" ELSE PlanStages[q]]
  BY <1>5, ContinueIsAlone DEF SameRun, PlanStages
<1>8. Run!Die({r})
  BY <1>5, <1>6, <1>7, ContinueIsAlone, OneRunMoves DEF Run!Die
<1> QED
  BY <1>8 DEF RunStep, Run!RunNext

\* LEMMA: a step in between is not seen.
LEMMA RunningRefines ==
  ASSUME IndInv, ClaimInv, NEW r \in Requests, IsPlan(r), Continue(r),
         ~Prepare(r), ~WriteAcknowledged(r), ~WriteUnacknowledged(r),
         pc'[r] \notin {"done", "lost"}
  PROVE  RunStep
<1> DEFINE a == act[r]
<1>1. /\ a \in ActionIds /\ type[a] = "crm_plan" /\ reply[r] = "none"
      /\ IsPlan(r)' /\ act'[r] = a
      /\ planned[a] \in 0 .. MaxWrites /\ written[r] \in Nat
  BY PlanRuns
<1> USE DEF Goto, Answer, Raise, Untouched, crmVars
<1>2. /\ UNCHANGED <<planned, applied, written>>
      /\ reply'[r] = reply[r]
      /\ \/ pc[r] = "preparing" /\ pc'[r] = "failing" /\ planned[a] = 0
         \/ pc[r] = "writing" /\ pc'[r] = "failing" /\ planned[a] # 0
         \/ pc[r] = "plan_url" /\ pc'[r] = "failing" /\ planned[a] # 0
         \/ pc[r] = "plan_url" /\ pc'[r] \in {"writing", "recording"}
         \/ pc[r] = "recording" /\ pc'[r] = "answering"
  <2>1. CASE PrepareFails(r) \/ WriteRefused(r) \/ PlanUrlFound(r) \/ PlanUrlFails(r)
    BY <1>1, <2>1, RequestsAssumption DEF IndInv, TypeOK, RequestInv, PrepareFails, WriteRefused,
       PlanUrlFound, PlanUrlFails, AfterWrites
  <2>2. CASE Complete(r) \/ CompleteRaises(r)
    BY <1>1, <2>2 DEF IndInv, TypeOK, Complete, CompleteRaises, AfterCompletion
  <2>3. CASE WriteNotConnected(r) \/ UrlFails(r)
    BY <1>1, <2>3 DEF WriteNotConnected, UrlFails, ContactChanges
  <2> QED
    BY <2>1, <2>2, <2>3 DEF IndInv, TypeOK, Continue, UrlFound, UrlRaises, Fail, FailRaises
<1>3. SeenAsPlan(r) /\ SeenAsPlan(r)'
  BY <1>1, PlanSeen, PlanSeenNext
<1>4. SameRun(r)
  <2>1. PlanStages'[r] = PlanStages[r]
    BY <1>1, <1>2, <1>3 DEF SeenAsPlan
  <2>2. /\ PlanDecided'[r] = PlanDecided[r] /\ PlanCarried'[r] = PlanCarried[r]
        /\ PlanKnown'[r] = PlanKnown[r] /\ PlanAnswers'[r] = PlanAnswers[r]
    BY <1>1, <1>2, <1>3 DEF SeenAsPlan
  <2> QED BY <2>1, <2>2 DEF SameRun
<1> QED
  BY <1>4, ContinueIsAlone, AllRunsKept

\* LEMMA: a later step of a request is a step of PlanRun or is not seen.
LEMMA ContinueRefinesRun ==
  ASSUME IndInv, ClaimInv, NEW r \in Requests, Continue(r)
  PROVE  RunStep
<1>1. CASE IsPlan(r)
  BY <1>1, PrepareRefines, WritingRefines, AnswerRefines, RaiseRefines, RunningRefines
<1>2. CASE ~IsPlan(r)
  <2>1. /\ pc[r] \in Live /\ act'[r] = act[r] /\ TookOn(r)
    BY ContinueMoves, RunningTookOn
  <2>2. type' = type
    BY DEF Continue, Prepare, PrepareFails, WriteAcknowledged, WriteUnacknowledged,
       WriteRefused, WriteNotConnected, PlanUrlFound, PlanUrlFails, Complete, CompleteAction,
       CompleteRaises, UrlFound, UrlFails, UrlRaises, Fail, FailAction, RecordPartialAction,
       FailRaises, tableVars
  <2>3. ~IsPlan(r)'
    BY <1>2, <2>1, <2>2 DEF IsPlan, Kind
  <2>4. SameRun(r)
    BY <1>2, <2>3, UnplannedUnseen
  <2> QED
    BY <2>4, ContinueIsAlone, AllRunsKept
<1> QED BY <1>1, <1>2

\* LEMMA: a first transaction begins a plan's run, or is not seen.
LEMMA ArriveRefinesRun ==
  ASSUME IndInv, ClaimInv, NEW r \in Requests, Arrive(r)
  PROVE  RunStep
<1>1. PICK a \in ActionIds :
        /\ act'[r] = a
        /\ Claims(r, a) \/ Offers(r, a) \/ Refuses(r, a)
  BY ArriveMoves
<1>2. pc[r] = "idle" /\ ~IsPlan(r) /\ reply[r] = "none" /\ written[r] = 0
  BY ArriveMoves DEF IndInv, RequestInv, ClaimInv, RepliedInv, IsPlan, TookOn
<1>3. CASE ~IsPlan(r)'
  BY <1>2, <1>3, UnplannedUnseen, ArriveIsAlone, AllRunsKept
<1>4. CASE IsPlan(r)'
  <2>1. Claims(r, a) /\ type'[a] = "crm_plan"
    BY <1>1, <1>4 DEF IsPlan, TookOn, Kind, Offers, Refuses
  <2>2. status[a] \in Unclaimed /\ reply'[r] = "none"
    BY <1>2, <2>1 DEF Claims
  <2>3. PICK m \in Messages, t \in DirectTypes : StartDirect(r, m, t)
    <3>1. CASE \E s \in Senders, b \in ProposalIds : Confirm(r, s, b)
      <4>1. PICK s \in Senders, b \in ProposalIds : Confirm(r, s, b)
        BY <3>1
      <4>2. a = b /\ type' = type /\ status[b] = "pending"
        BY <1>1, <4>1 DEF IndInv, TypeOK, Confirm, Bind, ConfirmAndClaimAction, Confirmable
      <4>3. type[a] # "crm_plan"
        BY <4>2 DEF IndInv, ActionInv, DirectTypes
      <4> QED BY <2>1, <4>2, <4>3
    <3>2. CASE \E m \in Messages, t \in DirectTypes : StartDuplicate(r, m, t)
      BY <2>1, <3>2 DEF IndInv, TypeOK, StartDuplicate, Bind, Answer, Goto, Claims, Live
    <3>3. CASE \E s \in Senders, t \in ProposalTypes, b \in ProposalIds : Propose(r, s, t, b)
      BY <2>1, <3>3 DEF IndInv, TypeOK, Propose, Bind, Answer, Goto, Claims, Live
    <3>4. CASE \E s \in Senders, b \in ProposalIds : RejectConfirmation(r, s, b)
      BY <2>1, <3>4 DEF IndInv, TypeOK, RejectConfirmation, Bind, Answer, Goto, Claims, Live
    <3> QED
      BY <3>1, <3>2, <3>3, <3>4 DEF Arrive
  <2>4. /\ pc'[r] = "preparing" /\ written'[r] = 0
        /\ UNCHANGED <<planned, applied>>
    BY <1>2, <2>3 DEF IndInv, TypeOK, StartDirect, Bind, Goto
  <2>5. planned[a] = 0 /\ applied[a] = 0
    BY <2>2 DEF IndInv, ActionInv, WritesAgree
  <2>6. SeenAsPlan(r)'
    BY <1>4, PlanSeenNext
  <2>7. /\ PlanStages'[r] = "deciding"
        /\ PlanDecided'[r] = {} /\ PlanCarried'[r] = {} /\ PlanKnown'[r] = {}
        /\ PlanAnswers'[r] = "none"
    BY <1>1, <2>2, <2>4, <2>5, <2>6 DEF SeenAsPlan
  <2>8. /\ PlanStages[r] = "absent"
        /\ PlanDecided[r] = {} /\ PlanCarried[r] = {} /\ PlanKnown[r] = {}
        /\ PlanAnswers[r] = "none"
    BY <1>2, Unplanned
  <2>9. /\ PlanStages' = [PlanStages EXCEPT ![r] = "deciding"]
        /\ PlanDecided' = PlanDecided /\ PlanCarried' = PlanCarried
        /\ PlanKnown' = PlanKnown /\ PlanAnswers' = PlanAnswers
    BY <2>7, <2>8, ArriveIsAlone, OneRunMoves
  <2>10. Run!Begin(r)
    BY <2>8, <2>9 DEF Run!Begin, Run!Goto
  <2> QED
    BY <2>10 DEF RunStep, Run!RunNext
<1> QED BY <1>3, <1>4

\* LEMMA: when the process dies, the runs that were under way are gone.
LEMMA CrashRefinesRun ==
  ASSUME IndInv, ClaimInv, Crash
  PROVE  RunStep
<1> DEFINE rs == {r \in Requests : IsPlan(r) /\ pc[r] \in Live}
<1>1. /\ UNCHANGED <<act, reply, written, type, planned, applied>>
      /\ pc' = [r \in Requests |-> IF pc[r] \in Live THEN "lost" ELSE pc[r]]
  BY DEF Crash, Untouched, crmVars, tableVars
<1>2. ASSUME NEW r \in Requests
      PROVE  IsPlan(r)' <=> IsPlan(r)
  BY <1>1 DEF IsPlan, TookOn, Kind, Live
<1>3. ASSUME NEW r \in Requests
      PROVE  /\ PlanDecided'[r] = PlanDecided[r] /\ PlanCarried'[r] = PlanCarried[r]
             /\ PlanKnown'[r] = PlanKnown[r] /\ PlanAnswers'[r] = PlanAnswers[r]
  <2>1. StepsUpTo(r, planned[act[r]])' = StepsUpTo(r, planned[act[r]])
    BY <1>1, <1>2 DEF StepsUpTo
  <2>2. /\ StepsUpTo(r, applied[act[r]])' = StepsUpTo(r, applied[act[r]])
        /\ StepsUpTo(r, written[r])' = StepsUpTo(r, written[r])
    BY <1>1, <1>2 DEF StepsUpTo
  <2>3. PlanAnswer(r)' = PlanAnswer(r)
    BY <1>1, <1>2 DEF PlanAnswer
  <2> QED
    BY <2>1, <2>2, <2>3 DEF PlanDecided, PlanCarried, PlanKnown, PlanAnswers
<1>4. ASSUME NEW r \in rs
      PROVE  PlanStages[r] \in {"deciding", "writing"} /\ PlanStages'[r] = "gone"
  <2>1. SeenAsPlan(r) /\ SeenAsPlan(r)'
    BY <1>2, PlanSeen, PlanSeenNext
  <2> QED
    BY <1>1, <2>1 DEF SeenAsPlan, Live
<1>5. ASSUME NEW r \in Requests \ rs
      PROVE  PlanStages'[r] = PlanStages[r]
  <2>1. CASE IsPlan(r)
    <3>1. pc'[r] = pc[r]
      BY <1>1, <2>1
    <3>2. SameRun(r)
      BY <1>1, <3>1, RunKept
    <3> QED BY <3>2 DEF SameRun
  <2>2. CASE ~IsPlan(r)
    BY <1>2, <2>2, UnplannedUnseen DEF SameRun
  <2> QED BY <2>1, <2>2
<1>6. /\ PlanDecided' = PlanDecided /\ PlanCarried' = PlanCarried
      /\ PlanKnown' = PlanKnown /\ PlanAnswers' = PlanAnswers
  BY <1>3 DEF PlanDecided, PlanCarried, PlanKnown, PlanAnswers
<1>7. PlanStages' = [r \in Requests |-> IF r \in rs THEN "gone" ELSE PlanStages[r]]
  BY <1>4, <1>5 DEF PlanStages
<1>8. CASE rs = {}
  BY <1>5, <1>6, <1>8 DEF RunStep, Run!runVars, PlanStages
<1>9. CASE rs # {}
  <2>1. Run!Die(rs)
    BY <1>4, <1>6, <1>7, <1>9 DEF Run!Die
  <2> QED
    BY <2>1 DEF RunStep, Run!RunNext
<1> QED BY <1>8, <1>9

\* THEOREM: the requests that carry out a crm_plan implement PlanRun.
THEOREM PlansAreRuns == Spec => ImplementsPlanRun
<1>1. Init => Run!RunInit
  <2> SUFFICES ASSUME Init PROVE Run!RunInit
    OBVIOUS
  <2>1. \A r \in Requests : ~IsPlan(r)
    BY DEF Init, IsPlan, TookOn
  <2> QED
    BY <2>1, Unplanned DEF Run!RunInit, PlanStages, PlanDecided, PlanCarried, PlanKnown,
       PlanAnswers
<1>2. IndInv /\ ClaimInv /\ [Next]_vars => [Run!RunNext]_(Run!runVars)
  <2>1. ASSUME Clock \/ UNCHANGED vars
        PROVE  RunStep
    <3>1. UNCHANGED <<pc, act, reply, written, type, planned, applied>>
      BY <2>1 DEF Clock, Tick, tableVars, requestVars, crmVars, vars
    <3>2. \A q \in Requests : SameRun(q)
      BY <3>1, RunKept
    <3> QED
      BY <3>2, AllRunsKept
  <2> QED
    BY <2>1, ArriveRefinesRun, ContinueRefinesRun, CrashRefinesRun DEF Next, RunStep
<1> QED
  BY <1>1, <1>2, IndInvHolds, ClaimInvHolds, PTL DEF Spec, ImplementsPlanRun, Run!RunSpec
=============================================================================
