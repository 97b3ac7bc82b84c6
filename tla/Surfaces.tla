------------------------------ MODULE Surfaces ------------------------------
(***************************************************************************)
(* Where people meet the agent: the App Home and the channels of Slack,    *)
(* and the web page.  Each delivery of a gesture (an opened tab, a click,  *)
(* a post, a send) has a handler; the agent in the middle is reduced to    *)
(* its ActionSafety transactions, and what a handler shows travels to the  *)
(* person on its own: it may come late, never, or after something newer.   *)
(***************************************************************************)
EXTENDS ActionSafety, Sequences, FiniteSets

CONSTANTS
  Handlers,        \* deliveries: background tasks of Slack requests, requests of the page
  Gestures,        \* what people do; the Messages are those that may ask for a create
  AuthorOf,        \* who makes a gesture
  KindOf,          \* the kind of a gesture
  Casts,           \* what may be delivered: a gesture per handler
  CreateTypes,     \* the direct action types that occur
  ProposalTypes,   \* the confirmed action types that occur
  Tables,          \* the tables a reading may answer with, see Upto
  MaxTableBlocks,  \* _MAX_HOME_TABLE_BLOCKS
  MaxViewBlocks,   \* what Slack takes, blocks[:100]
  MaxLate,         \* bound on the screens that are late at a time
  NoAction, NoHandler, NoTable

HomeKinds == {"opened", "draft", "blank", "submit", "confirm"}
Kinds == HomeKinds \cup {"post", "send", "session", "nothing"}

ASSUME SurfacesAssumption ==
  /\ AuthorOf \in [Gestures -> Senders]
  /\ KindOf \in [Gestures -> Kinds]
  /\ Messages \subseteq Gestures
  /\ \A m \in Messages : SenderOf[m] = AuthorOf[m]
  /\ CreateTypes \subseteq DirectTypes
  /\ ProposalTypes \subseteq ContactChanges \cup RecordChanges
  /\ NoAction \notin ActionIds
  /\ NoHandler \notin Handlers
  /\ MaxLate \in Nat

\* Slack repeats events; a click and a request of the page come once.  A handler
\* of "nothing" is never called.
Repeated == {"opened", "post", "nothing"}
ASSUME CastsAssumption ==
  \A c \in Casts :
    /\ c \in [Handlers -> Gestures]
    /\ \A g, h \in Handlers : c[g] = c[h] => g = h \/ KindOf[c[g]] \in Repeated

\* A table stands below a text, of so many pieces; `upto` is the sequence of the
\* blocks that its first 1, 2, ... rows take.
TableShapes == [text : Nat \ {0}, upto : Seq(Nat)]
ASSUME TablesAssumption ==
  /\ MaxTableBlocks \in Nat
  /\ MaxViewBlocks \in Nat /\ MaxViewBlocks >= MaxTableBlocks + 23
  /\ \A t \in Tables :
       /\ t \in TableShapes
       /\ \A i, j \in 1 .. Len(t.upto) : i < j => t.upto[i] < t.upto[j]
  /\ NoTable \notin Tables

VARIABLES
  (* handlers *)
  pc,       \* where a handler is
  job,      \* the gesture it serves, once it is delivered
  stage,    \* which of its screens it is at
  act,      \* the action it claimed, proposed, or named
  reply,    \* what the agent answered
  began,    \* the time at which its confirmation read the clock
  recent,   \* the recent actions it read: their status then, "none" of any other
  (* people *)
  wire,     \* screens that were sent and have not been shown
  shown,    \* the screen each person sees in each pane
  (* history, which no step reads *)
  acked,    \* the stages of a handler that their receiver acknowledged
  posted    \* the handlers whose reply reached the channel

handlerVars == <<pc, job, stage, act, reply, began, recent>>
peopleVars == <<wire, shown>>
historyVars == <<acked, posted>>
vars == <<now, status, owner, type, expires, confirmed_at, idem, audit,
          pc, job, stage, act, reply, began, recent, wire, shown, acked, posted>>

Live == {"looking", "building", "sending", "thinking", "confirming", "working"}
Places == {"idle", "done", "lost"} \cup Live
Stages == {"only", "working", "final", "answer"}
Panes == {"home", "chat", "activity"}

\* "unavailable" stands for every reply that says that nothing was done.
Said == {"none", "draft", "working", "ok", "partial", "unavailable", "missing_fields",
         "pending_confirmation", "invalid_confirmation", "duplicate_request"}
Replies == [said : Said, offer : ActionIds \cup {NoAction}, rows : Tables \cup {NoTable}]
Plain(text) == [said |-> text, offer |-> NoAction, rows |-> NoTable]

\* What a list of recent actions says of one: "absent" where it has no line.
Words == {"absent", "unknown", "awaiting", "expired", "in progress",
          "done", "partly", "not done"}
Screens == [of : Handlers \cup {NoHandler}, stage : Stages, body : Replies,
            told : [ActionIds -> Words]]
Nothing == [a \in ActionIds |-> "none"]
NoScreen == [of |-> NoHandler, stage |-> "only", body |-> Plain("none"),
             told |-> [a \in ActionIds |-> "absent"]]

TypeOK ==
  /\ TablesTypeOK
  /\ pc \in [Handlers -> Places]
  /\ job \in Casts
  /\ stage \in [Handlers -> Stages]
  /\ act \in [Handlers -> ActionIds \cup {NoAction}]
  /\ reply \in [Handlers -> Replies]
  /\ began \in [Handlers -> 0 .. MaxTime]
  /\ recent \in [Handlers -> [ActionIds -> Statuses \cup {"unread"}]]
  /\ wire \subseteq Screens
  /\ shown \in [Senders -> [Panes -> Screens]]
  /\ acked \in [Handlers -> SUBSET Stages]
  /\ posted \subseteq Handlers

Init ==
  /\ TablesInit
  /\ pc = [h \in Handlers |-> "idle"]
  /\ job \in Casts
  /\ stage = [h \in Handlers |-> "only"]
  /\ act = [h \in Handlers |-> NoAction]
  /\ reply = [h \in Handlers |-> Plain("none")]
  /\ began = [h \in Handlers |-> 0]
  /\ recent = [h \in Handlers |-> Nothing]
  /\ wire = {}
  /\ shown = [u \in Senders |-> [p \in Panes |-> NoScreen]]
  /\ acked = [h \in Handlers |-> {}]
  /\ posted = {}

-----------------------------------------------------------------------------
(* Handlers and what they show. *)

Viewer(h) == AuthorOf[job[h]]
Kind(h) == KindOf[job[h]]
OnHome(h) == Kind(h) \in HomeKinds
Goto(h, place) == pc' = [pc EXCEPT ![h] = place]

\* Below, st is the status of action a when the list was read, and the time that of
\* the making of the screen.

\* Mutant: an action that expires now is still called open.
Lapsed_late(a, st) == st = "pending" /\ expires[a] < now

Lapsed(a, st) == st = "pending" /\ expires[a] <= now
Waiting(a, st) == st = "pending" /\ ~Lapsed(a, st)

\* Mutant: everything that has been claimed is called done.
HomeWord_optimist(a, st) ==
  CASE st \in {"completed", "confirmed"} -> "done"
    [] Lapsed(a, st) -> "expired"
    [] Waiting(a, st) -> "awaiting"
    [] OTHER -> "not done"

\* Mutant: the column is shown as it is.
HomeWord_raw(a, st) == st

\* The App Home's line: whatever it has no word for "was not completed".
HomeWord(a, st) ==
  CASE st = "completed" -> "done"
    [] type[a] = "crm_plan" /\ st = "reconciliation_required" -> "partly"
    [] type[a] # "crm_plan" /\ Lapsed(a, st) -> "expired"
    [] type[a] # "crm_plan" /\ Waiting(a, st) -> "awaiting"
    [] OTHER -> "not done"

\* The page's line.
PageWord(a, st) ==
  CASE st = "completed" -> "done"
    [] st = "failed" -> "not done"
    [] type[a] \in DirectTypes /\ st = "reconciliation_required" -> "partly"
    [] type[a] \notin DirectTypes /\ Lapsed(a, st) -> "expired"
    [] type[a] \notin DirectTypes /\ Waiting(a, st) -> "awaiting"
    [] OTHER -> "in progress"

\* list_recent: the rows of this tenant and actor.  Its limit of five never
\* bites here, an instance has fewer.
Recent(u) == {a \in ActionIds : status[a] # "none" /\ owner[a] = u}

\* What a screen tells of each action; a row's type and expires_at do not change
\* after the list was read.  A list that could not be read says so on the home,
\* and is empty on the page.
Told(h) ==
  [a \in ActionIds |->
     LET st == recent[h][a] IN
     CASE st = "none" -> "absent"
       [] st = "unread" -> IF OnHome(h) THEN "unknown" ELSE "absent"
       [] OTHER -> IF OnHome(h) THEN HomeWord(a, st) ELSE PageWord(a, st)]

\* The screen a handler shows beside the list of recent actions.
Body(h) ==
  CASE stage[h] = "working" -> Plain("working")
    [] Kind(h) = "draft" -> Plain("draft")
    [] OTHER -> reply[h]

Pane(v) ==
  CASE KindOf[job[v.of]] \in HomeKinds -> "home"
    [] KindOf[job[v.of]] = "send" -> "chat"
    [] OTHER -> "activity"

Send(h, told) ==
  wire' = wire \cup {[of |-> h, stage |-> stage[h], body |-> Body(h), told |-> told]}

\* After a screen: a working notice is followed by the work, any other by nothing.
Proceed(h) == Goto(h, IF stage[h] = "working" THEN "thinking" ELSE "done")

Untouched == UNCHANGED <<now, tableVars>>
-----------------------------------------------------------------------------
(* Gestures arrive. *)

Serve(h, place, first, answer) ==
  /\ pc[h] = "idle"
  /\ stage' = [stage EXCEPT ![h] = first]
  /\ reply' = [reply EXCEPT ![h] = Plain(answer)]
  /\ Goto(h, place)
  /\ Untouched
  /\ UNCHANGED <<job, began, recent, peopleVars, historyVars>>

\* POST /events: the tab was opened, or something was posted.  Slack sends an
\* event again when the answer was slow, and a post with a mention twice anyway.
Event(h) ==
  /\ \/ Kind(h) = "opened" /\ Serve(h, "looking", "only", "none")
     \/ Kind(h) = "post" /\ Serve(h, "thinking", "answer", "none")
  /\ UNCHANGED act

\* POST /interactions: a click on the home on screen.  A blank request is
\* answered at once; only a button on screen can be pressed.
Click(h) ==
  LET offer == shown[Viewer(h)]["home"].body.offer IN
  \/ Kind(h) = "draft" /\ Serve(h, "looking", "only", "none") /\ UNCHANGED act
  \/ Kind(h) = "blank" /\ Serve(h, "looking", "only", "missing_fields") /\ UNCHANGED act
  \/ Kind(h) = "submit" /\ Serve(h, "looking", "working", "none") /\ UNCHANGED act
  \/ /\ Kind(h) = "confirm"
     /\ offer # NoAction
     /\ act' = [act EXCEPT ![h] = offer]
     /\ Serve(h, "looking", "working", "none")

\* POST /messages and GET /session of the page: each message has an id of its
\* own, also when it repeats one that was not answered.
Browse(h) ==
  /\ \/ Kind(h) = "send" /\ Serve(h, "thinking", "answer", "none")
     \/ Kind(h) = "session" /\ Serve(h, "looking", "only", "none")
  /\ UNCHANGED act

-----------------------------------------------------------------------------
(* The agent. *)

\* Mutant: a duplicate is answered like anything else.
SaysNothing_never(text) == FALSE

\* A duplicate delivery of a post is not replied to; the first one is.
SaysNothing(text) == text = "duplicate_request"

Reach(h, answer) ==
  wire' = wire \cup {[of |-> h, stage |-> "answer", body |-> answer, told |-> NoScreen.told]}

\* agent.respond returned: the home is published again, the channel gets a post,
\* and the page the response to its request.
Answer(h, answer) ==
  /\ reply' = [reply EXCEPT ![h] = answer]
  /\ stage' = [stage EXCEPT ![h] = IF OnHome(h) THEN "final" ELSE @]
  /\ CASE OnHome(h) -> Goto(h, "looking") /\ UNCHANGED wire
       [] Kind(h) = "post" -> /\ Goto(h, IF SaysNothing(answer.said) THEN "done" ELSE "sending")
                              /\ UNCHANGED wire
       [] OTHER -> Goto(h, "done") /\ Reach(h, answer)
  /\ UNCHANGED <<now, job, began, recent, shown, historyVars>>

\* agent.respond raised: only a post is not answered then.
Raise(h) ==
  IF Kind(h) = "post"
  THEN /\ Goto(h, "lost")
       /\ UNCHANGED <<now, job, stage, reply, began, recent, peopleVars, historyVars>>
  ELSE Answer(h, Plain("unavailable"))

Asks(h) == pc[h] = "thinking" /\ Kind(h) # "confirm"

\* Nothing is changed: a reading, a question, a refusal.
Read(h) ==
  /\ Asks(h)
  /\ \E t \in Tables \cup {NoTable} :
       Answer(h, [said |-> "ok", offer |-> NoAction, rows |-> t])
  /\ UNCHANGED <<act, tableVars>>

\* The claim of a create, under an id that its gesture gives.
Create(h, t) ==
  LET a == DirectId(t, job[h]) IN
  /\ Asks(h) /\ job[h] \in Messages
  /\ act' = [act EXCEPT ![h] = a]
  /\ \/ /\ StartDirectAction(a, Viewer(h), t)
        /\ Goto(h, "working")
        /\ UNCHANGED <<now, job, stage, reply, began, recent, peopleVars, historyVars>>
     \/ /\ ~Claimable(a)
        /\ Answer(h, Plain("duplicate_request"))
        /\ UNCHANGED tableVars

\* An update or delete is offered.
Offer(h, p, t) ==
  /\ Asks(h)
  /\ act' = [act EXCEPT ![h] = p]
  /\ CreatePendingAction(p, Viewer(h), t)
  /\ Answer(h, [said |-> "pending_confirmation", offer |-> p, rows |-> NoTable])

\* "confirm <id>": the button's id, or any that a person types.  The clock is read
\* before the database is asked.
BeginConfirm(h, p) ==
  /\ pc[h] = "thinking"
  /\ Kind(h) = "confirm" => p = act[h]
  /\ act' = [act EXCEPT ![h] = p]
  /\ began' = [began EXCEPT ![h] = now]
  /\ Goto(h, "confirming")
  /\ Untouched
  /\ UNCHANGED <<job, stage, reply, recent, peopleVars, historyVars>>

\* The transaction: it commits, or finds nothing to confirm.
Confirm(h) ==
  LET p == act[h] IN
  /\ pc[h] = "confirming"
  /\ \/ /\ ConfirmAndClaimAction(p, Viewer(h), began[h])
        /\ Goto(h, "working")
        /\ UNCHANGED <<now, job, stage, reply, began, recent, peopleVars, historyVars>>
     \/ /\ ~(Confirmable(p, Viewer(h), began[h]) /\ Claimable(p))
        /\ Answer(h, Plain("invalid_confirmation"))
        /\ UNCHANGED tableVars
  /\ UNCHANGED act

\* The work is done and recorded.  A contact change is still not out of its try
\* block: the lookup of its URL may fail.
Complete(h) ==
  LET a == act[h] IN
  /\ pc[h] = "working"
  /\ Updatable(a, Viewer(h))
  /\ CompleteAction(a, Viewer(h))
  /\ \/ Answer(h, Plain("ok"))
     \/ Raise(h)
     \/ /\ type[a] \in ContactChanges
        /\ UNCHANGED <<now, pc, job, stage, reply, began, recent, peopleVars, historyVars>>
  /\ UNCHANGED act

\* The work failed, or a plan was done in part.
Fail(h) ==
  LET a == act[h] IN
  /\ pc[h] = "working"
  /\ \/ /\ FailAction(a, Viewer(h))
        /\ Answer(h, Plain("unavailable"))
     \/ /\ type[a] = "crm_plan"
        /\ RecordPartialAction(a, Viewer(h))
        /\ Answer(h, Plain("partial"))
  /\ UNCHANGED act

\* The outcome is not recorded: a create is answered all the same.
Unrecorded(h) ==
  /\ pc[h] = "working"
  /\ \/ type[act[h]] \in DirectTypes /\ Answer(h, Plain("ok"))
     \/ Raise(h)
  /\ UNCHANGED <<act, tableVars>>

ThinkFails(h) ==
  /\ pc[h] \in {"thinking", "confirming"}
  /\ Raise(h)
  /\ UNCHANGED <<act, tableVars>>

-----------------------------------------------------------------------------
(* Showing: _publish_home, assistant_session, post_message. *)

\* recent_actions: the list is read, or could not be.
LookUp(h) ==
  /\ pc[h] = "looking"
  /\ \/ recent' = [recent EXCEPT ![h] =
                     [a \in ActionIds |-> IF a \in Recent(Viewer(h)) THEN status[a] ELSE "none"]]
     \/ recent' = [recent EXCEPT ![h] = [a \in ActionIds |-> "unread"]]
  /\ Goto(h, "building")
  /\ Untouched
  /\ UNCHANGED <<job, stage, act, reply, began, peopleVars, historyVars>>

\* build_home_view and recent_item: only now is the clock read.  The view is built
\* from the list, which is not kept, and sent; the page gets it as the response.
Build(h) ==
  /\ pc[h] = "building"
  /\ Send(h, Told(h))
  /\ recent' = [recent EXCEPT ![h] = Nothing]
  /\ Goto(h, IF OnHome(h) THEN "sending" ELSE "done")
  /\ Untouched
  /\ UNCHANGED <<job, stage, act, reply, began, shown, historyVars>>

IsAt(v, h) == v.of = h /\ v.stage = stage[h]
Sending(h) == pc[h] = "sending" /\ OnHome(h)
Late(v) == ~(Sending(v.of) /\ IsAt(v, v.of))

See(v) == shown' = [shown EXCEPT ![Viewer(v.of)][Pane(v)] = v]

\* Mutant: the work does not wait for its notice to be on screen.
Accept_early(h) ==
  /\ Sending(h)
  /\ acked' = [acked EXCEPT ![h] = @ \cup {stage[h]}]
  /\ Proceed(h)
  /\ Untouched
  /\ UNCHANGED <<job, stage, act, reply, began, recent, peopleVars, posted>>

\* Slack shows the screen and says so.
Accept(h) ==
  /\ Sending(h)
  /\ \E v \in wire : IsAt(v, h) /\ See(v) /\ wire' = wire \ {v}
  /\ acked' = [acked EXCEPT ![h] = @ \cup {stage[h]}]
  /\ Proceed(h)
  /\ Untouched
  /\ UNCHANGED <<job, stage, act, reply, began, recent, posted>>

\* Mutant: a screen that was not accepted is sent again, for ever.
SendFails_retried(h) ==
  /\ Sending(h)
  /\ Goto(h, "looking")
  /\ wire' = {v \in wire : ~IsAt(v, h)}
  /\ Untouched
  /\ UNCHANGED <<job, stage, act, reply, began, recent, shown, historyVars>>

\* An IntegrationError: Slack refused the screen, or the request timed out and
\* the screen may still come.
SendFails(h) ==
  /\ Sending(h)
  /\ \/ wire' = {v \in wire : ~IsAt(v, h)}
     \/ Cardinality({v \in wire : Late(v)}) < MaxLate /\ UNCHANGED wire
  /\ Proceed(h)
  /\ Untouched
  /\ UNCHANGED <<job, stage, act, reply, began, recent, shown, historyVars>>

\* A screen whose sender does not wait for it arrives, whatever is shown by then:
\* the page's responses, and what Slack took up after the timeout.
Arrives(v) ==
  /\ v \in wire
  /\ Late(v)
  /\ wire' = wire \ {v}
  /\ See(v)
  /\ Untouched
  /\ UNCHANGED <<handlerVars, historyVars>>

\* An answer of Slack that is not JSON: the ValueError leaves the handler.
SendRaises(h) ==
  /\ Sending(h)
  /\ Goto(h, "lost")
  /\ Untouched
  /\ UNCHANGED <<job, stage, act, reply, began, recent, peopleVars, historyVars>>

\* chat.postMessage reached the channel, or it failed, or both: it is not tried again.
Post(h) ==
  /\ pc[h] = "sending" /\ Kind(h) = "post"
  /\ posted' = posted \cup {h} \/ UNCHANGED posted
  /\ Goto(h, "done") \/ Goto(h, "lost")
  /\ Untouched
  /\ UNCHANGED <<job, stage, act, reply, began, recent, peopleVars, acked>>

\* The process dies: what is on its way to people may still arrive.
Crash ==
  /\ \E h \in Handlers : pc[h] \in Live
  /\ pc' = [h \in Handlers |-> IF pc[h] \in Live THEN "lost" ELSE pc[h]]
  /\ Untouched
  /\ UNCHANGED <<job, stage, act, reply, began, recent, peopleVars, historyVars>>

Clock == Tick /\ UNCHANGED <<handlerVars, peopleVars, historyVars>>

-----------------------------------------------------------------------------
Arrive(h) == Event(h) \/ Click(h) \/ Browse(h)

Think(h) ==
  \/ Read(h)
  \/ \E t \in CreateTypes : Create(h, t)
  \/ \E p \in ProposalIds, t \in ProposalTypes : Offer(h, p, t)
  \/ \E p \in ProposalIds : BeginConfirm(h, p)
  \/ Confirm(h)
  \/ Complete(h)
  \/ Fail(h)
  \/ Unrecorded(h)
  \/ ThinkFails(h)

Continue(h) ==
  \/ Think(h)
  \/ LookUp(h)
  \/ Build(h)
  \/ Accept(h)
  \/ SendFails(h)
  \/ SendRaises(h)
  \/ Post(h)

Next ==
  \/ \E h \in Handlers : Arrive(h) \/ Continue(h)
  \/ \E v \in wire : Arrives(v)
  \/ Crash
  \/ Clock

Spec == Init /\ [][Next]_vars

\* Every await of a handler ends: the clients have timeouts, and the event loop
\* runs whatever is ready.  Nothing is asked of people, Slack or the network.
FairSpec == Spec /\ \A h \in Handlers : WF_vars(Continue(h))
-----------------------------------------------------------------------------
(* How long a home with a table gets: build_home_view and                  *)
(* _render_table_response.  Other answers have no limit of their own.      *)

Upto(t, k) == IF k = 0 THEN 0 ELSE t.upto[k]

\* Heading and text, then k rows, each with a divider after it.
Before(t, k) == 1 + t.text + Upto(t, k) + k

\* Mutant: the line that says rows are missing is not counted.
Fits_nonotice(t, k) ==
  Before(t, k - 1) + Upto(t, k) - Upto(t, k - 1)
    + (IF k < Len(t.upto) THEN 1 ELSE 0) <= MaxTableBlocks

\* Row k may be added: room is kept for a divider and for the line that says
\* rows are missing, unless it is the last.
Fits(t, k) ==
  Before(t, k - 1) + Upto(t, k) - Upto(t, k - 1)
    + (IF k < Len(t.upto) THEN 2 ELSE 0) <= MaxTableBlocks

\* The rows shown are those before the first that does not fit.
IsRendered(t, n) ==
  /\ \A k \in 1 .. n : Fits(t, k)
  /\ n < Len(t.upto) => ~Fits(t, n + 1)

\* After the rows comes a line that says that rows are missing, or that there are
\* none; after the last row there is no divider.
TableBlocks(t, n) ==
  IF n = Len(t.upto) /\ n > 0 THEN Before(t, n) - 1 ELSE Before(t, n) + 1

\* Header, request, table, input, at most five recent actions, buttons, footer.
ViewBlocks(t, n) == 6 + 2 + TableBlocks(t, n) + 3 + 6 + 5 + 1

-----------------------------------------------------------------------------
(* Safety. *)

\* Every screen there is: on its way, or before somebody's eyes.
Seen == wire \cup {shown[u][p] : u \in Senders, p \in Panes}

\* What a list of recent actions says is about the person's own actions, and
\* stays true however late the screen comes and however long it is looked at:
\* what is said to be done or done in part is just that and will never be anything
\* else, what is said to have expired has not been confirmed since its time was
\* over, and what awaits a confirmation was offered to this person.  "Expired" is
\* not the end of an action: a confirmation that read the clock in time may commit
\* after the list was read, and the action be carried out.  Two more wordings are
\* not promises: "in progress", and on the home "not done", which covers whatever
\* has no line of its own, work in progress included.
ActivityIsTrue ==
  \A v \in Seen : v.of # NoHandler =>
    \A a \in ActionIds :
      /\ v.told[a] \notin {"absent", "unknown"} => owner[a] = Viewer(v.of)
      /\ v.told[a] = "done" => status[a] = "completed"
      /\ v.told[a] = "partly" => status[a] = "reconciliation_required"
      /\ v.told[a] = "expired" =>
           expires[a] <= now /\ (status[a] = "pending" \/ confirmed_at[a] < expires[a])
      /\ v.told[a] = "awaiting" => a \in ProposalIds
      /\ v.told[a] = "not done" => status[a] \notin Unclaimed
      /\ v.body.offer = a => owner[a] = Viewer(v.of)

\* Home and page let an action expire exactly when the table does: as long as nobody
\* took the action since the list was read, it is said to await a confirmation if
\* one that begins when the screen is made would find it, and to have expired if not.
AwaitingCanBeConfirmed ==
  [][\A v \in wire' \ wire, a \in ActionIds :
       v.told[a] \in {"awaiting", "expired"} =>
         /\ recent[v.of][a] = "pending"
         /\ status[a] = "pending" =>
              (v.told[a] = "awaiting" <=> Confirmable(a, Viewer(v.of), now))]_vars

\* Once Slack acknowledged both the working notice and the result of a request,
\* the notice never comes back over the result (the result may be replaced by
\* something else): the home of a finished request does not say "working".
WorkingViewEnds ==
  \A h \in Handlers : {"working", "final"} \subseteq acked[h] =>
    ~\E v \in Seen : v.of = h /\ v.stage = "working"

\* Of all deliveries of a post, at most one replies about an action that the
\* post claimed: nobody reads twice that one contact was created.
CreateAnsweredOnce ==
  \A g, h \in posted :
    act[g] = act[h] /\ act[h] \in DirectIds => g = h

\* A home whose answer is a table keeps to the table's limit with the line that says
\* how many rows are missing, and to Slack's, so that build_home_view cuts off
\* nothing of it, the input field included.  The text above the table has no limit:
\* it must leave room for that line.
TablesFit ==
  \A v \in Seen : v.of # NoHandler /\ v.body.rows # NoTable =>
    LET t == v.body.rows IN
    OnHome(v.of) /\ Before(t, 0) < MaxTableBlocks =>
      \E n \in 0 .. Len(t.upto) :
        /\ IsRendered(t, n)
        /\ TableBlocks(t, n) <= MaxTableBlocks
        /\ ViewBlocks(t, n) <= MaxViewBlocks
-----------------------------------------------------------------------------
(* The inductive invariant behind them: what holds of a row, of a screen, and *)
(* of a handler.                                                              *)

RowInv(a) ==
  /\ status[a] = "pending" => a \in ProposalIds
  /\ status[a] # "none" /\ a \in ProposalIds => type[a] \notin DirectTypes
  /\ status[a] \notin Unclaimed => idem[a] # "none"
  /\ status[a] \notin Unclaimed /\ a \in ProposalIds => confirmed_at[a] < expires[a]
  /\ status[a] # "none" => owner[a] \in Senders

OfferInv(h, offer) ==
  offer # NoAction =>
    /\ offer \in ProposalIds
    /\ status[offer] # "none"
    /\ owner[offer] = Viewer(h)

\* What a list says of an action is true now.
LineInv(h, a, word) ==
  /\ word \notin {"absent", "unknown"} => status[a] # "none" /\ owner[a] = Viewer(h)
  /\ word = "done" => status[a] = "completed"
  /\ word = "partly" => status[a] = "reconciliation_required"
  /\ word \in {"expired", "awaiting"} => a \in ProposalIds
  /\ word = "expired" => expires[a] <= now
  /\ word = "not done" => status[a] \notin Unclaimed

\* What a handler read of an action is not taken back.
ReadInv(h, a, st) ==
  /\ st \notin {"none", "unread"} => status[a] # "none" /\ owner[a] = Viewer(h)
  /\ st = "pending" => a \in ProposalIds
  /\ st \notin Unclaimed \cup {"unread"} => status[a] \notin Unclaimed
  /\ st \in Settled => status[a] = st

\* A screen has passed the place where its handler builds it.
ScreenInv(v) ==
  LET h == v.of IN
  /\ h \in Handlers
  /\ OfferInv(h, v.body.offer)
  /\ \A a \in ActionIds : LineInv(h, a, v.told[a])
  /\ v.stage = stage[h] => pc[h] \notin {"idle", "looking", "building"}
  /\ v.stage # stage[h] => v.stage = "working" /\ stage[h] = "final"
  /\ v.stage = "working" => OnHome(h)

HandlerInv(h) ==
  /\ OfferInv(h, reply[h].offer)
  /\ \A a \in ActionIds : ReadInv(h, a, recent[h][a])
  /\ pc[h] = "idle" => act[h] = NoAction /\ acked[h] = {} /\ stage[h] = "only"
  /\ stage[h] \in {"working", "final"} => OnHome(h)
  /\ pc[h] \in {"looking", "building", "sending"} => stage[h] \notin acked[h]
  /\ "final" \in acked[h] => stage[h] = "final"
  /\ ~OnHome(h) => acked[h] = {}
  /\ pc[h] = "thinking" => act[h] \notin DirectIds
  /\ pc[h] = "confirming" => act[h] \in ProposalIds
  /\ pc[h] = "working" => act[h] \in ActionIds
  /\ pc[h] \in {"thinking", "confirming", "working"} =>
       /\ stage[h] = IF OnHome(h) THEN "working" ELSE "answer"
       /\ ~SaysNothing(reply[h].said)
  /\ stage[h] = "working" /\ pc[h] \in {"looking", "building", "sending"} =>
       act[h] \notin DirectIds /\ ~SaysNothing(reply[h].said)
  /\ act[h] \in DirectIds => idem[act[h]] # "none"
  /\ pc[h] = "sending" /\ ~OnHome(h) => ~SaysNothing(reply[h].said)
  /\ h \in posted => pc[h] \in {"done", "lost"} /\ ~SaysNothing(reply[h].said)

Holds(h, a) == act[h] = a /\ ~SaysNothing(reply[h].said)

\* A screen in a pane is one for that pane.
PaneInv(u, p, v) ==
  \/ v = NoScreen
  \/ ScreenInv(v) /\ u = Viewer(v.of) /\ p = Pane(v)

\* A working notice is sent once, and is not on its way when it is acknowledged.
OneNotice ==
  /\ \A v, w \in wire : v.of = w.of /\ v.stage = "working" /\ w.stage = "working" => v = w
  /\ \A v \in wire : v.stage = "working" => "working" \notin acked[v.of]

OneHolder ==
  \A g, h \in Handlers, a \in DirectIds : Holds(g, a) /\ Holds(h, a) => g = h

IndInv ==
  /\ TypeOK
  /\ \A a \in ActionIds : RowInv(a)
  /\ \A h \in Handlers : HandlerInv(h)
  /\ \A v \in wire : ScreenInv(v)
  /\ \A u \in Senders, p \in Panes : PaneInv(u, p, shown[u][p])
  /\ OneNotice
  /\ WorkingViewEnds
  /\ OneHolder

-----------------------------------------------------------------------------
(* Liveness, under FairSpec. *)

\* A home that says "working" does not say so for ever: its result replaces it,
\* or the handler is gone, or Slack did not acknowledge one of its two screens.
WorkingViewGoes ==
  \A h \in Handlers :
    (\E u \in Senders : shown[u]["home"].of = h /\ shown[u]["home"].stage = "working")
    ~> \/ ~\E u \in Senders : shown[u]["home"].of = h /\ shown[u]["home"].stage = "working"
       \/ pc[h] = "lost"
       \/ pc[h] = "done" /\ ~({"working", "final"} \subseteq acked[h])
=============================================================================
