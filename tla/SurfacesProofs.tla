--------------------------- MODULE SurfacesProofs ---------------------------
(***************************************************************************)
(* IndInv is an inductive invariant of Surfaces, for any number of         *)
(* deliveries, people, actions, tables and limits of a home.  The safety   *)
(* properties follow from it.                                              *)
(*                                                                         *)
(* The argument: what a screen says of an action can only come to be more  *)
(* true, as rows only go on (TablesGoOn); and a step of handler h adds at  *)
(* most one screen, of h's own (StepIsLocal).  Then there is one lemma a   *)
(* step.                                                                   *)
(***************************************************************************)
EXTENDS Surfaces, WellFoundedInduction, TLAPS

\* A row never goes back, and satisfies its part of the invariant.
TablesGoOn ==
  /\ TablesTypeOK'
  /\ now <= now'
  /\ \A a \in ActionIds :
       /\ status[a] # "none" =>
            status'[a] # "none" /\ owner'[a] = owner[a] /\ expires'[a] = expires[a]
       /\ status[a] \in Settled => status'[a] = status[a]
       /\ status[a] \notin Unclaimed => status'[a] \notin Unclaimed
       /\ idem[a] # "none" => idem'[a] # "none"
       /\ RowInv(a)'

\* No handler but h moves.
Moves(h) ==
  /\ job' = job
  /\ \A g \in Handlers \ {h} :
       /\ pc'[g] = pc[g]
       /\ stage'[g] = stage[g]
       /\ act'[g] = act[g]
       /\ reply'[g] = reply[g]
       /\ recent'[g] = recent[g]
       /\ acked'[g] = acked[g]
       /\ g \in posted' <=> g \in posted

\* The screens h has built stay behind it.
Advances(h) ==
  \/ pc[h] = "idle"
  \/ /\ stage'[h] = stage[h]
     /\ pc'[h] \in {"idle", "looking", "building"} => pc[h] \in {"idle", "looking", "building"}
  \/ stage[h] = "working" /\ stage'[h] = "final"

\* No other handler holds an action that h comes to hold.
HoldsAlone(h) ==
  \A a \in DirectIds : Holds(h, a)' => Holds(h, a) \/ \A g \in Handlers \ {h} : ~Holds(g, a)

\* LEMMA: who makes a gesture is one of the senders.
LEMMA ViewerIsSender ==
  ASSUME TypeOK, NEW h \in Handlers
  PROVE  Viewer(h) \in Senders /\ job[h] \in Gestures
BY SurfacesAssumption, CastsAssumption DEF TypeOK, Viewer

\* LEMMA: the ids of actions are apart from the value that stands for none.
LEMMA NoActionIsNone ==
  NoAction \notin ActionIds /\ NoAction \notin DirectIds /\ NoAction \notin ProposalIds
BY SurfacesAssumption DEF ActionIds

-----------------------------------------------------------------------------
(* What the tables do. *)

\* LEMMA: what is not touched goes on.
LEMMA TablesRest ==
  ASSUME IndInv, Untouched
  PROVE  TablesGoOn
BY DEF IndInv, TypeOK, TablesTypeOK, TablesGoOn, Untouched, tableVars, RowInv

\* LEMMA: time passes, and no row changes.
LEMMA TimeGoesOn ==
  ASSUME IndInv, Tick
  PROVE  TablesGoOn
BY ClockAssumption
   DEF IndInv, TypeOK, TablesTypeOK, TablesGoOn, Tick, tableVars, RowInv

\* LEMMA: an update or delete is offered under an id that has no row.
LEMMA OfferGoesOn ==
  ASSUME IndInv, UNCHANGED now, NEW p \in ProposalIds, NEW s \in Senders,
         NEW t \in ContactChanges \cup RecordChanges, CreatePendingAction(p, s, t)
  PROVE  TablesGoOn /\ status'[p] # "none" /\ owner'[p] = s
BY ClockAssumption
   DEF IndInv, TypeOK, TablesTypeOK, TablesGoOn, CreatePendingAction, CreateRow, RowInv,
       ActionIds, ActionTypes, ContactChanges, RecordChanges, DirectTypes, Statuses, Unclaimed,
       Settled

\* LEMMA: a create that wins its claim has no row yet: only proposals wait.
LEMMA ClaimGoesOn ==
  ASSUME IndInv, UNCHANGED now, NEW a \in DirectIds, NEW s \in Senders,
         NEW t \in DirectTypes, StartDirectAction(a, s, t)
  PROVE  TablesGoOn /\ idem'[a] # "none"
<1>1. a \in ActionIds /\ a \notin ProposalIds
  BY IdsAssumption DEF ActionIds
<1>2. status[a] = "none"
  BY <1>1 DEF IndInv, RowInv, StartDirectAction, Claimable, Unclaimed
<1> QED
  BY <1>1, <1>2, ClockAssumption
     DEF IndInv, TypeOK, TablesTypeOK, TablesGoOn, StartDirectAction, CreateRow, RowInv,
         ActionTypes, DirectTypes, Statuses, Unclaimed, Settled, IdemStatuses

\* LEMMA: a confirmation takes what had not expired when it began.
LEMMA ConfirmGoesOn ==
  ASSUME IndInv, UNCHANGED now, NEW p \in ProposalIds, NEW s, NEW at \in Nat,
         ConfirmAndClaimAction(p, s, at)
  PROVE  TablesGoOn
BY DEF IndInv, TypeOK, TablesTypeOK, TablesGoOn, ConfirmAndClaimAction, Confirmable, RowInv,
       ActionIds, Statuses, Unclaimed, Settled, IdemStatuses

\* LEMMA: what is settled was confirmed.
LEMMA SettlingGoesOn ==
  ASSUME IndInv, UNCHANGED now, NEW a \in ActionIds, NEW s, NEW st \in Settled,
         NEW i \in IdemStatuses \ {"none"}, NEW o \in Outcomes,
         SetStatus(a, s, st), CompleteKey(a, i), AppendAudit(a, o),
         UNCHANGED <<owner, type, expires, confirmed_at>>
  PROVE  TablesGoOn
<1>1. TablesTypeOK'
  <2>1. status' \in [ActionIds -> Statuses]
    BY DEF IndInv, TypeOK, TablesTypeOK, SetStatus, Statuses
  <2>2. idem' \in [ActionIds -> IdemStatuses]
    BY DEF IndInv, TypeOK, TablesTypeOK, CompleteKey
  <2>3. audit' \in [ActionIds -> [Outcomes -> Nat]]
    BY DEF IndInv, TypeOK, TablesTypeOK, AppendAudit
  <2> QED
    BY <2>1, <2>2, <2>3 DEF IndInv, TypeOK, TablesTypeOK
<1> QED
  BY <1>1 DEF IndInv, TypeOK, TablesTypeOK, TablesGoOn, SetStatus, Updatable, CompleteKey,
     RowInv, Unclaimed, Settled

-----------------------------------------------------------------------------
(* What a step of one handler leaves as it is. *)

\* LEMMA: an offer stays the person's own.
LEMMA OffersStay ==
  ASSUME TablesGoOn, job' = job, NEW h \in Handlers, NEW offer, OfferInv(h, offer)
  PROVE  OfferInv(h, offer)'
BY DEF TablesGoOn, OfferInv, Viewer, ActionIds

\* LEMMA: what a list said of an action stays true.
LEMMA LinesStay ==
  ASSUME IndInv, TablesGoOn, job' = job, NEW h \in Handlers, NEW a \in ActionIds, NEW word,
         LineInv(h, a, word)
  PROVE  LineInv(h, a, word)'
<1>1. word = "expired" => expires'[a] <= now'
  BY DEF TablesGoOn, TablesTypeOK, IndInv, TypeOK, LineInv
<1> QED
  BY <1>1 DEF TablesGoOn, LineInv, Viewer, Settled

\* LEMMA: what a handler read of an action is not taken back.
LEMMA ReadingsStay ==
  ASSUME TablesGoOn, job' = job, NEW h \in Handlers, NEW a \in ActionIds, NEW st,
         ReadInv(h, a, st)
  PROVE  ReadInv(h, a, st)'
BY DEF TablesGoOn, ReadInv, Viewer, Settled

\* LEMMA: so a handler that reads nothing more keeps what it read.
LEMMA ReadingKept ==
  ASSUME IndInv, TablesGoOn, job' = job, NEW h \in Handlers, recent'[h] = recent[h]
  PROVE  (\A a \in ActionIds : ReadInv(h, a, recent[h][a]))'
<1> SUFFICES ASSUME NEW a \in ActionIds
             PROVE  ReadInv(h, a, recent[h][a])'
  OBVIOUS
<1>1. PICK st : st = recent[h][a]
  OBVIOUS
<1>2. ReadInv(h, a, st)
  BY <1>1 DEF IndInv, HandlerInv
<1>3. ReadInv(h, a, st)'
  BY <1>2, ReadingsStay
<1> QED
  BY <1>1, <1>3

\* LEMMA: a screen stays true, wherever it is.
LEMMA ScreenStays ==
  ASSUME IndInv, TablesGoOn, NEW h \in Handlers, Moves(h), Advances(h), NEW v, ScreenInv(v)
  PROVE  ScreenInv(v)'
<1>1. v.of \in Handlers /\ job' = job
  BY DEF ScreenInv, Moves
<1>2. OfferInv(v.of, v.body.offer)'
  BY <1>1, OffersStay DEF ScreenInv
<1>3. \A a \in ActionIds : LineInv(v.of, a, v.told[a])'
  BY <1>1, LinesStay DEF ScreenInv
<1>4. v.stage = "working" => OnHome(v.of)'
  BY <1>1 DEF ScreenInv, OnHome, Kind
<1>5. /\ v.stage = stage'[v.of] => pc'[v.of] \notin {"idle", "looking", "building"}
      /\ v.stage # stage'[v.of] => v.stage = "working" /\ stage'[v.of] = "final"
  BY <1>1 DEF IndInv, HandlerInv, ScreenInv, Moves, Advances
<1> QED
  BY <1>1, <1>2, <1>3, <1>4, <1>5 DEF ScreenInv

\* LEMMA: the other handlers stay good.
LEMMA HandlersStay ==
  ASSUME IndInv, TablesGoOn, NEW h \in Handlers, Moves(h), HandlerInv(h)'
  PROVE  \A g \in Handlers : HandlerInv(g)'
<1> SUFFICES ASSUME NEW g \in Handlers, g # h
             PROVE  HandlerInv(g)'
  OBVIOUS
<1>1. HandlerInv(g)
  BY DEF IndInv
<1>2. OfferInv(g, reply[g].offer)'
  <2>1. \A offer : OfferInv(g, offer) => OfferInv(g, offer)'
    BY OffersStay DEF Moves
  <2>2. reply'[g] = reply[g]
    BY DEF Moves
  <2> QED
    BY <1>1, <2>1, <2>2 DEF HandlerInv, OfferInv, Viewer
<1>3. act[g] \in DirectIds => idem'[act[g]] # "none"
  BY <1>1 DEF HandlerInv, TablesGoOn, ActionIds
<1>4. (\A a \in ActionIds : ReadInv(g, a, recent[g][a]))'
  BY ReadingKept DEF Moves
<1> QED
  BY <1>1, <1>2, <1>3, <1>4 DEF HandlerInv, Moves, OnHome, Kind

\* LEMMA: an action is still held by one handler.
LEMMA HoldersStay ==
  ASSUME IndInv, NEW h \in Handlers, Moves(h), HoldsAlone(h)
  PROVE  OneHolder'
<1>1. \A g \in Handlers \ {h}, a \in DirectIds : Holds(g, a)' <=> Holds(g, a)
  BY DEF Moves, Holds
<1> QED
  BY <1>1 DEF IndInv, OneHolder, HoldsAlone

\* LEMMA: what is in a pane stays true there.
LEMMA PanesStay ==
  ASSUME IndInv, TablesGoOn, NEW h \in Handlers, Moves(h), Advances(h),
         NEW u, NEW p, NEW v, PaneInv(u, p, v)
  PROVE  PaneInv(u, p, v)'
<1>1. CASE v = NoScreen
  BY <1>1 DEF PaneInv, NoScreen
<1>2. CASE ScreenInv(v) /\ u = Viewer(v.of) /\ p = Pane(v)
  <2>1. ScreenInv(v)'
    BY <1>2, ScreenStays
  <2>2. u = Viewer(v.of)' /\ p = Pane(v)'
    BY <1>2 DEF Viewer, Pane, Moves
  <2> QED
    BY <2>1, <2>2 DEF PaneInv
<1> QED
  BY <1>1, <1>2 DEF PaneInv

\* LEMMA: a step of handler h that shows nothing and sends at most one screen keeps
\* the invariant, if it keeps it of h and of that screen.
LEMMA StepIsLocal ==
  ASSUME IndInv, TablesGoOn, TypeOK', NEW h \in Handlers, Moves(h), Advances(h),
         HandlerInv(h)', HoldsAlone(h), UNCHANGED <<shown, acked>>,
         NEW x, wire' \subseteq wire \cup {x},
         x \in wire' \ wire =>
           /\ x.of = h
           /\ ScreenInv(x)'
           /\ x.stage = "working" => pc[h] = "building" /\ stage[h] = "working"
  PROVE  IndInv'
<1>1. \A v \in wire' : ScreenInv(v)'
  BY ScreenStays DEF IndInv
<1>2. (\A u \in Senders, p \in Panes : PaneInv(u, p, shown[u][p]))'
  <2>1. \A v : (\E u \in Senders, p \in Panes : PaneInv(u, p, v) /\ v = shown[u][p]) =>
          \A u, p : PaneInv(u, p, v) => PaneInv(u, p, v)'
    BY PanesStay
  <2>2. \A u \in Senders, p \in Panes : PaneInv(u, p, shown[u][p])
    BY DEF IndInv
  <2> QED
    BY <2>1, <2>2
<1>3. OneNotice'
  BY DEF IndInv, OneNotice, ScreenInv, HandlerInv
<1>4. WorkingViewEnds'
  BY <1>3 DEF IndInv, OneNotice, WorkingViewEnds, Seen
<1>5. \A a \in ActionIds : RowInv(a)'
  BY DEF TablesGoOn
<1> QED
  BY <1>1, <1>2, <1>3, <1>4, <1>5, HandlersStay, HoldersStay DEF IndInv

-----------------------------------------------------------------------------
(* Gestures arrive. *)

\* LEMMA: a handler that is delivered keeps the invariant: it has sent nothing yet.
LEMMA ServeStep ==
  ASSUME IndInv, NEW h \in Handlers,
         NEW place \in {"looking", "thinking"}, NEW first \in Stages,
         NEW answer \in {"none", "missing_fields"}, Serve(h, place, first, answer),
         NEW b \in ProposalIds \cup {NoAction}, act' = [act EXCEPT ![h] = b],
         first # "final", first = "working" => OnHome(h),
         place = "thinking" => first = "answer" /\ ~OnHome(h)
  PROVE  IndInv'
<1> USE DEF Serve, Goto, historyVars, peopleVars
<1>1. TablesGoOn
  BY TablesRest
<1>2. Plain(answer) \in Replies
  BY DEF Plain, Replies, Said
<1>3. TypeOK'
  BY <1>1, <1>2 DEF IndInv, TypeOK, TablesGoOn, Places, Live, ActionIds
<1>4. Moves(h) /\ Advances(h)
  BY DEF IndInv, TypeOK, Moves, Advances
<1>5. b \notin DirectIds
  BY IdsAssumption, NoActionIsNone
<1>6. /\ pc'[h] = place /\ stage'[h] = first /\ act'[h] = b /\ reply'[h] = Plain(answer)
      /\ acked'[h] = {} /\ h \notin posted' /\ pc[h] = "idle"
  BY DEF IndInv, TypeOK, HandlerInv
<1>7. HandlerInv(h)'
  <2>1. (\A a \in ActionIds : ReadInv(h, a, recent[h][a]))'
    BY <1>1, ReadingKept
  <2> QED
    BY <1>4, <1>5, <1>6, <2>1
       DEF HandlerInv, OfferInv, Plain, SaysNothing, OnHome, Kind, Moves
<1>8. HoldsAlone(h)
  BY <1>5, <1>6 DEF HoldsAlone, Holds
<1> QED
  BY <1>1, <1>3, <1>4, <1>7, <1>8, StepIsLocal

\* LEMMA: an event of Slack is delivered.
LEMMA EventStep ==
  ASSUME IndInv, NEW h \in Handlers, Event(h)
  PROVE  IndInv'
<1>1. pc[h] = "idle" /\ act[h] = NoAction /\ act' = [act EXCEPT ![h] = NoAction]
  BY DEF IndInv, TypeOK, HandlerInv, Event, Serve
<1>2. CASE Kind(h) = "opened" /\ Serve(h, "looking", "only", "none")
  BY <1>1, <1>2, ServeStep DEF Stages
<1>3. CASE Kind(h) = "post" /\ Serve(h, "thinking", "answer", "none")
  BY <1>1, <1>3, ServeStep DEF Stages, OnHome, HomeKinds
<1> QED
  BY <1>2, <1>3 DEF Event

\* LEMMA: the page asks.
LEMMA BrowseStep ==
  ASSUME IndInv, NEW h \in Handlers, Browse(h)
  PROVE  IndInv'
<1>1. pc[h] = "idle" /\ act[h] = NoAction /\ act' = [act EXCEPT ![h] = NoAction]
  BY DEF IndInv, TypeOK, HandlerInv, Browse, Serve
<1>2. CASE Kind(h) = "send" /\ Serve(h, "thinking", "answer", "none")
  BY <1>1, <1>2, ServeStep DEF Stages, OnHome, HomeKinds
<1>3. CASE Kind(h) = "session" /\ Serve(h, "looking", "only", "none")
  BY <1>1, <1>3, ServeStep DEF Stages
<1> QED
  BY <1>2, <1>3 DEF Browse

\* LEMMA: something on the home is clicked; the button of an offer names an action
\* that waits, never a create.
LEMMA ClickStep ==
  ASSUME IndInv, NEW h \in Handlers, Click(h)
  PROVE  IndInv'
<1> DEFINE offer == shown[Viewer(h)]["home"].body.offer
<1>1. pc[h] = "idle" /\ act[h] = NoAction
  BY DEF IndInv, HandlerInv, Click, Serve
<1>2. UNCHANGED act => act' = [act EXCEPT ![h] = NoAction]
  BY <1>1 DEF IndInv, TypeOK
<1>3. CASE Kind(h) = "draft" /\ Serve(h, "looking", "only", "none") /\ UNCHANGED act
  BY <1>2, <1>3, ServeStep DEF Stages
<1>4. CASE Kind(h) = "blank" /\ Serve(h, "looking", "only", "missing_fields") /\ UNCHANGED act
  BY <1>2, <1>4, ServeStep DEF Stages
<1>5. CASE Kind(h) = "submit" /\ Serve(h, "looking", "working", "none") /\ UNCHANGED act
  BY <1>2, <1>5, ServeStep DEF Stages, OnHome, HomeKinds
<1>6. CASE /\ Kind(h) = "confirm" /\ offer # NoAction
           /\ act' = [act EXCEPT ![h] = offer]
           /\ Serve(h, "looking", "working", "none")
  <2>1. PaneInv(Viewer(h), "home", shown[Viewer(h)]["home"])
    BY ViewerIsSender DEF IndInv, Panes
  <2>2. offer \in ProposalIds
    BY <1>6, <2>1 DEF PaneInv, NoScreen, Plain, ScreenInv, OfferInv
  <2> QED
    BY <1>6, <2>2, ServeStep DEF Stages, OnHome, HomeKinds
<1> QED
  BY <1>3, <1>4, <1>5, <1>6 DEF Click

-----------------------------------------------------------------------------
(* The agent answers, goes to work, or is lost. *)

\* LEMMA: an answer keeps the invariant, whatever was done for it, if the handler's
\* action is one it held before, or none, or one it says nothing of.
LEMMA AnswerStep ==
  ASSUME IndInv, TablesGoOn, NEW h \in Handlers, pc[h] \in {"thinking", "confirming", "working"},
         NEW answer \in Replies, Answer(h, answer), OfferInv(h, answer.offer)',
         NEW b \in ActionIds \cup {NoAction}, act' = [act EXCEPT ![h] = b],
         b \in DirectIds => /\ idem'[b] # "none"
                            /\ b = act[h] \/ SaysNothing(answer.said)
  PROVE  IndInv'
<1> DEFINE v == [of |-> h, stage |-> "answer", body |-> answer, told |-> NoScreen.told]
<1> USE DEF Answer, Goto, historyVars
<1>1. HandlerInv(h)
  BY DEF IndInv
<1>2. /\ stage[h] = IF OnHome(h) THEN "working" ELSE "answer"
      /\ ~SaysNothing(reply[h].said)
  BY <1>1 DEF HandlerInv
<1>3. /\ reply'[h] = answer /\ act'[h] = b
      /\ stage'[h] = IF OnHome(h) THEN "final" ELSE "answer"
      /\ acked'[h] = acked[h] /\ h \notin posted' /\ h \notin posted
  BY <1>1, <1>2 DEF IndInv, TypeOK, HandlerInv
<1>4. \/ OnHome(h) /\ pc' = [pc EXCEPT ![h] = "looking"] /\ wire' = wire
      \/ /\ ~OnHome(h) /\ SaysNothing(answer.said) /\ Kind(h) = "post"
         /\ pc' = [pc EXCEPT ![h] = "done"] /\ wire' = wire
      \/ /\ ~OnHome(h) /\ ~SaysNothing(answer.said) /\ Kind(h) = "post"
         /\ pc' = [pc EXCEPT ![h] = "sending"] /\ wire' = wire
      \/ ~OnHome(h) /\ pc' = [pc EXCEPT ![h] = "done"] /\ wire' = wire \cup {v}
  BY DEF Reach, OnHome, HomeKinds
<1>5. /\ wire' \subseteq wire \cup {v}
      /\ v \in wire' \ wire => ~OnHome(h) /\ pc'[h] = "done"
      /\ pc'[h] \in {"looking", "done", "sending"}
  BY <1>4 DEF IndInv, TypeOK
<1>6. v \in Screens
  <2>1. NoScreen.told \in [ActionIds -> Words]
    BY DEF NoScreen, Words
  <2> QED
    BY <2>1 DEF Screens, Stages
<1>7. TypeOK'
  <2>1. pc' \in [Handlers -> Places]
    BY <1>4 DEF IndInv, TypeOK, Places, Live
  <2>2. stage' \in [Handlers -> Stages]
    BY DEF IndInv, TypeOK, Stages
  <2>3. wire' \subseteq Screens
    BY <1>5, <1>6 DEF IndInv, TypeOK
  <2> QED
    BY <2>1, <2>2, <2>3 DEF IndInv, TypeOK, TablesGoOn
<1>8. Moves(h)
  BY <1>4 DEF IndInv, TypeOK, Moves
<1>9. Advances(h)
  BY <1>2, <1>3, <1>4, <1>5 DEF IndInv, TypeOK, Advances
<1>10. HandlerInv(h)'
  <2>1. OfferInv(h, reply[h].offer)'
    BY <1>3 DEF OfferInv, Viewer
  <2>2. OnHome(h)' <=> OnHome(h)
    BY <1>8 DEF OnHome, Kind, Moves
  <2>3. pc'[h] \in {"looking", "sending"} => stage'[h] \notin acked'[h]
    BY <1>1, <1>2, <1>3, <1>4 DEF IndInv, TypeOK, HandlerInv
  <2>4. "final" \in acked'[h] => stage'[h] = "final"
    BY <1>1, <1>2, <1>3 DEF HandlerInv
  <2>5. pc'[h] = "sending" /\ ~OnHome(h) => ~SaysNothing(answer.said)
    BY <1>4 DEF IndInv, TypeOK
  <2>6. (\A a \in ActionIds : ReadInv(h, a, recent[h][a]))'
    BY ReadingKept
  <2> QED
    BY <1>1, <1>3, <1>5, <2>1, <2>2, <2>3, <2>4, <2>5, <2>6 DEF HandlerInv, SaysNothing
<1>11. HoldsAlone(h)
  BY <1>2, <1>3 DEF HoldsAlone, Holds, SaysNothing
<1>12. v \in wire' \ wire => ScreenInv(v)'
  <2>1. \A a \in ActionIds : LineInv(h, a, v.told[a])'
    BY DEF LineInv, NoScreen
  <2>2. OfferInv(h, v.body.offer)'
    OBVIOUS
  <2> QED
    BY <1>3, <1>5, <2>1, <2>2 DEF ScreenInv
<1> QED
  BY <1>5, <1>7, <1>8, <1>9, <1>10, <1>11, <1>12, StepIsLocal

\* LEMMA: a handler whose place alone changes keeps the invariant, if its action is
\* one it held before, or that nobody holds.
LEMMA GotoStep ==
  ASSUME IndInv, TablesGoOn, NEW h \in Handlers, pc[h] \in {"thinking", "confirming", "working"},
         NEW place \in {"confirming", "working", "lost"}, pc' = [pc EXCEPT ![h] = place],
         UNCHANGED <<job, stage, reply, recent, wire, shown, acked, posted>>,
         began' \in [Handlers -> 0 .. MaxTime],
         NEW b \in ActionIds \cup {NoAction}, act' = [act EXCEPT ![h] = b],
         place = "confirming" => b \in ProposalIds,
         place = "working" => b \in ActionIds,
         b \in DirectIds => /\ idem'[b] # "none"
                            /\ b = act[h] \/ idem[b] = "none"
  PROVE  IndInv'
<1>1. HandlerInv(h)
  BY DEF IndInv
<1>2. TypeOK'
  BY DEF IndInv, TypeOK, TablesGoOn, Places, Live
<1>3. Moves(h) /\ Advances(h)
  BY DEF IndInv, TypeOK, Moves, Advances
<1>4. pc'[h] = place /\ act'[h] = b /\ reply'[h] = reply[h] /\ h \notin posted
  BY <1>1 DEF IndInv, TypeOK, HandlerInv
<1>5. HandlerInv(h)'
  <2>1. OfferInv(h, reply[h].offer)'
    BY <1>1, OffersStay DEF HandlerInv, OfferInv, Viewer
  <2>2. OnHome(h)' <=> OnHome(h)
    BY DEF OnHome, Kind
  <2>3. (\A a \in ActionIds : ReadInv(h, a, recent[h][a]))'
    BY ReadingKept
  <2>4. b \in ProposalIds => b \notin DirectIds
    BY IdsAssumption
  <2> QED
    BY <1>1, <1>4, <2>1, <2>2, <2>3, <2>4 DEF HandlerInv, SaysNothing
<1>6. HoldsAlone(h)
  BY <1>4 DEF IndInv, HandlerInv, HoldsAlone, Holds, SaysNothing
<1> QED
  BY <1>2, <1>3, <1>5, <1>6, StepIsLocal

\* LEMMA: an exception that leaves the agent is answered, or loses the handler.
LEMMA RaiseStep ==
  ASSUME IndInv, TablesGoOn, NEW h \in Handlers, pc[h] \in {"thinking", "confirming", "working"},
         Raise(h), UNCHANGED act
  PROVE  IndInv'
<1>1. act[h] \in ActionIds \cup {NoAction} /\ act' = [act EXCEPT ![h] = act[h]]
  BY DEF IndInv, TypeOK
<1>2. act[h] \in DirectIds => idem'[act[h]] # "none"
  BY DEF IndInv, HandlerInv, TablesGoOn, ActionIds
<1>3. CASE Kind(h) = "post"
  <2>1. began' \in [Handlers -> 0 .. MaxTime]
    BY <1>3 DEF Raise, IndInv, TypeOK
  <2> QED
    BY <1>1, <1>2, <1>3, <2>1, GotoStep DEF Raise, Goto, peopleVars, historyVars
<1>4. CASE Kind(h) # "post"
  <2>1. Plain("unavailable") \in Replies
    BY DEF Plain, Replies, Said
  <2>2. OfferInv(h, Plain("unavailable").offer)'
    BY DEF OfferInv, Plain
  <2>3. Answer(h, Plain("unavailable"))
    BY <1>4 DEF Raise
  <2> QED
    BY <1>1, <1>2, <2>1, <2>2, <2>3, AnswerStep
<1> QED
  BY <1>3, <1>4

-----------------------------------------------------------------------------
(* The steps of the agent. *)

\* LEMMA: what a handler holds while it thinks or works, its next step may hold.
LEMMA StillHolds ==
  ASSUME IndInv, TablesGoOn, NEW h \in Handlers, UNCHANGED act
  PROVE  /\ act[h] \in ActionIds \cup {NoAction} /\ act' = [act EXCEPT ![h] = act[h]]
         /\ act[h] \in DirectIds => idem'[act[h]] # "none"
BY DEF IndInv, TypeOK, HandlerInv, TablesGoOn, ActionIds

\* LEMMA: an answer that offers nothing, in plain words, may always be given.
LEMMA PlainIsReply ==
  ASSUME NEW text \in Said, NEW t \in Tables \cup {NoTable}
  PROVE  /\ [said |-> text, offer |-> NoAction, rows |-> t] \in Replies
         /\ Plain(text) \in Replies
         /\ Plain(text).said = text /\ Plain(text).offer = NoAction
BY DEF Replies, Plain

\* LEMMA: a reading keeps the invariant: it claims nothing.
LEMMA ReadStep ==
  ASSUME IndInv, NEW h \in Handlers, Read(h)
  PROVE  IndInv'
<1>1. TablesGoOn
  BY TablesRest DEF Read, Answer, Untouched
<1>2. PICK t \in Tables \cup {NoTable} :
        Answer(h, [said |-> "ok", offer |-> NoAction, rows |-> t])
  BY DEF Read
<1> DEFINE answer == [said |-> "ok", offer |-> NoAction, rows |-> t]
<1>3. answer \in Replies
  BY PlainIsReply DEF Said
<1>4. OfferInv(h, answer.offer)'
  BY DEF OfferInv
<1> QED
  BY <1>1, <1>2, <1>3, <1>4, StillHolds, AnswerStep DEF Read, Asks

\* LEMMA: a create claims its action, which nobody held, or says nothing of it.
LEMMA CreateStep ==
  ASSUME IndInv, NEW h \in Handlers, NEW t \in CreateTypes, Create(h, t)
  PROVE  IndInv'
<1> DEFINE a == DirectId(t, job[h])
<1>1. a \in DirectIds /\ a \in ActionIds /\ t \in DirectTypes
  BY SurfacesAssumption DEF Create, DirectIds, ActionIds
<1>2. pc[h] = "thinking" /\ act' = [act EXCEPT ![h] = a]
  BY DEF Create, Asks
<1>3. CASE /\ StartDirectAction(a, Viewer(h), t)
           /\ Goto(h, "working")
           /\ UNCHANGED <<now, job, stage, reply, began, recent, peopleVars, historyVars>>
  <2>1. Viewer(h) \in Senders
    BY ViewerIsSender DEF IndInv
  <2>2. TablesGoOn /\ idem'[a] # "none" /\ idem[a] = "none"
    BY <1>1, <1>3, <2>1, ClaimGoesOn DEF StartDirectAction, Claimable
  <2> QED
    BY <1>1, <1>2, <1>3, <2>2, GotoStep DEF Goto, peopleVars, historyVars, IndInv, TypeOK
<1>4. CASE ~Claimable(a) /\ Answer(h, Plain("duplicate_request")) /\ UNCHANGED tableVars
  <2>1. TablesGoOn
    BY <1>4, TablesRest DEF Answer, Untouched
  <2>2. idem'[a] # "none"
    BY <1>1, <1>4, <2>1 DEF Claimable, TablesGoOn
  <2>3. /\ Plain("duplicate_request") \in Replies
        /\ SaysNothing(Plain("duplicate_request").said)
        /\ OfferInv(h, Plain("duplicate_request").offer)'
    BY DEF OfferInv, SaysNothing, Plain, Replies, Said
  <2> QED
    BY <1>1, <1>2, <1>4, <2>1, <2>2, <2>3, AnswerStep
<1> QED
  BY <1>3, <1>4 DEF Create

\* LEMMA: an offer is made to the person who asked.
LEMMA OfferStep ==
  ASSUME IndInv, NEW h \in Handlers, NEW p \in ProposalIds, NEW t \in ProposalTypes,
         Offer(h, p, t)
  PROVE  IndInv'
<1> DEFINE answer == [said |-> "pending_confirmation", offer |-> p, rows |-> NoTable]
<1>1. p \in ActionIds /\ p \notin DirectIds /\ t \in ContactChanges \cup RecordChanges
  BY IdsAssumption, SurfacesAssumption DEF ActionIds
<1>2. Viewer(h) \in Senders
  BY ViewerIsSender DEF IndInv
<1>3. TablesGoOn /\ status'[p] # "none" /\ owner'[p] = Viewer(h)
  BY <1>1, <1>2, OfferGoesOn DEF Offer, Answer
<1>4. answer \in Replies
  BY <1>1 DEF Replies, Said
<1>5. OfferInv(h, answer.offer)'
  BY <1>3 DEF OfferInv, Viewer, Offer, Answer
<1> QED
  BY <1>1, <1>3, <1>4, <1>5, AnswerStep DEF Offer, Asks

\* LEMMA: a confirmation begins; what it names is no create, so it disturbs no holder.
LEMMA BeginConfirmStep ==
  ASSUME IndInv, NEW h \in Handlers, NEW p \in ProposalIds, BeginConfirm(h, p)
  PROVE  IndInv'
<1>1. p \in ActionIds /\ p \notin DirectIds
  BY IdsAssumption DEF ActionIds
<1>2. TablesGoOn
  BY TablesRest DEF BeginConfirm
<1>3. began' \in [Handlers -> 0 .. MaxTime]
  BY DEF BeginConfirm, IndInv, TypeOK, TablesTypeOK
<1> QED
  BY <1>1, <1>2, <1>3, GotoStep DEF BeginConfirm, Goto, peopleVars, historyVars

\* LEMMA: a confirmation commits, or is refused.
LEMMA ConfirmStep ==
  ASSUME IndInv, NEW h \in Handlers, Confirm(h)
  PROVE  IndInv'
<1> DEFINE p == act[h]
<1>1. p \in ProposalIds /\ p \in ActionIds /\ p \notin DirectIds /\ began[h] \in Nat
  BY IdsAssumption DEF Confirm, IndInv, TypeOK, HandlerInv, ActionIds
<1>2. pc[h] = "confirming" /\ act' = [act EXCEPT ![h] = p]
  BY DEF Confirm, IndInv, TypeOK
<1>3. CASE /\ ConfirmAndClaimAction(p, Viewer(h), began[h])
           /\ Goto(h, "working")
           /\ UNCHANGED <<now, job, stage, reply, began, recent, peopleVars, historyVars>>
  <2>1. TablesGoOn
    BY <1>1, <1>3, ConfirmGoesOn
  <2>2. began' \in [Handlers -> 0 .. MaxTime]
    BY <1>3 DEF IndInv, TypeOK
  <2> QED
    BY <1>1, <1>2, <1>3, <2>1, <2>2, GotoStep DEF Goto, peopleVars, historyVars
<1>4. CASE Answer(h, Plain("invalid_confirmation")) /\ UNCHANGED tableVars
  <2>1. TablesGoOn
    BY <1>4, TablesRest DEF Answer, Untouched
  <2>2. /\ Plain("invalid_confirmation") \in Replies
        /\ OfferInv(h, Plain("invalid_confirmation").offer)'
    BY DEF OfferInv, Plain, Replies, Said
  <2> QED
    BY <1>1, <1>2, <1>4, <2>1, <2>2, AnswerStep
<1> QED
  BY <1>3, <1>4 DEF Confirm

\* LEMMA: an answer in plain words keeps the invariant when the handler keeps its
\* action and the tables go on.
LEMMA PlainAnswerStep ==
  ASSUME IndInv, TablesGoOn, NEW h \in Handlers, pc[h] = "working", UNCHANGED act,
         NEW text \in Said, Answer(h, Plain(text))
  PROVE  IndInv'
<1>1. Plain(text) \in Replies /\ OfferInv(h, Plain(text).offer)'
  BY PlainIsReply DEF OfferInv
<1> QED
  BY <1>1, StillHolds, AnswerStep

\* LEMMA: completed work is answered, or its contact's URL is still looked up.
LEMMA CompleteStep ==
  ASSUME IndInv, NEW h \in Handlers, Complete(h)
  PROVE  IndInv'
<1> DEFINE a == act[h]
<1>1. a \in ActionIds
  BY DEF Complete, IndInv, HandlerInv
<1>2. UNCHANGED now /\ UNCHANGED act
  BY DEF Complete, Answer, Raise
<1>3. TablesGoOn
  BY <1>1, <1>2, SettlingGoesOn DEF Complete, CompleteAction, Settled, IdemStatuses, Outcomes
<1>4. CASE Answer(h, Plain("ok"))
  BY <1>2, <1>3, <1>4, PlainAnswerStep DEF Complete, Said
<1>5. CASE Raise(h)
  BY <1>2, <1>3, <1>5, RaiseStep DEF Complete
<1>6. CASE UNCHANGED <<now, pc, job, stage, reply, began, recent, peopleVars, historyVars>>
  <2>1. pc' = [pc EXCEPT ![h] = "working"]
    BY <1>6 DEF Complete, IndInv, TypeOK
  <2> QED
    BY <1>1, <1>2, <1>3, <1>6, <2>1, StillHolds, GotoStep
       DEF Complete, peopleVars, historyVars, IndInv, TypeOK
<1> QED
  BY <1>4, <1>5, <1>6 DEF Complete

\* LEMMA: failed or partial work is answered.
LEMMA FailStep ==
  ASSUME IndInv, NEW h \in Handlers, Fail(h)
  PROVE  IndInv'
<1> DEFINE a == act[h]
<1>1. UNCHANGED now /\ UNCHANGED act /\ pc[h] = "working"
  BY DEF Fail, Answer
<1>2. a \in ActionIds => TablesGoOn
  BY <1>1, SettlingGoesOn
     DEF Fail, FailAction, RecordPartialAction, Settled, IdemStatuses, Outcomes
<1>3. a \in ActionIds
  BY <1>1 DEF IndInv, HandlerInv
<1>4. \E text \in Said : Answer(h, Plain(text))
  BY DEF Fail, Said
<1> QED
  BY <1>1, <1>2, <1>3, <1>4, PlainAnswerStep

\* LEMMA: work that could not be recorded leaves the tables as they are.
LEMMA UnrecordedStep ==
  ASSUME IndInv, NEW h \in Handlers, Unrecorded(h)
  PROVE  IndInv'
<1>1. TablesGoOn
  BY TablesRest DEF Unrecorded, Answer, Raise, Untouched
<1>2. CASE Answer(h, Plain("ok"))
  BY <1>1, <1>2, PlainAnswerStep DEF Unrecorded, Said
<1>3. CASE Raise(h)
  BY <1>1, <1>3, RaiseStep DEF Unrecorded
<1> QED
  BY <1>2, <1>3 DEF Unrecorded

\* LEMMA: an agent that fails before it does anything leaves the tables as they are.
LEMMA ThinkFailsStep ==
  ASSUME IndInv, NEW h \in Handlers, ThinkFails(h)
  PROVE  IndInv'
<1>1. TablesGoOn
  BY TablesRest DEF ThinkFails, Raise, Answer, Untouched
<1> QED
  BY <1>1, RaiseStep DEF ThinkFails

-----------------------------------------------------------------------------
(* The screens. *)

\* What is told of an action as its list was read: it awaits a confirmation just when
\* one that begins now would find it, if nobody took it since.
Timely(h, a, word) ==
  word \in {"awaiting", "expired"} =>
    /\ recent[h][a] = "pending"
    /\ status[a] = "pending" => (word = "awaiting" <=> Confirmable(a, Viewer(h), now))

\* LEMMA: the words of a list are words, and true when the screen is made.
LEMMA ToldIsTrue ==
  ASSUME IndInv, NEW h \in Handlers, NEW a \in ActionIds
  PROVE  /\ Told(h)[a] \in Words
         /\ LineInv(h, a, Told(h)[a])
         /\ Timely(h, a, Told(h)[a])
<1>1. PICK st \in Statuses \cup {"unread"} : st = recent[h][a]
  BY DEF IndInv, TypeOK
<1>2. ReadInv(h, a, st)
  BY <1>1 DEF IndInv, HandlerInv
<1>3. Told(h)[a] = CASE st = "none" -> "absent"
                     [] st = "unread" -> IF OnHome(h) THEN "unknown" ELSE "absent"
                     [] OTHER -> IF OnHome(h) THEN HomeWord(a, st) ELSE PageWord(a, st)
  BY <1>1 DEF Told
<1>4. CASE st \in {"none", "unread"}
  BY <1>3, <1>4 DEF Words, LineInv, Timely
<1>5. CASE st \notin {"none", "unread"}
  <2>1. status[a] # "none" /\ owner[a] = Viewer(h) /\ expires[a] \in Nat /\ now \in Nat
    BY <1>2, <1>5 DEF ReadInv, IndInv, TypeOK, TablesTypeOK
  <2>2. st = "pending" => a \in ProposalIds /\ type[a] \notin DirectTypes
    BY <1>2, <2>1 DEF ReadInv, IndInv, RowInv
  <2>3. status[a] = "pending" => (Confirmable(a, Viewer(h), now) <=> ~(expires[a] <= now))
    BY <2>1 DEF Confirmable
  <2>4. CASE OnHome(h)
    <3>1. /\ HomeWord(a, st) \in {"done", "partly", "expired", "awaiting", "not done"}
          /\ HomeWord(a, st) = "done" => st = "completed"
          /\ HomeWord(a, st) = "partly" => st = "reconciliation_required"
          /\ HomeWord(a, st) = "expired" => st = "pending" /\ expires[a] <= now
          /\ HomeWord(a, st) = "awaiting" => st = "pending" /\ ~(expires[a] <= now)
          /\ HomeWord(a, st) = "not done" => st \notin Unclaimed \cup {"unread"}
      BY <1>5, <2>2 DEF HomeWord, Waiting, Lapsed, Unclaimed, DirectTypes
    <3>2. Told(h)[a] = HomeWord(a, st)
      BY <1>3, <1>5, <2>4
    <3> QED
      BY <1>1, <1>2, <2>1, <2>2, <2>3, <3>1, <3>2 DEF Words, LineInv, ReadInv, Timely, Settled
  <2>5. CASE ~OnHome(h)
    <3>1. /\ PageWord(a, st) \in {"done", "partly", "expired", "awaiting", "not done", "in progress"}
          /\ PageWord(a, st) = "done" => st = "completed"
          /\ PageWord(a, st) = "partly" => st = "reconciliation_required"
          /\ PageWord(a, st) = "expired" => st = "pending" /\ expires[a] <= now
          /\ PageWord(a, st) = "awaiting" => st = "pending" /\ ~(expires[a] <= now)
          /\ PageWord(a, st) = "not done" => st = "failed"
      BY <1>5, <2>2 DEF PageWord, Waiting, Lapsed
    <3>2. Told(h)[a] = PageWord(a, st)
      BY <1>3, <1>5, <2>5
    <3> QED
      BY <1>1, <1>2, <2>1, <2>2, <2>3, <3>1, <3>2
         DEF Words, LineInv, ReadInv, Timely, Settled, Unclaimed
  <2> QED
    BY <2>4, <2>5
<1> QED
  BY <1>4, <1>5

\* LEMMA: what a handler shows beside the list has its type, and its offer is one of
\* the person's own.
LEMMA BodyIsReply ==
  ASSUME IndInv, NEW h \in Handlers
  PROVE  Body(h) \in Replies /\ OfferInv(h, Body(h).offer)
<1>1. Body(h) \in {Plain("working"), Plain("draft"), reply[h]}
  BY DEF Body
<1>2. OfferInv(h, reply[h].offer) /\ reply[h] \in Replies
  BY DEF IndInv, TypeOK, HandlerInv
<1>3. \A text \in {"working", "draft"} : Plain(text) \in Replies /\ Plain(text).offer = NoAction
  BY DEF Plain, Replies, Said
<1> QED
  BY <1>1, <1>2, <1>3 DEF OfferInv

\* LEMMA: a list is read from the tables.
LEMMA LookUpStep ==
  ASSUME IndInv, NEW h \in Handlers, LookUp(h)
  PROVE  IndInv'
<1>1. PICK list : /\ recent' = [recent EXCEPT ![h] = list]
                  /\ \/ list = [a \in ActionIds |->
                                  IF a \in Recent(Viewer(h)) THEN status[a] ELSE "none"]
                     \/ list = [a \in ActionIds |-> "unread"]
  BY DEF LookUp
<1>2. /\ pc' = [pc EXCEPT ![h] = "building"] /\ pc[h] = "looking" /\ Untouched
      /\ UNCHANGED <<job, stage, act, reply, began, wire, shown, acked, posted>>
  BY DEF LookUp, Goto, peopleVars, historyVars
<1>3. TablesGoOn
  BY <1>2, TablesRest
<1>4. HandlerInv(h)
  BY DEF IndInv
<1>5. list \in [ActionIds -> Statuses \cup {"unread"}]
  BY <1>1 DEF IndInv, TypeOK, TablesTypeOK, Statuses, Unclaimed
<1>6. \A a \in ActionIds : ReadInv(h, a, list[a])
  BY <1>1 DEF ReadInv, Recent, IndInv, RowInv, Unclaimed, Settled
<1>7. TypeOK'
  BY <1>1, <1>2, <1>3, <1>5 DEF IndInv, TypeOK, TablesGoOn, Places, Live
<1>8. Moves(h) /\ Advances(h)
  BY <1>1, <1>2 DEF IndInv, TypeOK, Moves, Advances
<1>9. pc'[h] = "building" /\ recent'[h] = list /\ (OnHome(h)' <=> OnHome(h))
  BY <1>1, <1>2 DEF IndInv, TypeOK, OnHome, Kind
<1>10. HandlerInv(h)'
  <2>1. OfferInv(h, reply[h].offer)'
    BY <1>2, <1>3, <1>4, OffersStay DEF HandlerInv, OfferInv, Viewer
  <2>2. act'[h] \in DirectIds => idem'[act[h]] # "none"
    BY <1>2, <1>3, <1>4 DEF HandlerInv, TablesGoOn, ActionIds
  <2>3. \A a \in ActionIds : ReadInv(h, a, list[a])'
    BY <1>2, <1>3, <1>6, ReadingsStay
  <2>4. (\A a \in ActionIds : ReadInv(h, a, recent[h][a]))'
    BY <1>9, <2>3
  <2> QED
    BY <1>2, <1>4, <1>9, <2>1, <2>2, <2>4 DEF HandlerInv, SaysNothing
<1>11. HoldsAlone(h)
  BY <1>2 DEF HoldsAlone, Holds
<1>12. h \notin wire' \ wire
  BY <1>2
<1> QED
  BY <1>2, <1>3, <1>7, <1>8, <1>10, <1>11, <1>12, StepIsLocal

\* LEMMA: a screen is built from what was read, and true when it is sent.
LEMMA BuildStep ==
  ASSUME IndInv, NEW h \in Handlers, Build(h)
  PROVE  IndInv'
<1> DEFINE told == Told(h)
<1>1. PICK v : v = [of |-> h, stage |-> stage[h], body |-> Body(h), told |-> told]
  OBVIOUS
<1>2. wire' = wire \cup {v} /\ recent' = [recent EXCEPT ![h] = Nothing]
  BY <1>1 DEF Build, Send
<1>3. TablesGoOn
  BY TablesRest DEF Build
<1>4. /\ told \in [ActionIds -> Words]
      /\ \A a \in ActionIds : LineInv(h, a, told[a])
  BY ToldIsTrue DEF Told
<1>5. HandlerInv(h)
  BY DEF IndInv
<1>6. Nothing \in [ActionIds -> Statuses \cup {"unread"}]
  BY DEF Nothing, Statuses, Unclaimed
<1>7. /\ pc' = [pc EXCEPT ![h] = IF OnHome(h) THEN "sending" ELSE "done"]
      /\ pc[h] = "building"
      /\ UNCHANGED <<job, stage, act, reply, began, shown, acked, posted>>
  BY DEF Build, Goto, historyVars
<1>8. v \in Screens
  BY <1>4, <1>1, BodyIsReply DEF IndInv, TypeOK, Screens
<1>9. TypeOK'
  BY <1>2, <1>3, <1>6, <1>7, <1>8 DEF IndInv, TypeOK, TablesGoOn, Places, Live
<1>10. Moves(h) /\ Advances(h)
  BY <1>2, <1>7 DEF IndInv, TypeOK, Moves, Advances
<1>11. /\ pc'[h] = (IF OnHome(h) THEN "sending" ELSE "done") /\ (OnHome(h)' <=> OnHome(h))
       /\ recent'[h] = Nothing
  BY <1>2, <1>7 DEF IndInv, TypeOK, OnHome, Kind
<1>12. HandlerInv(h)'
  <2>1. OfferInv(h, reply[h].offer)'
    BY <1>3, <1>5, <1>7, OffersStay DEF HandlerInv, OfferInv, Viewer
  <2>2. act'[h] \in DirectIds => idem'[act[h]] # "none"
    BY <1>3, <1>5, <1>7 DEF HandlerInv, TablesGoOn, ActionIds
  <2>3. (\A a \in ActionIds : ReadInv(h, a, recent[h][a]))'
    BY <1>11 DEF ReadInv, Nothing, Unclaimed, Settled
  <2> QED
    BY <1>5, <1>7, <1>11, <2>1, <2>2, <2>3 DEF HandlerInv, SaysNothing
<1>13. HoldsAlone(h)
  BY <1>7 DEF HoldsAlone, Holds
<1>14. ScreenInv(v)'
  <2>1. OfferInv(h, Body(h).offer) /\ job' = job
    BY <1>7, BodyIsReply
  <2>2. PICK offer : offer = Body(h).offer
    OBVIOUS
  <2>3. OfferInv(h, offer)'
    BY <1>3, <2>1, <2>2, OffersStay
  <2>4. \A a \in ActionIds : LineInv(h, a, v.told[a])'
    BY <1>3, <1>4, <1>1, <2>1, LinesStay
  <2>5. v.of = h /\ v.stage = stage'[h] /\ v.body.offer = offer
    BY <1>7, <1>1, <2>2
  <2> QED
    BY <1>5, <1>7, <1>11, <2>3, <2>4, <2>5 DEF ScreenInv, HandlerInv
<1>15. v.of = h /\ v.stage = stage[h]
  BY <1>1
<1> QED
  BY <1>2, <1>3, <1>7, <1>9, <1>10, <1>12, <1>13, <1>14, <1>15, StepIsLocal

\* LEMMA: a handler whose place alone changes while it sends keeps the invariant, also
\* when its screen is lost or its post reaches the channel.
LEMMA SentStep ==
  ASSUME IndInv, Untouched, NEW h \in Handlers, pc[h] = "sending",
         NEW place \in {"thinking", "done", "lost"}, pc' = [pc EXCEPT ![h] = place],
         UNCHANGED <<job, stage, act, reply, began, recent, shown, acked>>, wire' \subseteq wire,
         place = "thinking" => stage[h] = "working",
         posted' = posted \/ (posted' = posted \cup {h} /\ ~OnHome(h) /\ place # "thinking")
  PROVE  IndInv'
<1>1. TablesGoOn
  BY TablesRest
<1>2. HandlerInv(h)
  BY DEF IndInv
<1>3. TypeOK'
  BY <1>1 DEF IndInv, TypeOK, TablesGoOn, Places, Live
<1>4. Moves(h) /\ Advances(h)
  BY DEF IndInv, TypeOK, Moves, Advances
<1>5. pc'[h] = place /\ (OnHome(h)' <=> OnHome(h)) /\ h \notin posted
  BY <1>2 DEF IndInv, TypeOK, OnHome, Kind, HandlerInv
<1>6. HandlerInv(h)'
  <2>1. OfferInv(h, reply[h].offer)'
    BY <1>1, <1>2, OffersStay DEF HandlerInv, OfferInv, Viewer
  <2>2. act'[h] \in DirectIds => idem'[act[h]] # "none"
    BY <1>1, <1>2 DEF HandlerInv, TablesGoOn, ActionIds
  <2>3. (\A a \in ActionIds : ReadInv(h, a, recent[h][a]))'
    BY <1>1, ReadingKept
  <2> QED
    BY <1>2, <1>5, <2>1, <2>2, <2>3 DEF HandlerInv, SaysNothing
<1>7. HoldsAlone(h)
  BY DEF HoldsAlone, Holds
<1>8. h \notin wire' \ wire
  OBVIOUS
<1> QED
  BY <1>1, <1>3, <1>4, <1>6, <1>7, <1>8, StepIsLocal

\* LEMMA: a screen that was refused, or comes late, is given up.
LEMMA SendFailsStep ==
  ASSUME IndInv, NEW h \in Handlers, SendFails(h)
  PROVE  IndInv'
<1>1. PICK place \in {"thinking", "done"} :
        /\ pc' = [pc EXCEPT ![h] = place]
        /\ place = "thinking" => stage[h] = "working"
  BY DEF SendFails, Proceed, Goto
<1> QED
  BY <1>1, SentStep DEF SendFails, Sending, historyVars

\* LEMMA: a handler that dies while it sends leaves its screen on the way.
LEMMA SendRaisesStep ==
  ASSUME IndInv, NEW h \in Handlers, SendRaises(h)
  PROVE  IndInv'
BY SentStep DEF SendRaises, Sending, Goto, peopleVars, historyVars

\* LEMMA: a reply reaches the channel, or does not, and is not tried again.
LEMMA PostStep ==
  ASSUME IndInv, NEW h \in Handlers, Post(h)
  PROVE  IndInv'
<1>1. PICK place \in {"done", "lost"} : pc' = [pc EXCEPT ![h] = place]
  BY DEF Post, Goto
<1>2. ~OnHome(h)
  BY DEF Post, OnHome, HomeKinds
<1> QED
  BY <1>1, <1>2, SentStep DEF Post, peopleVars

\* LEMMA: a screen that is shown is one for its pane, and takes no other's place there.
LEMMA SeenIsTrue ==
  ASSUME IndInv, NEW v \in wire, See(v)
  PROVE  /\ \A u \in Senders, p \in Panes : PaneInv(u, p, shown'[u][p])
         /\ shown' \in [Senders -> [Panes -> Screens]]
         /\ shown'[Viewer(v.of)][Pane(v)] = v
         /\ \A u \in Senders, p \in Panes :
              shown'[u][p] = v \/ (shown'[u][p] = shown[u][p] /\ <<u, p>> # <<Viewer(v.of), Pane(v)>>)
<1>1. v \in Screens /\ ScreenInv(v) /\ v.of \in Handlers
  BY DEF IndInv, TypeOK, ScreenInv
<1>2. Viewer(v.of) \in Senders /\ Pane(v) \in Panes
  BY <1>1, ViewerIsSender DEF IndInv, Pane, Panes
<1>3. shown \in [Senders -> [Panes -> Screens]]
  BY DEF IndInv, TypeOK
<1>4. \A u \in Senders, p \in Panes :
        shown'[u][p] = IF u = Viewer(v.of) /\ p = Pane(v) THEN v ELSE shown[u][p]
  BY <1>2, <1>3 DEF See
<1>5. shown' \in [Senders -> [Panes -> Screens]]
  BY <1>1, <1>2, <1>3 DEF See
<1>6. \A u \in Senders, p \in Panes : PaneInv(u, p, shown'[u][p])
  BY <1>1, <1>4 DEF IndInv, PaneInv
<1> QED
  BY <1>2, <1>4, <1>5, <1>6

\* LEMMA: a screen that arrives late was true and stays so.
LEMMA ArrivesStep ==
  ASSUME IndInv, NEW v \in wire, Arrives(v)
  PROVE  IndInv'
<1> USE DEF Arrives, handlerVars, historyVars
<1>1. TablesGoOn
  BY TablesRest
<1>2. TypeOK'
  BY <1>1, SeenIsTrue DEF IndInv, TypeOK, TablesGoOn
<1>3. \A g \in Handlers : HandlerInv(g) <=> HandlerInv(g)'
  BY DEF HandlerInv, OfferInv, ReadInv, Viewer, OnHome, Kind, Untouched, tableVars
<1>4. \A w : ScreenInv(w) <=> ScreenInv(w)'
  BY DEF ScreenInv, LineInv, OfferInv, Viewer, OnHome, Kind, Untouched, tableVars
<1>5. (\A u \in Senders, p \in Panes : PaneInv(u, p, shown[u][p]))'
  <2>1. \A u, p, w : PaneInv(u, p, w) => PaneInv(u, p, w)'
    BY <1>4 DEF PaneInv, NoScreen, Viewer, Pane
  <2> QED
    BY <2>1, SeenIsTrue
<1>6. OneNotice'
  BY DEF IndInv, OneNotice
<1>7. WorkingViewEnds'
  <2>1. Seen' \subseteq Seen
    BY SeenIsTrue DEF Seen
  <2> QED
    BY <2>1 DEF IndInv, WorkingViewEnds
<1>8. OneHolder'
  BY DEF IndInv, OneHolder, Holds
<1> QED
  BY <1>1, <1>2, <1>3, <1>4, <1>5, <1>6, <1>7, <1>8 DEF IndInv, TablesGoOn

\* LEMMA: an acknowledged screen takes the place of what the handler showed before;
\* its working notice was the only one.
LEMMA AcceptStep ==
  ASSUME IndInv, NEW h \in Handlers, Accept(h)
  PROVE  IndInv'
<1>1. PICK v \in wire : IsAt(v, h) /\ See(v) /\ wire' = wire \ {v}
  BY DEF Accept
<1>2. PICK place \in {"thinking", "done"} :
        /\ pc' = [pc EXCEPT ![h] = place]
        /\ place = "thinking" => stage[h] = "working"
  BY DEF Accept, Proceed, Goto
<1>3. /\ pc[h] = "sending" /\ OnHome(h) /\ Untouched
      /\ acked' = [acked EXCEPT ![h] = @ \cup {stage[h]}]
      /\ UNCHANGED <<job, stage, act, reply, began, recent, posted>>
  BY DEF Accept, Sending
<1>4. TablesGoOn
  BY <1>3, TablesRest
<1>5. HandlerInv(h) /\ v.of = h /\ v.stage = stage[h]
  BY <1>1 DEF IndInv, IsAt
<1>6. acked'[h] = acked[h] \cup {stage[h]} /\ \A g \in Handlers \ {h} : acked'[g] = acked[g]
  BY <1>3 DEF IndInv, TypeOK
<1>7. TypeOK'
  <2>1. pc' \in [Handlers -> Places]
    BY <1>2 DEF IndInv, TypeOK, Places, Live
  <2>2. acked' \in [Handlers -> SUBSET Stages]
    BY <1>3 DEF IndInv, TypeOK
  <2>3. shown' \in [Senders -> [Panes -> Screens]]
    BY <1>1, SeenIsTrue
  <2> QED
    BY <1>1, <1>3, <1>4, <2>1, <2>2, <2>3 DEF IndInv, TypeOK, TablesGoOn
<1>8. Moves(h) /\ Advances(h) /\ HoldsAlone(h)
  BY <1>2, <1>3, <1>6 DEF IndInv, TypeOK, Moves, Advances, HoldsAlone, Holds
<1>9. pc'[h] = place /\ (OnHome(h)' <=> OnHome(h)) /\ h \notin posted
  BY <1>2, <1>3, <1>5 DEF IndInv, TypeOK, OnHome, Kind, HandlerInv
<1>10. HandlerInv(h)'
  <2>1. OfferInv(h, reply[h].offer)'
    BY <1>3, <1>4, <1>5, OffersStay DEF HandlerInv, OfferInv, Viewer
  <2>2. act'[h] \in DirectIds => idem'[act[h]] # "none"
    BY <1>3, <1>4, <1>5 DEF HandlerInv, TablesGoOn, ActionIds
  <2>3. (\A a \in ActionIds : ReadInv(h, a, recent[h][a]))'
    BY <1>3, <1>4, ReadingKept
  <2> QED
    BY <1>2, <1>3, <1>5, <1>6, <1>9, <2>1, <2>2, <2>3 DEF HandlerInv, SaysNothing
<1>11. \A w \in wire' : ScreenInv(w)'
  BY <1>1, <1>4, <1>8, ScreenStays DEF IndInv
<1>12. (\A u \in Senders, p \in Panes : PaneInv(u, p, shown[u][p]))'
  <2>1. \A u, p, w : PaneInv(u, p, w) => PaneInv(u, p, w)'
    BY <1>4, <1>8, PanesStay
  <2> QED
    BY <1>1, <2>1, SeenIsTrue
<1>13. OneNotice'
  BY <1>1, <1>5, <1>6 DEF IndInv, OneNotice, ScreenInv
<1>14. WorkingViewEnds'
  <2> SUFFICES ASSUME NEW g \in Handlers, {"working", "final"} \subseteq acked'[g],
                      NEW w \in Seen', w.of = g, w.stage = "working"
               PROVE  FALSE
    BY DEF WorkingViewEnds
  <2>1. w \in Seen
    BY <1>1, SeenIsTrue DEF Seen
  <2>2. ~({"working", "final"} \subseteq acked[g])
    BY <2>1 DEF IndInv, WorkingViewEnds
  <2>3. g = h
    BY <1>6, <2>2
  <2>4. stage[h] = "final" /\ "working" \in acked[h]
    BY <1>5, <1>6, <2>2, <2>3 DEF HandlerInv
  <2>5. w \notin wire'
    BY <1>1, <2>3, <2>4 DEF IndInv, OneNotice
  <2>6. PICK u \in Senders, p \in Panes : w = shown'[u][p]
    BY <2>5 DEF Seen
  <2>7. w # v
    BY <1>5, <2>4
  <2>8. w = shown[u][p] /\ <<u, p>> # <<Viewer(h), Pane(v)>>
    BY <1>1, <1>5, <2>6, <2>7, SeenIsTrue
  <2>9. PaneInv(u, p, w) /\ w # NoScreen
    BY <2>8 DEF IndInv, NoScreen
  <2>10. u = Viewer(h) /\ p = Pane(w)
    BY <2>3, <2>9 DEF PaneInv
  <2>11. Pane(w) = Pane(v)
    BY <1>3, <1>5, <2>3 DEF Pane, OnHome, Kind
  <2> QED
    BY <2>8, <2>10, <2>11
<1>15. (\A g \in Handlers : HandlerInv(g))' /\ OneHolder'
  BY <1>4, <1>8, <1>10, HandlersStay, HoldersStay
<1>16. (\A a \in ActionIds : RowInv(a))'
  BY <1>4 DEF TablesGoOn
<1> QED
  BY <1>7, <1>11, <1>12, <1>13, <1>14, <1>15, <1>16 DEF IndInv

-----------------------------------------------------------------------------
(* The process, the clock, and the invariant. *)

\* LEMMA: handlers that die hold what they held.
LEMMA CrashStep ==
  ASSUME IndInv, Crash
  PROVE  IndInv'
<1> USE DEF Crash, peopleVars, historyVars
<1>1. TablesGoOn
  BY TablesRest
<1>2. TypeOK'
  BY <1>1 DEF IndInv, TypeOK, TablesGoOn, Places
<1>3. \A g \in Handlers :
        pc'[g] = pc[g] \/ (pc'[g] = "lost" /\ pc[g] \notin {"idle", "done", "lost"})
  BY DEF Live
<1>4. \A g \in Handlers : HandlerInv(g) => HandlerInv(g)'
  BY <1>3 DEF HandlerInv, OfferInv, ReadInv, Viewer, OnHome, Kind, Untouched, tableVars,
     SaysNothing
<1>5. \A w : ScreenInv(w) => ScreenInv(w)'
  BY <1>3 DEF ScreenInv, LineInv, OfferInv, Viewer, OnHome, Kind, Untouched, tableVars
<1>6. (\A u \in Senders, p \in Panes : PaneInv(u, p, shown[u][p]))'
  <2>1. \A u, p, w : PaneInv(u, p, w) => PaneInv(u, p, w)'
    BY <1>5 DEF PaneInv, NoScreen, Viewer, Pane
  <2> QED
    BY <2>1 DEF IndInv
<1>7. OneNotice' /\ WorkingViewEnds' /\ OneHolder'
  BY DEF IndInv, OneNotice, WorkingViewEnds, Seen, OneHolder, Holds
<1> QED
  BY <1>1, <1>2, <1>4, <1>5, <1>6, <1>7 DEF IndInv, TablesGoOn

\* LEMMA: time passes.
LEMMA ClockStep ==
  ASSUME IndInv, Clock
  PROVE  IndInv'
<1> USE DEF Clock, handlerVars, peopleVars, historyVars
<1>1. TablesGoOn
  BY TimeGoesOn
<1>2. TypeOK'
  BY <1>1 DEF IndInv, TypeOK, TablesGoOn
<1>3. \A g \in Handlers : HandlerInv(g) => HandlerInv(g)'
  BY DEF HandlerInv, OfferInv, ReadInv, Viewer, OnHome, Kind, Tick, tableVars
<1>4. \A w : ScreenInv(w) => ScreenInv(w)'
  <2> SUFFICES ASSUME NEW w, ScreenInv(w)
               PROVE  ScreenInv(w)'
    OBVIOUS
  <2>1. \A a \in ActionIds : LineInv(w.of, a, w.told[a])'
    BY <1>1, LinesStay DEF ScreenInv
  <2>2. OfferInv(w.of, w.body.offer)'
    BY <1>1, OffersStay DEF ScreenInv
  <2> QED
    BY <2>1, <2>2 DEF ScreenInv, OnHome, Kind
<1>5. (\A u \in Senders, p \in Panes : PaneInv(u, p, shown[u][p]))'
  <2>1. \A u, p, w : PaneInv(u, p, w) => PaneInv(u, p, w)'
    BY <1>4 DEF PaneInv, NoScreen, Viewer, Pane
  <2> QED
    BY <2>1 DEF IndInv
<1>6. OneNotice' /\ WorkingViewEnds' /\ OneHolder'
  BY DEF IndInv, OneNotice, WorkingViewEnds, Seen, OneHolder, Holds
<1> QED
  BY <1>1, <1>2, <1>3, <1>4, <1>5, <1>6 DEF IndInv, TablesGoOn

\* LEMMA: the invariant holds at the start: nobody sees anything yet.
LEMMA InitIndInv == Init => IndInv
<1> SUFFICES ASSUME Init PROVE IndInv
  OBVIOUS
<1> USE DEF Init, TablesInit
<1>1. Plain("none") \in Replies
  BY PlainIsReply DEF Said
<1>2. TypeOK
  <2>1. TablesTypeOK
    BY ClockAssumption DEF TablesTypeOK, Statuses, Unclaimed, IdemStatuses, Outcomes
  <2>2. NoScreen \in Screens
    BY <1>1 DEF NoScreen, Screens, Stages, Words
  <2>3. Nothing \in [ActionIds -> Statuses \cup {"unread"}]
    BY DEF Nothing, Statuses, Unclaimed
  <2>4. 0 \in 0 .. MaxTime
    BY ClockAssumption
  <2> QED
    BY <1>1, <2>1, <2>2, <2>3, <2>4 DEF TypeOK, Places, Live, Stages
<1>3. \A a \in ActionIds : RowInv(a)
  BY DEF RowInv, Unclaimed
<1>4. \A h \in Handlers : HandlerInv(h)
  BY NoActionIsNone DEF HandlerInv, OfferInv, Plain, ReadInv, Nothing, Unclaimed, Settled
<1>5. \A u \in Senders, p \in Panes : PaneInv(u, p, shown[u][p])
  BY DEF PaneInv
<1>6. OneNotice /\ WorkingViewEnds
  BY DEF OneNotice, WorkingViewEnds
<1>7. OneHolder
  BY NoActionIsNone DEF OneHolder, Holds
<1> QED
  BY <1>2, <1>3, <1>4, <1>5, <1>6, <1>7 DEF IndInv

\* LEMMA: a step that changes nothing keeps the invariant.
LEMMA StutterStep ==
  ASSUME IndInv, UNCHANGED vars
  PROVE  IndInv'
<1> USE DEF vars
<1>1. TypeOK' /\ \A a \in ActionIds : RowInv(a)'
  BY DEF IndInv, TypeOK, TablesTypeOK, RowInv
<1>2. \A g \in Handlers : HandlerInv(g) => HandlerInv(g)'
  BY DEF HandlerInv, OfferInv, ReadInv, Viewer, OnHome, Kind
<1>3. \A w : ScreenInv(w) => ScreenInv(w)'
  BY DEF ScreenInv, LineInv, OfferInv, Viewer, OnHome, Kind
<1>4. (\A u \in Senders, p \in Panes : PaneInv(u, p, shown[u][p]))'
  <2>1. \A u, p, w : PaneInv(u, p, w) => PaneInv(u, p, w)'
    BY <1>3 DEF PaneInv, NoScreen, Viewer, Pane
  <2> QED
    BY <2>1 DEF IndInv
<1>5. OneNotice' /\ WorkingViewEnds' /\ OneHolder'
  BY DEF IndInv, OneNotice, WorkingViewEnds, Seen, OneHolder, Holds
<1> QED
  BY <1>1, <1>2, <1>3, <1>4, <1>5 DEF IndInv

\* LEMMA: every step keeps the invariant.
LEMMA NextIndInv == IndInv /\ [Next]_vars => IndInv'
<1> SUFFICES ASSUME IndInv, [Next]_vars
             PROVE  IndInv'
  OBVIOUS
<1>1. ASSUME NEW h \in Handlers, Arrive(h)
      PROVE  IndInv'
  BY <1>1, EventStep, ClickStep, BrowseStep DEF Arrive
<1>2. ASSUME NEW h \in Handlers, Continue(h)
      PROVE  IndInv'
  <2>1. CASE Think(h)
    BY <2>1, ReadStep, CreateStep, OfferStep, BeginConfirmStep, ConfirmStep, CompleteStep, FailStep,
       UnrecordedStep, ThinkFailsStep DEF Think
  <2> QED
    BY <1>2, <2>1, LookUpStep, BuildStep, AcceptStep, SendFailsStep, SendRaisesStep, PostStep DEF Continue
<1>3. ASSUME NEW v \in wire, Arrives(v)
      PROVE  IndInv'
  BY <1>3, ArrivesStep
<1>4. CASE Crash
  BY <1>4, CrashStep
<1>5. CASE Clock
  BY <1>5, ClockStep
<1>6. CASE UNCHANGED vars
  BY <1>6, StutterStep
<1> QED
  BY <1>1, <1>2, <1>3, <1>4, <1>5, <1>6 DEF Next

\* THEOREM: IndInv is an invariant of the screens and their handlers.
THEOREM IndInvHolds == Spec => []IndInv
BY InitIndInv, NextIndInv, PTL DEF Spec

-----------------------------------------------------------------------------
(* The properties. *)

\* THEOREM: every variable keeps its type.
THEOREM TypeCorrect == Spec => []TypeOK
<1>1. IndInv => TypeOK
  BY DEF IndInv
<1> QED
  BY <1>1, IndInvHolds, PTL

\* LEMMA: every screen there is, is empty or true.
LEMMA SeenScreens ==
  ASSUME IndInv, NEW v \in Seen
  PROVE  v = NoScreen \/ ScreenInv(v)
BY DEF IndInv, Seen, PaneInv

\* THEOREM: what a list of recent actions said stays true while it is on its way and
\* while it is looked at (Home and page, _publish_home and assistant_session).
THEOREM ListsStayTrue == Spec => []ActivityIsTrue
<1>1. IndInv => ActivityIsTrue
  <2> SUFFICES ASSUME IndInv, NEW v \in Seen, v.of # NoHandler, NEW a \in ActionIds
               PROVE  /\ v.told[a] \notin {"absent", "unknown"} => owner[a] = Viewer(v.of)
                      /\ v.told[a] = "done" => status[a] = "completed"
                      /\ v.told[a] = "partly" => status[a] = "reconciliation_required"
                      /\ v.told[a] = "expired" =>
                           /\ expires[a] <= now
                           /\ status[a] = "pending" \/ confirmed_at[a] < expires[a]
                      /\ v.told[a] = "awaiting" => a \in ProposalIds
                      /\ v.told[a] = "not done" => status[a] \notin Unclaimed
                      /\ v.body.offer = a => owner[a] = Viewer(v.of)
    BY DEF ActivityIsTrue
  <2>1. ScreenInv(v)
    BY SeenScreens DEF NoScreen
  <2>2. LineInv(v.of, a, v.told[a]) /\ RowInv(a)
    BY <2>1 DEF ScreenInv, IndInv
  <2>3. v.told[a] = "expired" =>
          expires[a] <= now /\ (status[a] = "pending" \/ confirmed_at[a] < expires[a])
    BY <2>2 DEF LineInv, RowInv, Unclaimed
  <2> QED
    BY <2>1, <2>2, <2>3, NoActionIsNone DEF ScreenInv, LineInv, OfferInv
<1> QED
  BY <1>1, IndInvHolds, PTL

\* THEOREM: a working notice does not come back over the result of its request when
\* Slack acknowledged both.
THEOREM NoticesEnd == Spec => []WorkingViewEnds
<1>1. IndInv => WorkingViewEnds
  BY DEF IndInv
<1> QED
  BY <1>1, IndInvHolds, PTL

\* THEOREM: of the deliveries of a post, at most one replies about the create that
\* the post claimed (SaysNothing of a duplicate).
THEOREM CreatesAnsweredOnce == Spec => []CreateAnsweredOnce
<1>1. IndInv => CreateAnsweredOnce
  <2> SUFFICES ASSUME IndInv, NEW g \in posted, NEW h \in posted,
                      act[g] = act[h], act[h] \in DirectIds
               PROVE  g = h
    BY DEF CreateAnsweredOnce
  <2>1. g \in Handlers /\ h \in Handlers
    BY DEF IndInv, TypeOK
  <2>2. Holds(g, act[h]) /\ Holds(h, act[h])
    BY <2>1 DEF IndInv, HandlerInv, Holds
  <2> QED
    BY <2>1, <2>2 DEF IndInv, OneHolder
<1> QED
  BY <1>1, IndInvHolds, PTL

\* LEMMA: of a screen that a step puts on its way, what awaits a confirmation can be
\* confirmed, and what has expired cannot, if nobody took it since it was read.
LEMMA SentAwaiting ==
  ASSUME IndInv, [Next]_vars
  PROVE  \A v \in wire' \ wire, a \in ActionIds : Timely(v.of, a, v.told[a])
<1> SUFFICES ASSUME NEW v \in wire' \ wire, NEW a \in ActionIds
             PROVE  Timely(v.of, a, v.told[a])
  OBVIOUS
<1>1. ASSUME NEW h \in Handlers, NEW answer, Answer(h, answer)
      PROVE  Timely(v.of, a, v.told[a])
  BY <1>1 DEF Answer, Reach, NoScreen, Timely
<1>2. ASSUME NEW h \in Handlers, Raise(h)
      PROVE  Timely(v.of, a, v.told[a])
  BY <1>1, <1>2 DEF Raise, peopleVars
<1>3. ASSUME NEW h \in Handlers, Build(h)
      PROVE  Timely(v.of, a, v.told[a])
  <2>1. v.of = h /\ v.told = Told(h)
    BY <1>3 DEF Build, Send
  <2> QED
    BY <2>1, ToldIsTrue
<1>4. ASSUME NEW h \in Handlers, Arrive(h)
      PROVE  FALSE
  BY <1>4 DEF Arrive, Event, Click, Browse, Serve, peopleVars
<1>5. ASSUME NEW h \in Handlers, Think(h)
      PROVE  Timely(v.of, a, v.told[a])
  BY <1>1, <1>2, <1>5 DEF Think, Read, Create, Offer, BeginConfirm, Confirm, Complete, Fail,
     Unrecorded, ThinkFails, peopleVars
<1>6. ASSUME NEW h \in Handlers,
             LookUp(h) \/ Accept(h) \/ SendFails(h) \/ SendRaises(h) \/ Post(h)
      PROVE  FALSE
  BY <1>6 DEF LookUp, Accept, SendFails, SendRaises, Post, peopleVars
<1>7. ~(UNCHANGED wire) /\ ~\E w \in wire : Arrives(w)
  BY DEF Arrives
<1> QED
  BY <1>3, <1>4, <1>5, <1>6, <1>7 DEF Next, Continue, Crash, Clock, peopleVars, vars

\* THEOREM: a screen says of an action that nobody took since the list was read that it
\* awaits a confirmation if and only if one that begins then would find it (the
\* comparisons of Home and page with expires_at > now of the table).
THEOREM AwaitingIsConfirmable == Spec => AwaitingCanBeConfirmed
<1>1. IndInv /\ [Next]_vars =>
        [\A v \in wire' \ wire, a \in ActionIds :
           v.told[a] \in {"awaiting", "expired"} =>
             /\ recent[v.of][a] = "pending"
             /\ status[a] = "pending" =>
                  (v.told[a] = "awaiting" <=> Confirmable(a, Viewer(v.of), now))]_vars
  BY SentAwaiting DEF Timely
<1> QED
  BY <1>1, IndInvHolds, PTL DEF Spec, AwaitingCanBeConfirmed

-----------------------------------------------------------------------------
(* The length of a home with a table. *)

\* LEMMA: some number of rows is rendered of every table.
LEMMA SomeRowsAreRendered ==
  ASSUME NEW t \in TableShapes
  PROVE  \E n \in 0 .. Len(t.upto) : IsRendered(t, n)
<1> DEFINE Ends == {k \in 0 .. Len(t.upto) : k = Len(t.upto) \/ ~Fits(t, k + 1)}
<1>1. Len(t.upto) \in Nat /\ Len(t.upto) \in Ends
  BY DEF TableShapes
<1>2. Ends \subseteq Nat /\ Ends # {}
  BY <1>1
<1>3. PICK n \in Ends : \A k \in Ends : ~(<<k, n>> \in OpToRel(<, Nat))
  BY <1>2, WFMin, NatLessThanWellFounded
<1>4. \A k \in Ends : ~(k < n)
  BY <1>2, <1>3 DEF OpToRel
<1>5. ASSUME NEW k \in 1 .. n
      PROVE  Fits(t, k)
  <2>1. k - 1 \in 0 .. Len(t.upto) /\ k - 1 < n /\ k - 1 # Len(t.upto) /\ (k - 1) + 1 = k
    BY <1>1
  <2>2. k - 1 \notin Ends
    BY <1>4, <2>1
  <2> QED
    BY <2>1, <2>2
<1> QED
  BY <1>5 DEF IsRendered

\* LEMMA: a table with the rows that are rendered keeps to its limit, if the text above
\* it leaves room for a line.
LEMMA TableIsShort ==
  ASSUME NEW t \in TableShapes, NEW n \in 0 .. Len(t.upto), IsRendered(t, n),
         Before(t, 0) < MaxTableBlocks
  PROVE  TableBlocks(t, n) <= MaxTableBlocks /\ TableBlocks(t, n) \in Int
<1>1. /\ Len(t.upto) \in Nat /\ t.text \in Nat /\ n \in Nat
      /\ \A k \in 0 .. Len(t.upto) : Upto(t, k) \in Nat
  BY DEF Upto, TableShapes
<1>2. CASE n = 0
  BY <1>1, <1>2, TablesAssumption DEF TableBlocks, Before, Upto
<1>3. CASE n > 0
  <2>1. Fits(t, n) /\ n - 1 \in 0 .. Len(t.upto)
    BY <1>1, <1>3 DEF IsRendered
  <2>2. Upto(t, n) \in Nat /\ Upto(t, n - 1) \in Nat
    BY <1>1, <2>1
  <2>3. CASE n < Len(t.upto)
    <3>1. 1 + t.text + Upto(t, n) + (n - 1) + 2 <= MaxTableBlocks
      BY <1>1, <2>1, <2>2, <2>3, TablesAssumption DEF Fits, Before
    <3>2. TableBlocks(t, n) = Before(t, n) + 1
      BY <1>1, <1>3, <2>3 DEF TableBlocks
    <3> QED
      BY <1>1, <2>2, <3>1, <3>2, TablesAssumption DEF Before
  <2>4. CASE n = Len(t.upto)
    <3>1. Before(t, n - 1) + Upto(t, n) - Upto(t, n - 1) + 0 <= MaxTableBlocks
      <4>1. ~(n < Len(t.upto))
        BY <1>1, <2>4
      <4> QED
        BY <2>1, <4>1 DEF Fits
    <3>2. TableBlocks(t, n) = Before(t, n) - 1
      BY <1>3, <2>4 DEF TableBlocks
    <3>3. MaxTableBlocks \in Nat
      BY TablesAssumption
    <3> QED
      BY <1>1, <2>2, <3>1, <3>2, <3>3 DEF Before
  <2> QED
    BY <1>1, <2>3, <2>4
<1> QED
  BY <1>1, <1>2, <1>3

\* THEOREM: a home whose answer is a table is not cut by build_home_view, whatever
\* rows the table has (_render_table_response keeps room for its own notice).
THEOREM TablesAreWhole == Spec => []TablesFit
<1>1. TypeOK => TablesFit
  <2> SUFFICES ASSUME TypeOK, NEW v \in Seen, v.body.rows # NoTable,
                      Before(v.body.rows, 0) < MaxTableBlocks
               PROVE  \E n \in 0 .. Len(v.body.rows.upto) :
                        /\ IsRendered(v.body.rows, n)
                        /\ TableBlocks(v.body.rows, n) <= MaxTableBlocks
                        /\ ViewBlocks(v.body.rows, n) <= MaxViewBlocks
    BY DEF TablesFit
  <2>1. v \in Screens
    BY DEF TypeOK, Seen
  <2>2. PICK t \in TableShapes : t = v.body.rows
    BY <2>1, TablesAssumption DEF Screens, Replies
  <2>3. PICK n \in 0 .. Len(t.upto) : IsRendered(t, n)
    BY SomeRowsAreRendered
  <2>4. TableBlocks(t, n) <= MaxTableBlocks /\ TableBlocks(t, n) \in Int
    BY <2>2, <2>3, TableIsShort
  <2>5. ViewBlocks(t, n) <= MaxViewBlocks
    BY <2>4, TablesAssumption DEF ViewBlocks
  <2> QED
    BY <2>2, <2>3, <2>4, <2>5
<1> QED
  BY <1>1, TypeCorrect, PTL

=============================================================================
