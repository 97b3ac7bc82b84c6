------------------------- MODULE CrmPlanRunsProofs -------------------------
(***************************************************************************)
(* CRMOperations implements PlanRun, for any number of plans, any requests *)
(* and anything HubSpot may hold.                                          *)
(*                                                                         *)
(* The argument: what HubSpot holds of a plan's records and links is what  *)
(* the plan knows of (KnownInv of CrmPlan), so that every write of a step  *)
(* is new; and the plan takes its steps from todo, which has none of the   *)
(* steps it has written (ProgressInv).                                     *)
(***************************************************************************)
EXTENDS CrmPlanRuns, CrmPlanProofs

RunStep == [Run!RunNext]_(Run!runVars)

\* PlanRun sees nothing happen to plan q.
SameRun(q) ==
  /\ StageMap'[q] = StageMap[q]
  /\ decided'[q] = decided[q]
  /\ carried'[q] = carried[q]
  /\ written'[q] = written[q]
  /\ AnswerMap'[q] = AnswerMap[q]

\* The plan moves, and the histories with it.
Moves(p) ==
  /\ IndInv /\ IndInv' /\ RunsInv
  /\ Step(p)
  /\ RunsNext

\* LEMMA: records and links are different things to write.
LEMMA Kinds == Entities \cap Links = {} /\ Entities # {} /\ NoOne \notin Replies
BY LinkNames, PlanAssumption DEF Entities

\* LEMMA: stage and answer of a plan, before a step and after it.
LEMMA Seen ==
  ASSUME NEW p \in Plans
  PROVE  /\ phase[p] = "idle" => StageMap[p] = "absent"
         /\ phase[p] = "finding" => StageMap[p] = "deciding"
         /\ phase[p] \in {"making", "linking"} => StageMap[p] = "writing"
         /\ reply[p] = NoOne => AnswerMap[p] = "none"
<1>1. StageMap[p] = Stage(p) /\ AnswerMap[p] = AnswerOf(p)
  BY DEF StageMap, AnswerMap
<1>2. phase[p] = "idle" => StageMap[p] = "absent"
  BY <1>1 DEF Stage
<1>3. phase[p] = "finding" => StageMap[p] = "deciding"
  BY <1>1 DEF Stage
<1>4. phase[p] \in {"making", "linking"} => StageMap[p] = "writing"
  BY <1>1 DEF Stage
<1>5. reply[p] = NoOne => AnswerMap[p] = "none"
  <2>1. NoOne \notin {"ok", "existing", "partial"}
    BY Kinds DEF Replies
  <2> QED
    BY <1>1, <2>1 DEF AnswerOf
<1> QED
  BY <1>2, <1>3, <1>4, <1>5

LEMMA SeenNext ==
  ASSUME NEW p \in Plans
  PROVE  /\ phase'[p] = "finding" => StageMap'[p] = "deciding"
         /\ phase'[p] \in {"making", "linking"} => StageMap'[p] = "writing"
         /\ phase'[p] = "done" => StageMap'[p] = "answered"
         /\ reply'[p] = NoOne => AnswerMap'[p] = "none"
         /\ reply'[p] \in {"ok", "existing", "partial"} => AnswerMap'[p] = reply'[p]
         /\ reply'[p] \in {"refused", "duplicate", "proposed", "failed"} =>
              AnswerMap'[p] = "failed"
<1>1. StageMap'[p] = Stage(p)' /\ AnswerMap'[p] = AnswerOf(p)'
  BY DEF StageMap, AnswerMap
<1>2. phase'[p] = "finding" => StageMap'[p] = "deciding"
  BY <1>1 DEF Stage
<1>3. phase'[p] \in {"making", "linking"} => StageMap'[p] = "writing"
  BY <1>1 DEF Stage
<1>4. phase'[p] = "done" => StageMap'[p] = "answered"
  BY <1>1 DEF Stage
<1>5. reply'[p] = NoOne => AnswerMap'[p] = "none"
  <2>1. NoOne \notin {"ok", "existing", "partial"}
    BY Kinds DEF Replies
  <2> QED
    BY <1>1, <2>1 DEF AnswerOf
<1>6. reply'[p] \in {"ok", "existing", "partial"} => AnswerMap'[p] = reply'[p]
  <2>1. NoOne \notin {"ok", "existing", "partial"}
    BY Kinds DEF Replies
  <2> QED
    BY <1>1, <2>1 DEF AnswerOf
<1>7. reply'[p] \in {"refused", "duplicate", "proposed", "failed"} => AnswerMap'[p] = "failed"
  <2>1. NoOne \notin {"refused", "duplicate", "proposed", "failed"}
    BY Kinds DEF Replies
  <2> QED
    BY <1>1, <2>1 DEF AnswerOf
<1> QED
  BY <1>2, <1>3, <1>4, <1>5, <1>6, <1>7

\* LEMMA: PlanRun sees nothing of a plan whose phase, writes and reply stay.
LEMMA RunKept ==
  ASSUME NEW q \in Plans, phase'[q] = phase[q], reply'[q] = reply[q],
         written'[q] = written[q], decided'[q] = decided[q], carried'[q] = carried[q]
  PROVE  SameRun(q)
<1>1. Stage(q)' = Stage(q)
  BY DEF Stage
<1>2. AnswerOf(q)' = AnswerOf(q)
  BY DEF AnswerOf
<1> QED
  BY <1>1, <1>2 DEF SameRun, StageMap, AnswerMap

\* LEMMA: if PlanRun sees nothing happen to any plan, it sees a stutter.
LEMMA AllRunsKept ==
  ASSUME TypeOK, TypeOK', RunsInv, RunsInv', \A q \in Plans : SameRun(q)
  PROVE  RunStep
<1>1. StageMap' = StageMap /\ AnswerMap' = AnswerMap
  BY DEF SameRun, StageMap, AnswerMap
<1>2. decided' = decided /\ carried' = carried /\ written' = written
  BY DEF SameRun, RunsInv, TypeOK
<1> QED
  BY <1>1, <1>2 DEF RunStep, Run!runVars

\* LEMMA: a step that PlanRun sees of one plan only, component by component.
LEMMA OneRunMoves ==
  ASSUME NEW p \in Plans, TypeOK, TypeOK', RunsInv, RunsNext, \A q \in Plans \ {p} : SameRun(q)
  PROVE  /\ StageMap' = [StageMap EXCEPT ![p] = StageMap'[p]]
         /\ decided' = [decided EXCEPT ![p] = decided'[p]]
         /\ carried' = [carried EXCEPT ![p] = carried'[p]]
         /\ written' = [written EXCEPT ![p] = written'[p]]
         /\ AnswerMap' = [AnswerMap EXCEPT ![p] = AnswerMap'[p]]
         /\ decided'[p] = decided[p] => decided' = decided
         /\ carried'[p] = carried[p] => carried' = carried
         /\ written'[p] = written[p] => written' = written
         /\ AnswerMap'[p] = AnswerMap[p] => AnswerMap' = AnswerMap
         /\ StageMap'[p] = StageMap[p] => StageMap' = StageMap
<1>1. DOMAIN decided' = Plans /\ DOMAIN carried' = Plans
  BY DEF RunsNext
<1>2. /\ decided' = [q \in Plans |-> decided'[q]] /\ decided = [q \in Plans |-> decided[q]]
      /\ carried' = [q \in Plans |-> carried'[q]] /\ carried = [q \in Plans |-> carried[q]]
      /\ written' = [q \in Plans |-> written'[q]] /\ written = [q \in Plans |-> written[q]]
  BY DEF RunsNext, RunsInv, TypeOK
<1> QED
  BY <1>1, <1>2 DEF SameRun, StageMap, AnswerMap

\* LEMMA: a step of a plan leaves the others alone, and writes for itself only.
LEMMA StepMoves ==
  ASSUME IndInv, NEW p \in Plans, Step(p)
  PROVE  /\ request' = request /\ phase[p] # "done"
         /\ \A q \in Plans \ {p} :
              /\ phase'[q] = phase[q] /\ todo'[q] = todo[q] /\ make'[q] = make[q]
              /\ written'[q] = written[q] /\ reply'[q] = reply[q]
         /\ \A r \in records' \ records : r.by = p
         /\ \A a \in associations' \ associations : a.by = p
<1> USE DEF EndWith, Done, planVars, New, Association
<1>1. CASE Propose(p) \/ Refuse(p) \/ Start(p)
  BY <1>1 DEF IndInv, TypeOK, Propose, Refuse, Start, Asked
<1>2. CASE DuplicateDeal(p) \/ FoundAll(p) \/ MadeAll(p) \/ Finish(p)
  BY <1>2 DEF IndInv, TypeOK, DuplicateDeal, FoundAll, MadeAll, Finish, Finding
<1>3. CASE \E e \in Entities : Find(p, e)
  BY <1>3 DEF IndInv, TypeOK, Find, UseExisting, PlanCreate, RefuseRecord, SearchFails, Finding
<1>4. CASE \E e \in Entities : Make(p, e)
  BY <1>4 DEF IndInv, TypeOK, Make, EmailUnused, EmailTaken, Create, CreateFails, Making
<1>5. CASE \E l \in Links : Associate(p, l)
  BY <1>5 DEF IndInv, TypeOK, Associate, Link, LinkFails, Linking
<1> QED
  BY <1>1, <1>2, <1>3, <1>4, <1>5 DEF Step

\* LEMMA: so PlanRun sees nothing of the other plans.
LEMMA OthersUnseen ==
  ASSUME NEW p \in Plans, Moves(p), NEW q \in Plans \ {p}
  PROVE  ProgressInv(q)' /\ SameRun(q)
<1>1. /\ request' = request
      /\ phase'[q] = phase[q] /\ todo'[q] = todo[q] /\ make'[q] = make[q]
      /\ written'[q] = written[q] /\ reply'[q] = reply[q]
  BY StepMoves DEF Moves
<1>2. CarriedOut(q) = {}
  BY StepMoves DEF Moves, CarriedOut
<1>3. decided'[q] = decided[q] /\ carried'[q] = carried[q]
  BY <1>1, <1>2 DEF Moves, RunsNext, RunsInv
<1>4. ProgressInv(q)'
  BY <1>1, <1>3 DEF Moves, RunsInv, ProgressInv, StepsOf
<1> QED
  BY <1>1, <1>3, <1>4, RunKept

-----------------------------------------------------------------------------
(* One lemma for each way in which a plan moves. *)

\* What PlanRun is to see, and what is to hold of the plan then.
Good(p) == ProgressInv(p)' /\ RunStep

\* LEMMA: the histories of a plan that moves.
LEMMA History ==
  ASSUME NEW p \in Plans, Moves(p)
  PROVE  /\ TypeOK /\ TypeOK' /\ RunsInv /\ RunsNext /\ ProgressInv(p) /\ PlanInv(p) /\ KnownInv(p)
         /\ \A q \in Plans \ {p} : SameRun(q)
         /\ carried'[p] = carried[p] \cup CarriedOut(p)
         /\ phase[p] # "finding" \/ phase'[p] # "making" => decided'[p] = decided[p]
         /\ phase[p] = "finding" /\ phase'[p] = "making" => decided'[p] = StepsOf(p)
         /\ records' \subseteq records /\ associations' \subseteq associations => CarriedOut(p) = {}
<1>1. \A q \in Plans \ {p} : SameRun(q)
  BY OthersUnseen
<1>2. /\ TypeOK /\ TypeOK' /\ RunsInv /\ RunsNext /\ ProgressInv(p) /\ PlanInv(p) /\ KnownInv(p)
  BY DEF Moves, IndInv, RunsInv, PlanInv
<1>3. /\ carried'[p] = carried[p] \cup CarriedOut(p)
      /\ phase[p] # "finding" \/ phase'[p] # "making" => decided'[p] = decided[p]
      /\ phase[p] = "finding" /\ phase'[p] = "making" => decided'[p] = StepsOf(p)
  BY DEF Moves, RunsNext
<1>4. records' \subseteq records /\ associations' \subseteq associations => CarriedOut(p) = {}
  BY DEF CarriedOut
<1> QED
  BY <1>1, <1>2, <1>3, <1>4

\* LEMMA: a request that is turned away, or that fails before the first write.
LEMMA DeclineRefines ==
  ASSUME NEW p \in Plans, Moves(p), phase[p] \in {"idle", "finding"}, phase'[p] = "done",
         reply'[p] \in {"refused", "duplicate", "proposed", "failed"},
         UNCHANGED <<records, associations, written>>
  PROVE  Good(p)
<1>1. decided'[p] = decided[p] /\ carried'[p] = carried[p]
  BY History
<1>2. StageMap[p] \in {"absent", "deciding"} /\ StageMap'[p] = "answered" /\ AnswerMap'[p] = "failed"
  BY Seen, SeenNext
<1>3. Run!Decline(p)
  BY <1>1, <1>2, History, OneRunMoves DEF Run!Decline, Run!Say, Run!Goto
<1>4. ProgressInv(p)'
  BY DEF ProgressInv
<1> QED
  BY <1>3, <1>4 DEF Good, RunStep, Run!RunNext

\* LEMMA: a request is taken up.
LEMMA BeginRefines ==
  ASSUME NEW p \in Plans, Moves(p), Start(p)
  PROVE  Good(p)
<1>1. /\ phase[p] = "idle" /\ phase'[p] = "finding" /\ reply' = reply
      /\ UNCHANGED <<records, associations, written>>
  BY DEF Start, Asked, planVars, Moves, IndInv, TypeOK
<1>2. decided'[p] = decided[p] /\ carried'[p] = carried[p]
  BY <1>1, History
<1>3. reply[p] = NoOne
  BY <1>1, History DEF KnownInv
<1>4. /\ StageMap[p] = "absent" /\ StageMap'[p] = "deciding"
      /\ AnswerMap[p] = "none" /\ AnswerMap'[p] = "none"
  BY <1>1, <1>3, Seen, SeenNext
<1>5. Run!Begin(p)
  BY <1>1, <1>2, <1>4, History, OneRunMoves DEF Run!Begin, Run!Goto
<1>6. ProgressInv(p)'
  BY <1>1, <1>2, History DEF ProgressInv
<1> QED
  BY <1>5, <1>6 DEF Good, RunStep, Run!RunNext

\* LEMMA: what is not seen: a record is resolved, or an email address is looked up.
LEMMA UnseenRefines ==
  ASSUME NEW p \in Plans, Moves(p), phase'[p] = phase[p], phase[p] \in {"finding", "making"},
         UNCHANGED <<records, associations, written, reply>>,
         phase[p] = "making" => todo' = todo /\ make' = make /\ request' = request
  PROVE  Good(p)
<1>1. decided'[p] = decided[p] /\ carried'[p] = carried[p]
  BY History
<1>2. SameRun(p)
  BY <1>1, RunKept
<1>3. ProgressInv(p)'
  BY <1>1, History DEF ProgressInv, StepsOf
<1>4. decided' = decided /\ carried' = carried
  BY <1>1, History, OneRunMoves
<1>5. RunStep
  BY <1>2, <1>4, History DEF RunStep, Run!runVars, SameRun, StageMap, AnswerMap
<1> QED
  BY <1>3, <1>5 DEF Good

\* LEMMA: all is resolved: the plan's steps are decided, and none is taken.
LEMMA DecideRefines ==
  ASSUME NEW p \in Plans, Moves(p), FoundAll(p)
  PROVE  Good(p)
<1>1. /\ phase[p] = "finding" /\ phase'[p] = "making" /\ todo'[p] = make[p]
      /\ UNCHANGED <<request, records, associations, written, make, reply>>
  BY DEF FoundAll, planVars, Moves, IndInv, TypeOK
<1>2. decided'[p] = StepsOf(p) /\ carried'[p] = carried[p] /\ carried[p] = {} /\ written[p] = {}
  BY <1>1, History DEF ProgressInv, PlanInv
<1>3. reply[p] = NoOne
  BY <1>1, History DEF KnownInv
<1>4. /\ StageMap[p] = "deciding" /\ StageMap'[p] = "writing"
      /\ AnswerMap[p] = "none" /\ AnswerMap'[p] = "none"
  BY <1>1, <1>3, Seen, SeenNext
<1>5. StepsOf(p) \in SUBSET (Entities \cup Links)
  BY Requests, RequestParts DEF Moves, IndInv, TypeOK, StepsOf
<1>6. Run!Decide(p)
  BY <1>1, <1>2, <1>4, <1>5, History, OneRunMoves DEF Run!Decide, Run!Goto
<1>7. ProgressInv(p)'
  BY <1>1, <1>2 DEF ProgressInv, StepsOf
<1> QED
  BY <1>6, <1>7 DEF Good, RunStep, Run!RunNext

\* LEMMA: the plan goes from creating to linking.
LEMMA TurnRefines ==
  ASSUME NEW p \in Plans, Moves(p), MadeAll(p)
  PROVE  Good(p)
<1>1. /\ phase[p] = "making" /\ phase'[p] = "linking"
      /\ todo'[p] = RequestedLinks(request[p])
      /\ UNCHANGED <<request, records, associations, written, make, reply>>
  BY DEF MadeAll, planVars, Moves, IndInv, TypeOK
<1>2. decided'[p] = decided[p] /\ carried'[p] = carried[p]
  BY <1>1, History
<1>3. reply[p] = NoOne
  BY <1>1, History DEF KnownInv
<1>4. /\ StageMap[p] = "writing" /\ StageMap'[p] = "writing"
      /\ AnswerMap[p] = "none" /\ AnswerMap'[p] = "none"
  BY <1>1, <1>3, Seen, SeenNext
<1>5. RunStep
  BY <1>1, <1>2, <1>4, History, OneRunMoves DEF RunStep, Run!runVars
<1>6. written[p] \cap todo'[p] = {}
  <2>1. written[p] \subseteq Entities /\ todo'[p] \subseteq Links
    BY <1>1, History, Requests, RequestParts DEF ProgressInv, Moves, IndInv
  <2> QED
    BY <2>1, Kinds
<1>7. ProgressInv(p)'
  BY <1>1, <1>2, <1>6, History DEF ProgressInv, StepsOf
<1> QED
  BY <1>5, <1>7 DEF Good

\* LEMMA: a step fails and HubSpot has done nothing: what is known is told.
LEMMA GiveUpRefines ==
  ASSUME NEW p \in Plans, Moves(p), phase[p] \in {"making", "linking"}, phase'[p] = "done",
         UNCHANGED <<records, associations, written>>,
         reply'[p] \in {"duplicate", "failed", "partial"},
         reply'[p] = "partial" <=> written[p] # {}
  PROVE  Good(p)
<1>1. decided'[p] = decided[p] /\ carried'[p] = carried[p]
  BY History
<1>2. /\ StageMap[p] = "writing" /\ StageMap'[p] = "answered"
      /\ AnswerMap'[p] = IF written'[p] = {} THEN "failed" ELSE "partial"
  BY Seen, SeenNext
<1>3. Run!GiveUp(p)
  BY <1>1, <1>2, History, OneRunMoves DEF Run!GiveUp, Run!Stop, Run!Say, Run!Goto
<1>4. ProgressInv(p)'
  BY DEF ProgressInv
<1> QED
  BY <1>3, <1>4 DEF Good, RunStep, Run!RunNext

\* LEMMA: HubSpot carries step i out: it is a step of the plan, and a new one.
LEMMA CarryRefines ==
  ASSUME NEW p \in Plans, Moves(p), phase[p] \in {"making", "linking"},
         NEW i \in todo[p], i \in StepsOf(p), i \in Entities \cup Links, CarriedOut(p) = {i},
         \/ written'[p] = written[p] \cup {i}
         \/ written'[p] = written[p] /\ phase'[p] = "done",
         \/ /\ phase'[p] = phase[p] /\ reply' = reply /\ UNCHANGED <<request, make>>
            /\ todo'[p] = todo[p] \ {i}
            /\ phase[p] = "making" => i \in Entities
         \/ /\ phase'[p] = "done" /\ reply'[p] \in {"failed", "partial"}
            /\ reply'[p] = "partial" <=> written'[p] # {}
  PROVE  Good(p)
<1>1. /\ decided'[p] = decided[p] /\ carried'[p] = carried[p] \cup {i}
      /\ carried[p] = written[p] /\ i \in decided[p] \ carried[p]
  BY History DEF ProgressInv
<1>2. StageMap[p] = "writing" /\ AnswerMap[p] = "none"
  BY History, Seen DEF KnownInv
<1>3. written'[p] = written[p] \cup {i} \/ written'[p] = written[p]
  OBVIOUS
<1>4. \/ StageMap'[p] = "writing" /\ AnswerMap'[p] = "none"
      \/ /\ StageMap'[p] = "answered"
         /\ AnswerMap'[p] = IF written'[p] = {} THEN "failed" ELSE "partial"
  BY History, SeenNext DEF KnownInv
<1>5. Run!Carry(p, i)
  <2>1. /\ carried' = [carried EXCEPT ![p] = @ \cup {i}]
        /\ decided' = decided
    BY <1>1, History, OneRunMoves
  <2>2. written' = [written EXCEPT ![p] = @ \cup {i}] \/ UNCHANGED written
    BY <1>3, History, OneRunMoves
  <2>3. UNCHANGED <<StageMap, AnswerMap>> \/ Run!Stop(p)
    BY <1>2, <1>4, History, OneRunMoves DEF Run!Stop, Run!Say, Run!Goto
  <2> QED
    BY <1>1, <1>2, <2>1, <2>2, <2>3 DEF Run!Carry
<1>6. ProgressInv(p)'
  <2>1. CASE phase'[p] = "done"
    BY <2>1 DEF ProgressInv
  <2>2. CASE phase'[p] = phase[p] /\ written'[p] = written[p] \cup {i} /\ phase[p] # "done"
    BY <1>1, <2>2, History DEF ProgressInv, StepsOf
  <2> QED
    BY <2>1, <2>2
<1> QED
  BY <1>5, <1>6 DEF Good, RunStep, Run!RunNext

\* LEMMA: nothing is left to do: all that was decided was done.
LEMMA FinishRefines ==
  ASSUME NEW p \in Plans, Moves(p), Finish(p)
  PROVE  Good(p)
<1>1. /\ phase[p] = "linking" /\ phase'[p] = "done" /\ todo[p] = {}
      /\ reply'[p] = IF written[p] = {} THEN "existing" ELSE "ok"
      /\ UNCHANGED <<records, associations, written>>
  BY DEF Finish, EndWith, planVars, Moves, IndInv, TypeOK
<1>2. decided'[p] = decided[p] /\ carried'[p] = carried[p]
  BY <1>1, History
<1>3. carried[p] = decided[p] /\ written[p] = decided[p]
  BY <1>1, History DEF ProgressInv, PlanInv, LinkingInv, StepsOf
<1>4. /\ StageMap[p] = "writing" /\ StageMap'[p] = "answered"
      /\ AnswerMap'[p] = IF decided[p] = {} THEN "existing" ELSE "ok"
  BY <1>1, <1>3, Seen, SeenNext
<1>5. Run!Finish(p)
  BY <1>1, <1>2, <1>3, <1>4, History, OneRunMoves DEF Run!Finish, Run!Say, Run!Goto
<1>6. ProgressInv(p)'
  BY <1>1 DEF ProgressInv
<1> QED
  BY <1>5, <1>6 DEF Good, RunStep, Run!RunNext

-----------------------------------------------------------------------------
(* Every action is one of these. *)

\* LEMMA: HubSpot has no record of a step that is still to be taken.
LEMMA NewRecord ==
  ASSUME NEW p \in Plans, Moves(p), NEW e \in Entities, Making(p, e),
         records' = records \cup {New(p, e)}, associations' = associations
  PROVE  /\ CarriedOut(p) = {e} /\ e \in todo[p] /\ e \in StepsOf(p) /\ phase[p] = "making"
<1>1. /\ phase[p] = "making" /\ e \in todo[p] /\ e \in make[p]
      /\ New(p, e).entity = e /\ New(p, e).by = p
  BY MakingFacts DEF Moves
<1>2. e \notin written[p]
  BY <1>1, History DEF ProgressInv
<1>3. New(p, e) \notin records
  BY <1>1, <1>2, History DEF KnownInv
<1>4. {r \in records' \ records : r.by = p} = {New(p, e)}
  BY <1>1, <1>3
<1>5. CarriedOut(p) = {e}
  BY <1>1, <1>4 DEF CarriedOut
<1> QED
  BY <1>1, <1>5 DEF StepsOf

\* LEMMA: nor of a link.
LEMMA NewLink ==
  ASSUME NEW p \in Plans, Moves(p), NEW l \in Links, Linking(p, l),
         associations' = associations \cup {Association(p, l)}, records' = records
  PROVE  /\ CarriedOut(p) = {l} /\ l \in todo[p] /\ l \in StepsOf(p) /\ phase[p] = "linking"
<1>1. /\ phase[p] = "linking" /\ l \in todo[p] /\ l \in RequestedLinks(request[p])
      /\ Association(p, l).by = p /\ Association(p, l).link = l
  BY LinkingFacts DEF Moves
<1>2. l \notin written[p]
  BY <1>1, History DEF ProgressInv
<1>3. Association(p, l) \notin associations
  BY <1>1, <1>2, History DEF KnownInv
<1>4. {a \in associations' \ associations : a.by = p} = {Association(p, l)}
  BY <1>1, <1>3
<1>5. CarriedOut(p) = {l}
  BY <1>1, <1>4 DEF CarriedOut
<1> QED
  BY <1>1, <1>5 DEF StepsOf

\* LEMMA: what an ending plan answers.
LEMMA EndAnswers ==
  ASSUME NEW p \in Plans, Moves(p), NEW t, EndWith(p, t)
  PROVE  phase'[p] = "done" /\ reply'[p] = t
BY DEF Moves, IndInv, TypeOK, EndWith

LEMMA MakeRefines ==
  ASSUME NEW p \in Plans, Moves(p), NEW e \in Entities, Make(p, e)
  PROVE  Good(p)
<1>1. CASE EmailUnused(p, e)
  <2>1. phase[p] = "making"
    BY <1>1 DEF EmailUnused, Making
  <2> QED
    BY <1>1, <2>1, UnseenRefines DEF EmailUnused
<1>2. CASE EmailTaken(p, e)
  <2>1. phase[p] = "making" /\ UNCHANGED <<records, associations, written>>
    BY <1>2 DEF EmailTaken, Making, planVars
  <2>2. phase'[p] = "done" /\ reply'[p] = IF written[p] = {} THEN "duplicate" ELSE "partial"
    BY <1>2, EndAnswers DEF EmailTaken, Outcome
  <2> QED
    BY <2>1, <2>2, GiveUpRefines
<1>3. CASE Create(p, e)
  <2>1. /\ Making(p, e) /\ records' = records \cup {New(p, e)}
        /\ written'[p] = written[p] \cup {e}
        /\ UNCHANGED <<request, associations, make>>
    BY <1>3 DEF Create, Moves, IndInv, TypeOK
  <2>2. /\ CarriedOut(p) = {e} /\ e \in todo[p] /\ e \in StepsOf(p) /\ phase[p] = "making"
    BY <2>1, NewRecord
  <2>3. \/ phase' = phase /\ reply' = reply /\ todo'[p] = todo[p] \ {e}
        \/ phase'[p] = "done" /\ reply'[p] = "partial"
    <3>1. CASE EndWith(p, "partial")
      BY <3>1, EndAnswers
    <3>2. CASE Done(p, e) /\ UNCHANGED <<phase, reply>>
      BY <3>2 DEF Done, Moves, IndInv, TypeOK
    <3> QED
      BY <1>3, <3>1, <3>2 DEF Create
  <2> QED
    BY <2>1, <2>2, <2>3, CarryRefines
<1>4. CASE CreateFails(p, e)
  <2>1. /\ Making(p, e) /\ written' = written /\ associations' = associations
        /\ records' = records \/ records' = records \cup {New(p, e)}
    BY <1>4 DEF CreateFails, planVars
  <2>2. phase'[p] = "done" /\ reply'[p] = IF written[p] = {} THEN "failed" ELSE "partial"
    BY <1>4, EndAnswers DEF CreateFails, Outcome
  <2>3. CASE records' = records
    BY <2>1, <2>2, <2>3, GiveUpRefines DEF Making
  <2>4. CASE records' = records \cup {New(p, e)}
    <3>1. /\ CarriedOut(p) = {e} /\ e \in todo[p] /\ e \in StepsOf(p) /\ phase[p] = "making"
      BY <2>1, <2>4, NewRecord
    <3> QED
      BY <2>1, <2>2, <3>1, CarryRefines
  <2> QED BY <2>1, <2>3, <2>4
<1> QED
  BY <1>1, <1>2, <1>3, <1>4 DEF Make

LEMMA AssociateRefines ==
  ASSUME NEW p \in Plans, Moves(p), NEW l \in Links, Associate(p, l)
  PROVE  Good(p)
<1>1. Linking(p, l) /\ NoRecord \notin Joined(p, l)
  BY LinkingFacts DEF Moves, Associate, Link, LinkFails
<1>2. CASE Link(p, l)
  <2>1. /\ associations' = associations \cup {Association(p, l)}
        /\ written'[p] = written[p] \cup {l}
        /\ todo'[p] = todo[p] \ {l}
        /\ UNCHANGED <<request, records, phase, make, reply>>
    BY <1>1, <1>2 DEF Link, Done, Moves, IndInv, TypeOK
  <2>2. /\ CarriedOut(p) = {l} /\ l \in todo[p] /\ l \in StepsOf(p) /\ phase[p] = "linking"
    BY <1>1, <2>1, NewLink
  <2> QED
    BY <2>1, <2>2, CarryRefines
<1>3. CASE LinkFails(p, l)
  <2>1. /\ written' = written /\ records' = records
        /\ \/ associations' = associations
           \/ associations' = associations \cup {Association(p, l)}
    BY <1>3 DEF LinkFails, planVars
  <2>2. phase'[p] = "done" /\ reply'[p] = IF written[p] = {} THEN "failed" ELSE "partial"
    BY <1>3, EndAnswers DEF LinkFails, Outcome
  <2>3. CASE associations' = associations
    BY <1>1, <2>1, <2>2, <2>3, GiveUpRefines DEF Linking
  <2>4. CASE associations' = associations \cup {Association(p, l)}
    <3>1. /\ CarriedOut(p) = {l} /\ l \in todo[p] /\ l \in StepsOf(p) /\ phase[p] = "linking"
      BY <1>1, <2>1, <2>4, NewLink
    <3> QED
      BY <2>1, <2>2, <3>1, CarryRefines
  <2> QED BY <2>1, <2>3, <2>4
<1> QED
  BY <1>2, <1>3 DEF Associate

LEMMA FindRefines ==
  ASSUME NEW p \in Plans, Moves(p), NEW e \in Entities, Find(p, e) \/ DuplicateDeal(p)
  PROVE  Good(p)
<1>1. CASE UseExisting(p, e) \/ PlanCreate(p, e)
  <2>1. /\ phase[p] = "finding" /\ phase' = phase
        /\ UNCHANGED <<records, associations, written, reply>>
    BY <1>1 DEF UseExisting, PlanCreate, Finding
  <2> QED
    BY <2>1, UnseenRefines
<1>2. CASE RefuseRecord(p, e) \/ SearchFails(p, e) \/ DuplicateDeal(p)
  <2>1. phase[p] = "finding" /\ UNCHANGED <<records, associations, written>>
    BY <1>2 DEF RefuseRecord, SearchFails, DuplicateDeal, Finding, planVars
  <2>2. phase'[p] = "done" /\ reply'[p] \in {"refused", "failed", "duplicate"}
    BY <1>2, EndAnswers DEF RefuseRecord, SearchFails, DuplicateDeal
  <2> QED
    BY <2>1, <2>2, DeclineRefines
<1> QED
  BY <1>1, <1>2 DEF Find

LEMMA StepRefines ==
  ASSUME NEW p \in Plans, Moves(p)
  PROVE  Good(p)
<1>1. CASE Propose(p) \/ Refuse(p)
  <2>1. phase[p] = "idle" /\ UNCHANGED <<records, associations, written>>
    BY <1>1 DEF Propose, Refuse, Asked, planVars
  <2>2. phase'[p] = "done" /\ reply'[p] \in {"proposed", "refused"}
    BY <1>1, EndAnswers DEF Propose, Refuse
  <2> QED
    BY <2>1, <2>2, DeclineRefines
<1>2. CASE Start(p) \/ FoundAll(p) \/ MadeAll(p) \/ Finish(p)
  BY <1>2, BeginRefines, DecideRefines, TurnRefines, FinishRefines
<1>3. CASE DuplicateDeal(p)
  BY <1>3, FindRefines, Kinds
<1>4. CASE \E e \in Entities : Find(p, e) \/ Make(p, e)
  BY <1>4, FindRefines, MakeRefines
<1>5. CASE \E l \in Links : Associate(p, l)
  BY <1>5, AssociateRefines
<1> QED
  BY <1>1, <1>2, <1>3, <1>4, <1>5 DEF Moves, Step

\* LEMMA: a record that goes away, and a step of nobody, are not seen.
LEMMA NobodyMoves ==
  ASSUME IndInv, IndInv', RunsInv, RunsNext \/ UNCHANGED runsVars,
         (\E r \in records : Vanish(r)) \/ UNCHANGED vars
  PROVE  RunsInv' /\ RunStep
<1>1. /\ records' \subseteq records
      /\ UNCHANGED <<request, associations, phase, todo, make, written, reply>>
  BY DEF Vanish, planVars, vars
<1>2. \A p \in Plans : CarriedOut(p) = {}
  BY <1>1 DEF CarriedOut
<1>3. decided' = decided /\ carried' = carried
  <2>1. CASE UNCHANGED runsVars
    BY <2>1 DEF runsVars
  <2>2. CASE RunsNext
    BY <1>1, <1>2, <2>2 DEF RunsNext, RunsInv
  <2> QED BY <2>1, <2>2
<1>4. RunsInv'
  BY <1>1, <1>3 DEF RunsInv, ProgressInv, StepsOf
<1>5. \A p \in Plans : SameRun(p)
  BY <1>1, <1>3, RunKept
<1> QED
  BY <1>4, <1>5, AllRunsKept DEF IndInv

\* LEMMA: the histories are sets of steps.
LEMMA HistoriesTyped ==
  ASSUME IndInv, IndInv', RunsInv, RunsNext
  PROVE  /\ decided' \in [Plans -> SUBSET (Entities \cup Links)]
         /\ carried' \in [Plans -> SUBSET (Entities \cup Links)]
<1>1. ASSUME NEW p \in Plans
      PROVE  StepsOf(p) \subseteq Entities \cup Links /\ CarriedOut(p) \subseteq Entities \cup Links
  <2>1. StepsOf(p) \subseteq Entities \cup Links
    BY Requests, RequestParts DEF IndInv, TypeOK, StepsOf
  <2>2. CarriedOut(p) \subseteq Entities \cup Links
    BY DEF IndInv, TypeOK, CarriedOut, Record
  <2> QED BY <2>1, <2>2
<1> QED
  BY <1>1 DEF RunsInv, RunsNext

\* THEOREM: CRMOperations implements PlanRun.
THEOREM PlansAreRuns == RunsSpec => PlansImplementRuns
<1>1. RunsInit => IndInv /\ RunsInv /\ Run!RunInit
  <2> SUFFICES ASSUME RunsInit PROVE IndInv /\ RunsInv /\ Run!RunInit
    OBVIOUS
  <2>1. IndInv /\ RunsInv
    BY InitGood DEF RunsInit, Init, RunsInv, ProgressInv
  <2>2. \A p \in Plans : StageMap[p] = "absent" /\ AnswerMap[p] = "none"
    BY Seen DEF RunsInit, Init
  <2> QED
    BY <2>1, <2>2 DEF RunsInit, Init, Run!RunInit, StageMap, AnswerMap
<1>2. IndInv /\ RunsInv /\ [RunsNext]_runsVars =>
        IndInv' /\ RunsInv' /\ [Run!RunNext]_(Run!runVars)
  <2> SUFFICES ASSUME IndInv, RunsInv, [RunsNext]_runsVars
               PROVE  IndInv' /\ RunsInv' /\ RunStep
    BY DEF RunStep
  <2>1. IndInv'
    BY NextGood DEF RunsNext, runsVars
  <2>2. ASSUME NEW p \in Plans, Step(p), RunsNext
        PROVE  RunsInv' /\ RunStep
    <3>1. Moves(p)
      BY <2>1, <2>2 DEF Moves
    <3>2. \A q \in Plans : ProgressInv(q)'
      BY <3>1, StepRefines, OthersUnseen DEF Good
    <3> QED
      BY <2>1, <2>2, <3>1, <3>2, StepRefines, HistoriesTyped DEF Good, RunsInv
  <2> QED
    BY <2>1, <2>2, NobodyMoves DEF RunsNext, runsVars, Next
<1> QED
  BY <1>1, <1>2, PTL DEF RunsSpec, PlansImplementRuns, Run!RunSpec
=============================================================================
