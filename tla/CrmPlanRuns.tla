---------------------------- MODULE CrmPlanRuns ----------------------------
(***************************************************************************)
(* CrmPlan as an implementation of PlanRun.  Two history variables tell    *)
(* what a plan set out to write and what HubSpot carried out of it, which  *)
(* the program itself does not know when an answer is lost.  They change   *)
(* with the steps of CrmPlan and hinder none of them.                      *)
(***************************************************************************)
EXTENDS CrmPlan

VARIABLES
  decided,  \* what the plan is to create and to link, once all is resolved
  carried   \* what HubSpot created and linked for it

runsVars == <<vars, decided, carried>>

RunsInit ==
  /\ Init
  /\ decided = [p \in Plans |-> {}]
  /\ carried = [p \in Plans |-> {}]

\* What _execute goes through: plan.operations of _prepare, then _LINKS.
StepsOf(p) == make[p] \cup RequestedLinks(request[p])

CarriedOut(p) ==
  {r.entity : r \in {s \in records' \ records : s.by = p}}
    \cup {a.link : a \in {b \in associations' \ associations : b.by = p}}

RunsNext ==
  /\ Next
  /\ decided' = [p \in Plans |->
       IF phase[p] = "finding" /\ phase'[p] = "making" THEN StepsOf(p) ELSE decided[p]]
  /\ carried' = [p \in Plans |-> carried[p] \cup CarriedOut(p)]

RunsSpec == RunsInit /\ [][RunsNext]_runsVars

-----------------------------------------------------------------------------
Stage(p) ==
  CASE phase[p] = "idle" -> "absent"
    [] phase[p] = "finding" -> "deciding"
    [] phase[p] = "done" -> "answered"
    [] OTHER -> "writing"

\* Every reply but these three says that the change was not made.
AnswerOf(p) ==
  CASE reply[p] = NoOne -> "none"
    [] reply[p] \in {"ok", "existing", "partial"} -> reply[p]
    [] OTHER -> "failed"

StageMap == [p \in Plans |-> Stage(p)]
AnswerMap == [p \in Plans |-> AnswerOf(p)]

Run == INSTANCE PlanRun WITH
  Runs <- Plans,
  Steps <- Entities \cup Links,
  stage <- StageMap,
  plan <- decided,
  known <- written,
  answer <- AnswerMap

\* CRMOperations implements PlanRun: no step is taken that was not decided before
\* the first write, none is taken twice, none after one whose outcome is unknown,
\* and the reply tells how far the plan came.
PlansImplementRuns == Run!RunSpec

-----------------------------------------------------------------------------
(* The inductive invariant behind it, beside that of CrmPlan. *)

\* A plan knows what it wrote until its reply, and what is left to write is none
\* of it.
ProgressInv(p) ==
  /\ phase[p] \in {"idle", "finding"} => decided[p] = {} /\ carried[p] = {}
  /\ phase[p] \in {"making", "linking"} =>
       /\ decided[p] = StepsOf(p)
       /\ carried[p] = written[p]
       /\ written[p] \subseteq StepsOf(p)
       /\ written[p] \cap todo[p] = {}
  /\ phase[p] = "making" => written[p] \subseteq Entities

RunsInv ==
  /\ decided \in [Plans -> SUBSET (Entities \cup Links)]
  /\ carried \in [Plans -> SUBSET (Entities \cup Links)]
  /\ \A p \in Plans : ProgressInv(p)
=============================================================================
