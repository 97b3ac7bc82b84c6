------------------------------ MODULE PlanRun ------------------------------
(***************************************************************************)
(* What a request about several records promises, whatever it is about and *)
(* whoever else is at work: it decides once which steps it will take, each *)
(* of them changes HubSpot once at most, nothing is written after a step   *)
(* whose outcome is unknown, and the answer says how much of the plan was  *)
(* carried out.  AgentMutations and CrmPlan both implement this, the first *)
(* with steps that are only counted, the second with records and links.    *)
(***************************************************************************)
CONSTANTS
  Runs,
  Steps    \* what a plan may have to write

VARIABLES
  stage,   \* stage[r] \in {"absent", "deciding", "writing", "answered", "gone"}
  plan,    \* the steps that were decided on
  carried, \* the steps that HubSpot carried out
  known,   \* the steps whose success the program knows of
  answer

runVars == <<stage, plan, carried, known, answer>>

RunInit ==
  /\ stage = [r \in Runs |-> "absent"]
  /\ plan = [r \in Runs |-> {}]
  /\ carried = [r \in Runs |-> {}]
  /\ known = [r \in Runs |-> {}]
  /\ answer = [r \in Runs |-> "none"]

Goto(r, place) == stage' = [stage EXCEPT ![r] = place]

Say(r, text) ==
  /\ Goto(r, "answered")
  /\ answer' = [answer EXCEPT ![r] = text]

Begin(r) ==
  /\ stage[r] = "absent"
  /\ Goto(r, "deciding")
  /\ UNCHANGED <<plan, carried, known, answer>>

\* Refused, or something could not be found out: nothing was written.
Decline(r) ==
  /\ stage[r] \in {"absent", "deciding"}
  /\ Say(r, "failed")
  /\ UNCHANGED <<plan, carried, known>>

\* Everything is decided before anything is written.
Decide(r) ==
  /\ stage[r] = "deciding"
  /\ Goto(r, "writing")
  /\ \E steps \in SUBSET Steps : plan' = [plan EXCEPT ![r] = steps]
  /\ UNCHANGED <<carried, known, answer>>

\* The run ends before its plan does.
Stop(r) == Say(r, IF known'[r] = {} THEN "failed" ELSE "partial")

\* HubSpot carries a step out, and its answer comes or is lost.
Carry(r, i) ==
  /\ stage[r] = "writing"
  /\ known[r] = carried[r]
  /\ i \in plan[r] \ carried[r]
  /\ carried' = [carried EXCEPT ![r] = @ \cup {i}]
  /\ known' = [known EXCEPT ![r] = @ \cup {i}] \/ UNCHANGED known
  /\ UNCHANGED <<stage, answer>> \/ Stop(r)
  /\ UNCHANGED plan

GiveUp(r) ==
  /\ stage[r] = "writing"
  /\ UNCHANGED <<plan, carried, known>>
  /\ Stop(r)

Finish(r) ==
  /\ stage[r] = "writing"
  /\ carried[r] = plan[r] /\ known[r] = plan[r]
  /\ Say(r, IF plan[r] = {} THEN "existing" ELSE "ok")
  /\ UNCHANGED <<plan, carried, known>>

\* The handlers of some runs are gone: the process died, or an exception.
Die(rs) ==
  /\ rs # {}
  /\ \A r \in rs : stage[r] \in {"deciding", "writing"}
  /\ stage' = [r \in Runs |-> IF r \in rs THEN "gone" ELSE stage[r]]
  /\ UNCHANGED <<plan, carried, known, answer>>

RunNext ==
  \/ \E r \in Runs :
       \/ Begin(r) \/ Decline(r) \/ Decide(r) \/ GiveUp(r) \/ Finish(r)
       \/ \E i \in Steps : Carry(r, i)
  \/ \E rs \in SUBSET Runs : Die(rs)

RunSpec == RunInit /\ [][RunNext]_runVars

-----------------------------------------------------------------------------
\* What an answer means: "ok" that the plan was carried out to the end,
\* "existing" that there was nothing to do, "partial" that something was done and
\* more was to be, or might have been, and "failed" that nothing is known to have
\* been done, and one step at most was.
AnswerIsTrue(r) ==
  /\ answer[r] = "ok" => carried[r] = plan[r] /\ plan[r] # {}
  /\ answer[r] = "existing" => carried[r] = {}
  /\ answer[r] = "partial" => carried[r] # {}
  /\ answer[r] = "failed" => \A i, j \in carried[r] : i = j

AnswersAreTrue == \A r \in Runs : AnswerIsTrue(r)

\* A run writes what it decided, and is at most one step ahead of what it knows.
RunInv(r) ==
  /\ stage[r] \in {"absent", "deciding"} => plan[r] = {}
  /\ known[r] \subseteq carried[r]
  /\ carried[r] \subseteq plan[r]
  /\ \A i, j \in carried[r] \ known[r] : i = j
  /\ stage[r] \in {"absent", "deciding", "writing"} => answer[r] = "none"
  /\ AnswerIsTrue(r)
=============================================================================
