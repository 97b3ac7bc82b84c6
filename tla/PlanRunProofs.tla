--------------------------- MODULE PlanRunProofs ---------------------------
(***************************************************************************)
(* What the contract of a plan's run is worth: whatever implements PlanRun *)
(* answers truly, for any number of runs and any plans.                    *)
(***************************************************************************)
EXTENDS PlanRun, TLAPS

\* The shape of PlanRun's state.
Shaped ==
  /\ stage = [r \in Runs |-> stage[r]]
  /\ plan = [r \in Runs |-> plan[r]]
  /\ carried = [r \in Runs |-> carried[r]]
  /\ known = [r \in Runs |-> known[r]]
  /\ answer = [r \in Runs |-> answer[r]]

RunIndInv == Shaped /\ \A r \in Runs : RunInv(r)

\* A step that leaves every run but r alone.
Only(r) ==
  \A q \in Runs \ {r} :
    /\ stage'[q] = stage[q] /\ plan'[q] = plan[q] /\ carried'[q] = carried[q]
    /\ known'[q] = known[q] /\ answer'[q] = answer[q]

\* LEMMA: such a step keeps the invariant if it keeps it of r.
LEMMA OneRun ==
  ASSUME RunIndInv, Shaped', NEW r \in Runs, Only(r), RunInv(r)'
  PROVE  RunIndInv'
BY DEF RunIndInv, Only, RunInv, AnswerIsTrue

\* LEMMA: beginning, declining and deciding write nothing.
LEMMA BeforeWriting ==
  ASSUME RunIndInv, NEW r \in Runs, Begin(r) \/ Decline(r) \/ Decide(r)
  PROVE  RunIndInv'
<1> USE DEF Goto, Say
<1>1. Shaped' /\ Only(r)
  BY DEF RunIndInv, Shaped, Only, Begin, Decline, Decide
<1>2. RunInv(r)'
  BY DEF RunIndInv, Shaped, RunInv, AnswerIsTrue, Begin, Decline, Decide
<1> QED
  BY <1>1, <1>2, OneRun

\* LEMMA: a step of the plan is the only one whose outcome may be unknown.
LEMMA Carrying ==
  ASSUME RunIndInv, NEW r \in Runs, NEW i \in Steps, Carry(r, i)
  PROVE  RunIndInv'
<1> USE DEF Goto, Say, Stop
<1>1. Shaped' /\ Only(r)
  BY DEF RunIndInv, Shaped, Only, Carry
<1>2. /\ stage[r] = "writing" /\ answer[r] = "none" /\ known[r] = carried[r]
      /\ plan'[r] = plan[r] /\ carried[r] \subseteq plan[r] /\ i \in plan[r]
      /\ carried'[r] = carried[r] \cup {i}
      /\ known'[r] = carried'[r] \/ known'[r] = carried[r]
      /\ \/ stage'[r] = "writing" /\ answer'[r] = "none"
         \/ /\ stage'[r] = "answered"
            /\ answer'[r] = IF known'[r] = {} THEN "failed" ELSE "partial"
  BY DEF RunIndInv, Shaped, RunInv, Carry
<1>3. RunInv(r)'
  BY <1>2 DEF RunInv, AnswerIsTrue
<1> QED
  BY <1>1, <1>3, OneRun

\* LEMMA: an answer agrees with what is known.
LEMMA Ending ==
  ASSUME RunIndInv, NEW r \in Runs, GiveUp(r) \/ Finish(r)
  PROVE  RunIndInv'
<1> USE DEF Goto, Say, Stop
<1>1. Shaped' /\ Only(r)
  BY DEF RunIndInv, Shaped, Only, GiveUp, Finish
<1>2. RunInv(r)'
  <2>1. CASE GiveUp(r)
    BY <2>1 DEF RunIndInv, Shaped, RunInv, AnswerIsTrue, GiveUp
  <2>2. CASE Finish(r)
    BY <2>2 DEF RunIndInv, Shaped, RunInv, AnswerIsTrue, Finish
  <2> QED BY <2>1, <2>2
<1> QED
  BY <1>1, <1>2, OneRun

\* LEMMA: a run that is gone has no answer.
LEMMA Dying ==
  ASSUME RunIndInv, NEW rs \in SUBSET Runs, Die(rs)
  PROVE  RunIndInv'
BY DEF RunIndInv, Shaped, RunInv, AnswerIsTrue, Die

\* THEOREM: the answer of a run that keeps to the contract is true: "ok" means
\* all of the plan, "partial" some of it, "failed" one step at the most.
THEOREM AnswersOfRuns == RunSpec => []AnswersAreTrue
<1>1. RunInit => RunIndInv
  BY DEF RunInit, RunIndInv, Shaped, RunInv, AnswerIsTrue
<1>2. RunIndInv /\ [RunNext]_runVars => RunIndInv'
  <2>1. RunIndInv /\ UNCHANGED runVars => RunIndInv'
    BY DEF RunIndInv, Shaped, RunInv, AnswerIsTrue, runVars
  <2> QED
    BY <2>1, BeforeWriting, Carrying, Ending, Dying DEF RunNext
<1>3. RunIndInv => AnswersAreTrue
  BY DEF RunIndInv, RunInv, AnswersAreTrue
<1> QED
  BY <1>1, <1>2, <1>3, PTL DEF RunSpec
=============================================================================
