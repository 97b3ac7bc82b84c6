--------------------------- MODULE CrmPlanProofs ---------------------------
(***************************************************************************)
(* Proofs about CrmPlan for any number of plans, any names, any requests   *)
(* and anything HubSpot may hold.                                          *)
(***************************************************************************)
EXTENDS CrmPlan, TLAPS

\* What the invariant says of one plan.
PlanGood(p) == PlanInv(p) /\ FreshInv(p) /\ TrueFor(p) /\ HarmlessFor(p)

\* A step of plan p leaves the others alone and adds nothing that is not p's.
OnlyMoves(p) ==
  /\ request' = request
  /\ \A q \in Plans \ {p} :
       /\ phase'[q] = phase[q] /\ todo'[q] = todo[q] /\ rec'[q] = rec[q]
       /\ make'[q] = make[q] /\ reused'[q] = reused[q] /\ written'[q] = written[q]
       /\ reply'[q] = reply[q] /\ before'[q] = before[q]
  /\ before'[p] = before[p] \/ phase[p] = "idle"
  /\ associations \subseteq associations'
  /\ \A r \in records' \ records : \E e \in make[p] : r = New(p, e)
  /\ \A a \in associations' \ associations :
       /\ a.by = p
       /\ a.link \in RequestedLinks(request[p])
       /\ {r.entity : r \in a.ends} = Ends[a.link]

LEMMA LinkNames ==
  /\ Links = {"contact_company", "deal_company", "deal_contact"}
  /\ \A l \in Links : Ends[l] \subseteq Entities
BY DEF Links, Ends, Entities

\* The parts of a request are entities and links.
LEMMA RequestParts ==
  ASSUME NEW x \in Request
  PROVE  /\ Creates(x) \subseteq Present(x)
         /\ Present(x) \subseteq Entities
         /\ RequestedLinks(x) \subseteq Links
<1>1. Creates(x) \subseteq Present(x) /\ Present(x) \subseteq Entities
  BY DEF Creates, Present
<1>2. ImpliedLinks(x) \subseteq Links
  BY LinkNames DEF ImpliedLinks
<1>3. x.associations \subseteq Links
  BY DEF Request
<1> QED
  BY <1>1, <1>2, <1>3 DEF RequestedLinks

\* A request that is not refused names every record it speaks of.
LEMMA Named ==
  ASSUME NEW x \in Request, ~InputError(x), NEW e \in Present(x),
         (x.contact_by \in {"nothing", "detail"}) <=> (x.name["contact"] = NoOne),
         e = "contact" => x.contact_by # "detail" /\ x.contact_by # "nothing"
  PROVE  x.name[e] \in Names
<1>1. e \in Entities /\ x.name[e] \in Names \cup {NoOne}
  BY RequestParts DEF Request
<1>2. CASE e = "contact"
  BY <1>1, <1>2
<1>3. CASE e # "contact"
  BY <1>1, <1>3 DEF InputError, Unnamed, Entities
<1> QED
  BY <1>2, <1>3

\* A missing record is not a record, and means nothing.
LEMMA NoRecordIsNone ==
  /\ NoRecord \notin Record
  /\ \A p, e : e \in Entities => ~Means(p, e, NoRecord)
<1>1. NoRecord.entity = NoOne
  BY DEF NoRecord
<1> QED
  BY <1>1, PlanAssumption DEF Record, Means

\* The requests of the plans, as the assumption has them.
LEMMA Requests ==
  ASSUME request \in Mixes, NEW p \in Plans
  PROVE  /\ request[p] \in Request
         /\ (request[p].contact_by \in {"nothing", "detail"}) <=>
              (request[p].name["contact"] = NoOne)
BY PlanAssumption

\* What a plan creates is a record.
LEMMA NewIsRecord ==
  ASSUME request \in Mixes, NEW p \in Plans, ~InputError(request[p]),
         NEW e \in Creates(request[p])
  PROVE  /\ New(p, e) \in Record
         /\ New(p, e).entity = e
         /\ New(p, e).by = p
         /\ New(p, e).name = request[p].name[e]
         /\ Means(p, e, New(p, e))
<1> DEFINE x == request[p]
<1>1. x \in Request /\ e \in Present(x) /\ e \in Entities
  BY Requests, RequestParts
<1>2. e = "contact" => x.contact_by \in {"name", "email"}
  BY DEF InputError, Unnamed
<1>3. x.name[e] \in Names
  BY <1>1, <1>2, Requests, Named
<1>4. New(p, e).mail \in BOOLEAN
  BY DEF New
<1> QED
  BY <1>1, <1>3, <1>4 DEF New, Record, Means

\* What a search finds are records the user meant.
LEMMA CandidatesAreMeant ==
  ASSUME request \in Mixes, records \subseteq Record, NEW p \in Plans,
         ~InputError(request[p]), NEW e \in Present(request[p]),
         NEW r \in Candidates(p, e)
  PROVE  r \in Record /\ Means(p, e, r)
<1> DEFINE x == request[p]
           n == x.name[e]
<1>1. x \in Request /\ e \in Entities
  BY Requests, RequestParts
<1>2. CASE e = "contact" /\ x.contact_by = "email"
  BY <1>2 DEF Candidates, WithEmail, Means
<1>3. CASE e = "contact" /\ x.contact_by = "id"
  <2>1. r = [entity |-> "contact", name |-> n, mail |-> FALSE, by |-> NoOne]
    BY <1>3 DEF Candidates, WithId
  <2>2. n \in Names
    BY <1>1, <1>3, Requests, Named
  <2> QED
    <3>1. r \in Record
      BY <2>1, <2>2, <1>1 DEF Record, Entities
    <3>2. r.entity = e /\ r.name = n
      BY <2>1, <1>3
    <3> QED
      BY <3>1, <3>2 DEF Means
<1>4. CASE ~(e = "contact" /\ x.contact_by \in {"email", "id"})
  BY <1>4 DEF Candidates, Matching, Means
<1> QED
  BY <1>2, <1>3, <1>4

-----------------------------------------------------------------------------
\* A plan that does not move keeps its part of the invariant.
LEMMA OthersStayGood ==
  ASSUME IndInv, NEW p \in Plans, phase[p] # "done", OnlyMoves(p), phase'[p] # "idle",
         NEW q \in Plans \ {p}
  PROVE  PlanGood(q)'
<1> DEFINE x == request[q]
<1>1. /\ request' = request /\ phase'[q] = phase[q] /\ todo'[q] = todo[q]
      /\ rec'[q] = rec[q] /\ make'[q] = make[q] /\ reused'[q] = reused[q]
      /\ written'[q] = written[q] /\ reply'[q] = reply[q] /\ before'[q] = before[q]
  BY DEF OnlyMoves
<1>2. \A r \in records' \ records : r.by = p
  BY DEF OnlyMoves, New
<1>3. /\ associations \subseteq associations'
      /\ \A a \in associations' \ associations : a.by = p
  BY DEF OnlyMoves
<1>4. PlanInv(q) /\ FreshInv(q) /\ TrueFor(q) /\ HarmlessFor(q)
  BY DEF IndInv, OkMeansDone, RefusalWritesNothing
<1>5. \A e, r : Means(q, e, rec[q][e])' <=> Means(q, e, rec[q][e])
  BY <1>1 DEF Means
<1>6. \A l : Joined(q, l)' = Joined(q, l)
  BY <1>1 DEF Joined
<1>7. \A e : New(q, e)' = New(q, e)
  BY <1>1 DEF New
<1>8. BeforeInv(q)'
  <2>1. before[q] \subseteq Plans
    BY DEF IndInv, TypeOK
  <2>2. q \notin before[q] /\ \A t \in before[q] : phase[t] = "done"
    BY <1>4 DEF PlanInv, BeforeInv
  <2>3. \A t \in before[q] : phase'[t] = "done"
    BY <2>1, <2>2 DEF OnlyMoves
  <2> QED
    BY <1>1, <2>2, <2>3 DEF BeforeInv
<1>9. KnownInv(q)'
  BY <1>1, <1>2, <1>3, <1>4 DEF PlanInv, KnownInv
<1>10. FindingInv(q)'
  BY <1>1, <1>4, <1>5 DEF PlanInv, FindingInv
<1>11. MakingInv(q)'
  BY <1>1, <1>4, <1>5 DEF PlanInv, MakingInv
<1>12. LinkingInv(q)'
  <2> SUFFICES ASSUME phase[q] = "linking" PROVE LinkingInv(q)'
    BY <1>1 DEF LinkingInv
  <2>1. LinkingInv(q)
    BY <1>4 DEF PlanInv
  <2>2. /\ todo[q] \subseteq RequestedLinks(x)
        /\ \A e \in Present(x) : Means(q, e, rec[q][e])
        /\ make[q] \subseteq written[q]
    BY <2>1 DEF LinkingInv
  <2>3. \A l \in RequestedLinks(x) \ todo[q] :
          /\ l \in written[q]
          /\ \E a \in associations' : a.link = l /\ a.ends = Joined(q, l)
    BY <2>1, <1>3 DEF LinkingInv
  <2> QED
    BY <1>1, <1>5, <1>6, <2>2, <2>3 DEF LinkingInv
<1>13. PlanInv(q)'
  BY <1>1, <1>4, <1>8, <1>9, <1>10, <1>11, <1>12 DEF PlanInv
<1>14. FreshInv(q)'
  <2> SUFFICES ASSUME phase[q] # "done", NEW e \in make[q], NEW r \in records',
                      SameKey(r, New(q, e))
               PROVE  r.by \notin before[q]
    BY <1>1, <1>7 DEF FreshInv
  <2>1. CASE r \in records
    BY <2>1, <1>4 DEF FreshInv
  <2>2. CASE r \notin records
    BY <2>2, <1>2, <1>4 DEF PlanInv, BeforeInv
  <2> QED
    BY <2>1, <2>2
<1>15. TrueFor(q)'
  BY <1>1, <1>3, <1>4, <1>5, <1>6 DEF TrueFor
<1>16. HarmlessFor(q)'
  BY <1>1, <1>2, <1>3, <1>4 DEF HarmlessFor
<1> QED
  BY <1>13, <1>14, <1>15, <1>16 DEF PlanGood

\* So a step of plan p keeps the invariant if p's part holds after it.
LEMMA StepIsLocal ==
  ASSUME IndInv, NEW p \in Plans, phase[p] # "done", OnlyMoves(p), phase'[p] # "idle",
         TypeOK', PlanGood(p)'
  PROVE  IndInv'
<1>1. \A q \in Plans : PlanGood(q)'
  BY OthersStayGood
<1>2. request' = request /\ request \in Mixes
  BY DEF OnlyMoves, IndInv
<1>3. WritesAreAsked'
  <2>1. \A r \in records' : r.by # NoOne => r.entity \in Creates(request[r.by])
    BY DEF IndInv, WritesAreAsked, OnlyMoves, New, PlanInv
  <2>2. \A a \in associations' :
          /\ a.link \in RequestedLinks(request[a.by])
          /\ {r.entity : r \in a.ends} = Ends[a.link]
    BY DEF IndInv, WritesAreAsked, OnlyMoves
  <2> QED
    BY <1>2, <2>1, <2>2 DEF WritesAreAsked
<1>4. NoSecondCopy'
  <2> SUFFICES ASSUME NEW r \in records', NEW s \in records',
                      r.by # NoOne, s.by # NoOne, SameKey(r, s)
               PROVE  r.by \notin before'[s.by]
    BY DEF NoSecondCopy
  <2>1. \A t \in records : t.by # NoOne => t.by \in Plans /\ phase[t.by] # "idle"
    BY DEF IndInv, TypeOK, Record, PlanInv, KnownInv
  <2>2. \A q \in Plans : phase[q] # "idle" => before'[q] = before[q]
    BY DEF OnlyMoves
  <2>3. \A t \in records' \ records : t.by = p /\ phase[p] # "idle"
    BY DEF OnlyMoves, New, IndInv, PlanInv
  <2>4. CASE r \in records /\ s \in records
    BY <2>1, <2>2, <2>4 DEF IndInv, NoSecondCopy
  <2>5. CASE r \notin records
    <3>1. r.by = p /\ phase[p] # "idle"
      BY <2>3, <2>5
    <3>2. s.by \in Plans /\ before'[s.by] = before[s.by]
      BY <2>1, <2>2, <2>3
    <3> QED
      BY <3>1, <3>2 DEF IndInv, PlanInv, BeforeInv
  <2>6. CASE r \in records /\ s \notin records
    <3>1. PICK e \in make[p] : s = New(p, e)
      BY <2>6 DEF OnlyMoves
    <3>2. s.by = p /\ before'[p] = before[p]
      BY <2>2, <2>3, <2>6
    <3> QED
      BY <2>6, <3>1, <3>2 DEF IndInv, FreshInv
  <2> QED
    BY <2>4, <2>5, <2>6
<1> QED
  BY <1>1, <1>2, <1>3, <1>4 DEF IndInv, PlanGood, OkMeansDone, RefusalWritesNothing

-----------------------------------------------------------------------------
\* The plans a plan came after stay as they are while it works.
LEMMA BeforeKept ==
  ASSUME IndInv, NEW p \in Plans, phase[p] # "done", OnlyMoves(p), before'[p] = before[p]
  PROVE  BeforeInv(p)'
<1>1. before[p] \subseteq Plans
  BY DEF IndInv, TypeOK
<1>2. p \notin before[p] /\ \A t \in before[p] : phase[t] = "done"
  BY DEF IndInv, PlanInv, BeforeInv
<1>3. \A t \in before[p] : phase'[t] = "done"
  BY <1>1, <1>2 DEF OnlyMoves
<1> QED
  BY <1>2, <1>3 DEF BeforeInv

\* An answer to the user other than success keeps the invariant, if it is given
\* by a plan that wrote nothing whenever it says so.
LEMMA EndIsGood ==
  ASSUME IndInv, NEW p \in Plans, phase[p] # "done", OnlyMoves(p), phase'[p] = "done",
         make'[p] = make[p], BeforeInv(p)', reply'[p] \notin {"ok", "existing"},
         reply'[p] \in {"refused", "duplicate", "proposed"} =>
           written[p] = {} /\ records' = records /\ associations' = associations
  PROVE  PlanGood(p)'
<1>1. PlanInv(p)'
  BY DEF IndInv, PlanInv, KnownInv, FindingInv, MakingInv, LinkingInv, OnlyMoves
<1>2. FreshInv(p)'
  BY DEF FreshInv
<1>3. TrueFor(p)'
  BY DEF TrueFor
<1>4. HarmlessFor(p)'
  BY DEF HarmlessFor, IndInv, PlanInv, KnownInv
<1> QED
  BY <1>1, <1>2, <1>3, <1>4 DEF PlanGood

\* A plan that is asked for starts with clean hands.
LEMMA AskedStep ==
  ASSUME IndInv, NEW p \in Plans, Asked(p), TypeOK',
         \A q \in Plans \ {p} :
           phase'[q] = phase[q] /\ todo'[q] = todo[q] /\ reply'[q] = reply[q]
  PROVE  /\ OnlyMoves(p) /\ BeforeInv(p)' /\ written[p] = {} /\ phase[p] # "done"
         /\ records' = records /\ associations' = associations /\ make'[p] = make[p]
<1>1. OnlyMoves(p)
  BY DEF OnlyMoves, Asked, planVars, IndInv, TypeOK
<1>2. before'[p] = {q \in Plans : phase[q] = "done"}
  BY DEF Asked, IndInv, TypeOK
<1>3. p \notin before'[p] /\ \A q \in before'[p] : phase'[q] = "done"
  BY <1>2 DEF Asked
<1>4. written[p] = {}
  BY DEF Asked, IndInv, PlanInv
<1> QED
  BY <1>1, <1>3, <1>4 DEF BeforeInv, Asked, planVars

LEMMA EndChanges ==
  ASSUME TypeOK, NEW p \in Plans, NEW r \in Replies, EndWith(p, r)
  PROVE  /\ phase' \in [Plans -> {"idle", "finding", "making", "linking", "done"}]
         /\ todo' \in [Plans -> SUBSET (Entities \cup Links)]
         /\ reply' \in [Plans -> Replies \cup {NoOne}]
         /\ phase'[p] = "done" /\ reply'[p] = r
         /\ \A q \in Plans \ {p} :
              phase'[q] = phase[q] /\ todo'[q] = todo[q] /\ reply'[q] = reply[q]
BY DEF TypeOK, EndWith

LEMMA ProposeStep ==
  ASSUME IndInv, NEW p \in Plans, Propose(p) \/ Refuse(p)
  PROVE  IndInv'
<1>1. PICK r \in {"proposed", "refused"} : EndWith(p, r)
  BY DEF Propose, Refuse
<1>2. Asked(p)
  BY DEF Propose, Refuse
<1>3. /\ phase'[p] = "done" /\ reply'[p] = r
      /\ \A q \in Plans \ {p} :
           phase'[q] = phase[q] /\ todo'[q] = todo[q] /\ reply'[q] = reply[q]
  BY <1>1, EndChanges DEF IndInv, Replies
<1>4. TypeOK'
  BY <1>1, <1>2, EndChanges DEF IndInv, TypeOK, Asked, planVars, Replies
<1>5. PlanGood(p)' /\ OnlyMoves(p) /\ phase[p] # "done"
  BY <1>2, <1>3, <1>4, AskedStep, EndIsGood
<1> QED
  BY <1>3, <1>4, <1>5, StepIsLocal

LEMMA StartStep ==
  ASSUME IndInv, NEW p \in Plans, Start(p)
  PROVE  IndInv'
<1> DEFINE x == request[p]
<1>1. Present(x) \subseteq Entities /\ Creates(x) \subseteq Present(x)
  BY Requests, RequestParts DEF IndInv
<1>2. TypeOK'
  BY <1>1 DEF IndInv, TypeOK, Start, Asked, planVars
<1>3. /\ phase'[p] = "finding" /\ todo'[p] = Present(x) /\ reply' = reply
      /\ \A q \in Plans \ {p} :
           phase'[q] = phase[q] /\ todo'[q] = todo[q] /\ reply'[q] = reply[q]
  BY DEF Start, IndInv, TypeOK
<1>4. /\ OnlyMoves(p) /\ BeforeInv(p)' /\ written[p] = {} /\ phase[p] = "idle"
      /\ records' = records /\ associations' = associations
      /\ request' = request /\ make' = make /\ written' = written /\ rec' = rec
      /\ reused' = reused
  BY <1>2, <1>3, AskedStep DEF Start, Asked, planVars
<1>5. make[p] = {}
  BY <1>4 DEF IndInv, PlanInv
<1>6. KnownInv(p)'
  BY <1>3, <1>4 DEF IndInv, PlanInv, KnownInv
<1>7. FindingInv(p)'
  BY <1>1, <1>3, <1>4 DEF FindingInv
<1>8. PlanInv(p)'
  BY <1>3, <1>4, <1>5, <1>6, <1>7 DEF Start, PlanInv, MakingInv, LinkingInv
<1>9. reply[p] = NoOne /\ reply[p] \notin {"ok", "existing"}
      /\ reply[p] \notin {"refused", "duplicate", "proposed"}
  BY <1>4, PlanAssumption DEF IndInv, PlanInv, KnownInv, Replies
<1>10. FreshInv(p)' /\ TrueFor(p)' /\ HarmlessFor(p)'
  BY <1>3, <1>4, <1>5, <1>9 DEF FreshInv, TrueFor, HarmlessFor
<1> QED
  BY <1>2, <1>3, <1>4, <1>8, <1>10, StepIsLocal DEF PlanGood

-----------------------------------------------------------------------------
(* Finding. *)

LEMMA UseExistingStep ==
  ASSUME IndInv, NEW p \in Plans, NEW e \in Entities, UseExisting(p, e)
  PROVE  IndInv'
<1> DEFINE x == request[p]
<1>1. /\ phase[p] = "finding" /\ e \in todo[p] /\ todo[p] \subseteq Present(x)
      /\ ~InputError(x) /\ written[p] = {}
  BY DEF UseExisting, Finding, IsNext, IndInv, PlanInv, FindingInv
<1>2. PICK r \in Candidates(p, e) : rec' = [rec EXCEPT ![p][e] = r]
  BY DEF UseExisting, Take
<1>3. r \in Record /\ Means(p, e, r)
  BY <1>1, CandidatesAreMeant DEF IndInv, TypeOK
<1>4. TypeOK'
  BY <1>2, <1>3 DEF UseExisting, Done, IndInv, TypeOK
<1>5. /\ rec'[p][e] = r /\ \A f \in Entities \ {e} : rec'[p][f] = rec[p][f]
      /\ todo'[p] = todo[p] \ {e}
      /\ e \in Creates(x) => e \in reused'[p]
      /\ reused[p] \subseteq reused'[p]
  BY <1>2 DEF UseExisting, Done, IndInv, TypeOK
<1>6. OnlyMoves(p)
  BY <1>2 DEF OnlyMoves, UseExisting, Done, IndInv, TypeOK
<1>7. /\ request' = request /\ phase' = phase /\ make' = make /\ written' = written
      /\ before' = before /\ reply' = reply /\ records' = records
      /\ associations' = associations
  BY DEF UseExisting
<1>8. FindingInv(p)'
  <2>1. todo'[p] \subseteq Present(x)
    BY <1>1, <1>5
  <2>2. ASSUME NEW f \in Present(x) \ todo'[p]
        PROVE  f \in make[p] \/ Means(p, f, rec'[p][f])
    <3>1. CASE f = e
      BY <3>1, <1>3, <1>5
    <3>2. CASE f # e
      <4>1. f \in Entities
        BY Requests, RequestParts DEF IndInv
      <4> QED
        BY <3>2, <4>1, <1>1, <1>5 DEF IndInv, PlanInv, FindingInv
    <3> QED
      BY <3>1, <3>2
  <2>3. Creates(x) \subseteq todo'[p] \cup make[p] \cup reused'[p]
    BY <1>1, <1>5 DEF IndInv, PlanInv, FindingInv
  <2> QED
    BY <1>7, <2>1, <2>2, <2>3 DEF FindingInv, Means
<1>9. KnownInv(p)' /\ BeforeInv(p)'
  BY <1>1, <1>6, <1>7, BeforeKept DEF IndInv, PlanInv, KnownInv
<1>10. PlanInv(p)'
  BY <1>1, <1>7, <1>8, <1>9 DEF IndInv, PlanInv, MakingInv, LinkingInv
<1>11. reply[p] = NoOne
  BY <1>1 DEF IndInv, PlanInv, KnownInv
<1>12. FreshInv(p)' /\ TrueFor(p)' /\ HarmlessFor(p)'
  BY <1>1, <1>7, <1>11, PlanAssumption
     DEF IndInv, FreshInv, TrueFor, HarmlessFor, New, Replies
<1> QED
  BY <1>1, <1>4, <1>6, <1>7, <1>10, <1>12, StepIsLocal DEF PlanGood

LEMMA PlanCreateStep ==
  ASSUME IndInv, NEW p \in Plans, NEW e \in Entities, PlanCreate(p, e)
  PROVE  IndInv'
<1> DEFINE x == request[p]
<1>1. /\ phase[p] = "finding" /\ e \in todo[p] /\ todo[p] \subseteq Present(x)
      /\ ~InputError(x) /\ written[p] = {} /\ e \in Creates(x) /\ Candidates(p, e) = {}
  BY DEF PlanCreate, MayCreate, Finding, IsNext, IndInv, PlanInv, FindingInv
<1>2. TypeOK'
  BY DEF PlanCreate, Done, IndInv, TypeOK
<1>3. make'[p] = make[p] \cup {e} /\ todo'[p] = todo[p] \ {e}
  BY DEF PlanCreate, Done, IndInv, TypeOK
<1>4. OnlyMoves(p)
  BY DEF OnlyMoves, PlanCreate, Done, IndInv, TypeOK
<1>5. /\ request' = request /\ phase' = phase /\ rec' = rec /\ written' = written
      /\ reused' = reused /\ before' = before /\ reply' = reply /\ records' = records
      /\ associations' = associations
  BY DEF PlanCreate
<1>6. FindingInv(p)'
  BY <1>1, <1>3, <1>5 DEF IndInv, PlanInv, FindingInv, Means
<1>7. KnownInv(p)' /\ BeforeInv(p)'
  BY <1>1, <1>4, <1>5, BeforeKept DEF IndInv, PlanInv, KnownInv
<1>8. PlanInv(p)'
  BY <1>1, <1>3, <1>5, <1>6, <1>7 DEF IndInv, PlanInv, MakingInv, LinkingInv
<1>9. \A r \in records : ~SameKey(r, New(p, e))
  <2>1. New(p, e).entity = e /\ New(p, e).name = x.name[e]
    BY DEF New
  <2>2. CASE e # "contact"
    BY <1>1, <2>1, <2>2 DEF SameKey, Candidates, Searched, Matching
  <2>3. CASE e = "contact" /\ x.contact_by = "email"
    BY <1>1, <2>1, <2>3 DEF SameKey, Candidates, WithEmail
  <2>4. CASE e = "contact" /\ x.contact_by # "email"
    <3>1. ~New(p, e).mail
      BY <2>4 DEF New
    <3> QED
      BY <2>1, <2>4, <3>1 DEF SameKey
  <2> QED
    BY <2>2, <2>3, <2>4
<1>10. FreshInv(p)'
  BY <1>1, <1>3, <1>5, <1>9 DEF IndInv, FreshInv, New
<1>11. reply[p] = NoOne
  BY <1>1 DEF IndInv, PlanInv, KnownInv
<1>12. TrueFor(p)' /\ HarmlessFor(p)'
  BY <1>5, <1>11, PlanAssumption DEF TrueFor, HarmlessFor, Replies
<1> QED
  BY <1>1, <1>2, <1>4, <1>5, <1>8, <1>10, <1>12, StepIsLocal DEF PlanGood

\* The plan ends before it has written anything.
LEMMA FindEndsStep ==
  ASSUME IndInv, NEW p \in Plans, NEW e \in Entities,
         RefuseRecord(p, e) \/ DuplicateDeal(p) \/ SearchFails(p, e)
  PROVE  IndInv'
<1>1. PICK r \in {"refused", "duplicate", "failed"} : EndWith(p, r)
  BY DEF RefuseRecord, DuplicateDeal, SearchFails
<1>2. /\ phase[p] = "finding"
      /\ UNCHANGED <<request, records, associations, planVars, before>>
  BY DEF RefuseRecord, DuplicateDeal, SearchFails, Finding
<1>3. /\ phase'[p] = "done" /\ reply'[p] = r
      /\ \A q \in Plans \ {p} :
           phase'[q] = phase[q] /\ todo'[q] = todo[q] /\ reply'[q] = reply[q]
  BY <1>1, EndChanges DEF IndInv, Replies
<1>4. TypeOK'
  BY <1>1, <1>2, EndChanges DEF IndInv, TypeOK, planVars, Replies
<1>5. OnlyMoves(p)
  BY <1>2, <1>3 DEF OnlyMoves, planVars
<1>6. written[p] = {}
  BY <1>2 DEF IndInv, PlanInv
<1>7. PlanGood(p)'
  BY <1>2, <1>3, <1>5, <1>6, BeforeKept, EndIsGood DEF planVars
<1> QED
  BY <1>2, <1>3, <1>4, <1>5, <1>7, StepIsLocal

LEMMA FoundAllStep ==
  ASSUME IndInv, NEW p \in Plans, FoundAll(p)
  PROVE  IndInv'
<1> DEFINE x == request[p]
<1>1. /\ phase[p] = "finding" /\ todo[p] = {} /\ ~InputError(x) /\ written[p] = {}
      /\ reply[p] = NoOne
  BY DEF FoundAll, IndInv, PlanInv, KnownInv
<1>2. /\ TypeOK' /\ OnlyMoves(p)
      /\ phase'[p] = "making" /\ todo'[p] = make[p]
  BY DEF FoundAll, planVars, OnlyMoves, IndInv, TypeOK
<1>3. /\ request' = request /\ rec' = rec /\ written' = written /\ make' = make
      /\ reused' = reused /\ before' = before /\ reply' = reply /\ records' = records
      /\ associations' = associations
  BY DEF FoundAll, planVars
<1>4. MakingInv(p)' /\ Creates(x) \subseteq make[p] \cup reused[p]
  BY <1>1, <1>2, <1>3 DEF IndInv, PlanInv, FindingInv, MakingInv, Means
<1>5. KnownInv(p)' /\ BeforeInv(p)'
  BY <1>1, <1>2, <1>3, BeforeKept DEF IndInv, PlanInv, KnownInv
<1>6. PlanInv(p)'
  BY <1>1, <1>2, <1>3, <1>4, <1>5 DEF IndInv, PlanInv, FindingInv, LinkingInv
<1>7. FreshInv(p)' /\ TrueFor(p)' /\ HarmlessFor(p)'
  BY <1>1, <1>2, <1>3, PlanAssumption
     DEF IndInv, FreshInv, TrueFor, HarmlessFor, New, Replies
<1> QED
  BY <1>1, <1>2, <1>6, <1>7, StepIsLocal DEF PlanGood

-----------------------------------------------------------------------------
(* Making. *)

LEMMA MakingFacts ==
  ASSUME IndInv, NEW p \in Plans, NEW e \in Entities, Making(p, e)
  PROVE  /\ phase[p] = "making" /\ e \in todo[p] /\ e \in make[p] /\ reply[p] = NoOne
         /\ make[p] \subseteq Creates(request[p]) /\ ~InputError(request[p])
         /\ New(p, e) \in Record /\ New(p, e).entity = e /\ New(p, e).by = p
         /\ Means(p, e, New(p, e))
<1>1. /\ phase[p] = "making" /\ e \in todo[p] /\ e \in make[p] /\ reply[p] = NoOne
      /\ make[p] \subseteq Creates(request[p]) /\ ~InputError(request[p])
  BY DEF Making, IsNext, IndInv, PlanInv, MakingInv, KnownInv
<1> QED
  BY <1>1, NewIsRecord DEF IndInv

LEMMA EmailUnusedStep ==
  ASSUME IndInv, NEW p \in Plans, NEW e \in Entities, EmailUnused(p, e)
  PROVE  IndInv'
<1>1. phase[p] = "making" /\ reply[p] = NoOne
  BY MakingFacts DEF EmailUnused
<1>2. /\ request' = request /\ phase' = phase /\ rec' = rec /\ written' = written
      /\ make' = make /\ reused' = reused /\ before' = before /\ reply' = reply
      /\ records' = records /\ associations' = associations /\ todo' = todo
  BY DEF EmailUnused
<1>3. TypeOK'
  BY DEF EmailUnused, IndInv, TypeOK
<1>4. OnlyMoves(p)
  BY <1>2 DEF OnlyMoves
<1>5. KnownInv(p)' /\ BeforeInv(p)'
  BY <1>1, <1>2, <1>4, BeforeKept DEF IndInv, PlanInv, KnownInv
<1>6. MakingInv(p)'
  BY <1>1, <1>2 DEF IndInv, PlanInv, MakingInv, Means
<1>7. PlanInv(p)'
  BY <1>1, <1>2, <1>5, <1>6 DEF IndInv, PlanInv, FindingInv, LinkingInv
<1>8. FreshInv(p)' /\ TrueFor(p)' /\ HarmlessFor(p)'
  BY <1>1, <1>2, PlanAssumption DEF IndInv, FreshInv, TrueFor, HarmlessFor, New, Replies
<1> QED
  BY <1>1, <1>2, <1>3, <1>4, <1>7, <1>8, StepIsLocal DEF PlanGood

\* The plan ends while it creates: an email address is taken, a URL lookup or a
\* create fails.
LEMMA MakeEndsStep ==
  ASSUME IndInv, NEW p \in Plans, NEW e \in Entities,
         EmailTaken(p, e) \/ CreateFails(p, e)
  PROVE  IndInv'
<1>1. /\ Making(p, e)
      /\ UNCHANGED <<request, associations, planVars, before>>
      /\ records' = records \/ records' = records \cup {New(p, e)}
  BY DEF EmailTaken, CreateFails
<1>2. PICK r \in {"duplicate", "failed", "partial"} :
        /\ EndWith(p, r)
        /\ r = "duplicate" => written[p] = {} /\ records' = records
  BY DEF EmailTaken, CreateFails, Outcome
<1>3. /\ phase[p] = "making" /\ e \in make[p] /\ New(p, e) \in Record
  BY <1>1, MakingFacts
<1>4. /\ phase'[p] = "done" /\ reply'[p] = r
      /\ \A q \in Plans \ {p} :
           phase'[q] = phase[q] /\ todo'[q] = todo[q] /\ reply'[q] = reply[q]
  BY <1>2, EndChanges DEF IndInv, Replies
<1>5. TypeOK'
  BY <1>1, <1>2, <1>3, EndChanges DEF IndInv, TypeOK, planVars, Replies
<1>6. OnlyMoves(p)
  BY <1>1, <1>3, <1>4 DEF OnlyMoves, planVars
<1>7. PlanGood(p)'
  BY <1>1, <1>2, <1>3, <1>4, <1>6, BeforeKept, EndIsGood DEF planVars
<1> QED
  BY <1>3, <1>4, <1>5, <1>6, <1>7, StepIsLocal

LEMMA CreateStep ==
  ASSUME IndInv, NEW p \in Plans, NEW e \in Entities, Create(p, e)
  PROVE  IndInv'
<1> DEFINE x == request[p]
           r == New(p, e)
<1>1. /\ phase[p] = "making" /\ e \in todo[p] /\ e \in make[p] /\ reply[p] = NoOne
      /\ make[p] \subseteq Creates(x) /\ ~InputError(x)
      /\ r \in Record /\ r.entity = e /\ r.by = p /\ Means(p, e, r)
  BY MakingFacts DEF Create
<1>2. /\ records' = records \cup {r}
      /\ rec' = [rec EXCEPT ![p][e] = r]
      /\ written' = [written EXCEPT ![p] = @ \cup {e}]
      /\ UNCHANGED <<request, associations, make, reused, checked, before>>
  BY DEF Create
<1>3. /\ rec'[p][e] = r /\ \A f \in Entities \ {e} : rec'[p][f] = rec[p][f]
      /\ written'[p] = written[p] \cup {e}
      /\ \A q \in Plans \ {p} : rec'[q] = rec[q] /\ written'[q] = written[q]
  BY <1>2 DEF IndInv, TypeOK
<1>4. CASE EndWith(p, "partial")
  <2>1. /\ phase'[p] = "done" /\ reply'[p] = "partial"
        /\ \A q \in Plans \ {p} :
             phase'[q] = phase[q] /\ todo'[q] = todo[q] /\ reply'[q] = reply[q]
    BY <1>4, EndChanges DEF IndInv, Replies
  <2>2. TypeOK'
    BY <1>1, <1>2, <1>4, EndChanges DEF IndInv, TypeOK, Replies
  <2>3. OnlyMoves(p)
    BY <1>1, <1>2, <1>3, <2>1 DEF OnlyMoves
  <2>4. PlanGood(p)'
    BY <1>1, <1>2, <2>1, <2>3, BeforeKept, EndIsGood
  <2> QED
    BY <1>1, <2>1, <2>2, <2>3, <2>4, StepIsLocal
<1>5. CASE Done(p, e) /\ UNCHANGED <<phase, reply>>
  <2>1. /\ todo'[p] = todo[p] \ {e} /\ phase' = phase /\ reply' = reply
        /\ \A q \in Plans \ {p} : todo'[q] = todo[q]
    BY <1>5 DEF Done, IndInv, TypeOK
  <2>2. TypeOK'
    BY <1>1, <1>2, <1>5 DEF Done, IndInv, TypeOK
  <2>3. OnlyMoves(p)
    BY <1>1, <1>2, <1>3, <2>1 DEF OnlyMoves
  <2>4. MakingInv(p)'
    <3>1. ASSUME NEW f \in Present(x) \ todo'[p] PROVE Means(p, f, rec'[p][f])
      <4>1. f \in Entities
        BY Requests, RequestParts DEF IndInv
      <4>2. f # e => Means(p, f, rec[p][f])
        BY <1>1, <2>1 DEF IndInv, PlanInv, MakingInv
      <4> QED
        BY <1>1, <1>3, <4>1, <4>2
    <3>2. todo'[p] \subseteq make[p] /\ make[p] \subseteq todo'[p] \cup written'[p]
      BY <1>1, <1>3, <2>1 DEF IndInv, PlanInv, MakingInv
    <3> QED
      BY <1>2, <3>1, <3>2 DEF MakingInv, Means
  <2>5. KnownInv(p)' /\ BeforeInv(p)'
    BY <1>1, <1>2, <1>3, <2>1, <2>3, BeforeKept DEF IndInv, PlanInv, KnownInv
  <2>6. PlanInv(p)'
    BY <1>1, <1>2, <2>1, <2>4, <2>5 DEF IndInv, PlanInv, FindingInv, LinkingInv
  <2>7. FreshInv(p)'
    BY <1>1, <1>2, <2>1 DEF IndInv, FreshInv, PlanInv, BeforeInv, New
  <2>8. TrueFor(p)' /\ HarmlessFor(p)'
    BY <1>1, <2>1, PlanAssumption DEF TrueFor, HarmlessFor, Replies
  <2> QED
    BY <1>1, <2>1, <2>2, <2>3, <2>6, <2>7, <2>8, StepIsLocal DEF PlanGood
<1> QED
  BY <1>4, <1>5 DEF Create

LEMMA MadeAllStep ==
  ASSUME IndInv, NEW p \in Plans, MadeAll(p)
  PROVE  IndInv'
<1> DEFINE x == request[p]
<1>1. /\ phase[p] = "making" /\ todo[p] = {} /\ ~InputError(x) /\ reply[p] = NoOne
  BY DEF MadeAll, IndInv, PlanInv, KnownInv
<1>2. RequestedLinks(x) \subseteq Links
  BY Requests, RequestParts DEF IndInv
<1>3. TypeOK'
  BY <1>2 DEF MadeAll, planVars, IndInv, TypeOK
<1>4. OnlyMoves(p) /\ phase'[p] = "linking" /\ todo'[p] = RequestedLinks(x)
  BY DEF MadeAll, planVars, OnlyMoves, IndInv, TypeOK
<1>5. /\ request' = request /\ rec' = rec /\ written' = written /\ make' = make
      /\ reused' = reused /\ before' = before /\ reply' = reply /\ records' = records
      /\ associations' = associations
  BY DEF MadeAll, planVars
<1>6. LinkingInv(p)'
  BY <1>1, <1>4, <1>5 DEF IndInv, PlanInv, MakingInv, LinkingInv, Means
<1>7. KnownInv(p)' /\ BeforeInv(p)'
  BY <1>1, <1>4, <1>5, BeforeKept DEF IndInv, PlanInv, KnownInv
<1>8. PlanInv(p)'
  BY <1>1, <1>4, <1>5, <1>6, <1>7 DEF IndInv, PlanInv, FindingInv, MakingInv
<1>9. FreshInv(p)' /\ TrueFor(p)' /\ HarmlessFor(p)'
  BY <1>1, <1>4, <1>5, PlanAssumption
     DEF IndInv, FreshInv, TrueFor, HarmlessFor, New, Replies
<1> QED
  BY <1>1, <1>3, <1>4, <1>8, <1>9, StepIsLocal DEF PlanGood

-----------------------------------------------------------------------------
(* Linking. *)

\* A link that is asked for joins two records of the right kinds: _check_plan_inputs
\* let no link pass that lacks one, and the other phases have filled them all.
LEMMA LinkIsWhole ==
  ASSUME IndInv, NEW p \in Plans, phase[p] = "linking",
         NEW l \in RequestedLinks(request[p])
  PROVE  /\ l \in Links
         /\ NoRecord \notin Joined(p, l)
         /\ Joined(p, l) \subseteq Record
         /\ {r.entity : r \in Joined(p, l)} = Ends[l]
<1> DEFINE x == request[p]
<1>1. x \in Request /\ l \in Links
  BY Requests, RequestParts DEF IndInv
<1>2. Ends[l] \subseteq Present(x)
  BY DEF IndInv, PlanInv, InputError, DanglingLink
<1>3. \A e \in Ends[l] : Means(p, e, rec[p][e])
  BY <1>2 DEF IndInv, PlanInv, LinkingInv
<1>4. \A e \in Ends[l] : e \in Entities /\ rec[p][e] \in Record \cup {NoRecord}
  BY <1>1, LinkNames DEF IndInv, TypeOK
<1>5. \A e \in Ends[l] : rec[p][e] # NoRecord /\ rec[p][e].entity = e
  <2> TAKE e \in Ends[l]
  <2>1. Means(p, e, rec[p][e])
    BY <1>3
  <2>2. rec[p][e] # NoRecord
    BY <1>4, <2>1, NoRecordIsNone
  <2>3. rec[p][e].entity = e
    BY <2>1 DEF Means
  <2> QED
    BY <2>2, <2>3
<1>6. NoRecord \notin Joined(p, l) /\ Joined(p, l) \subseteq Record
  BY <1>4, <1>5 DEF Joined
<1>7. {r.entity : r \in Joined(p, l)} = Ends[l]
  BY <1>5 DEF Joined
<1> QED
  BY <1>1, <1>6, <1>7

LEMMA LinkingFacts ==
  ASSUME IndInv, NEW p \in Plans, NEW l, Linking(p, l)
  PROVE  /\ phase[p] = "linking" /\ l \in todo[p] /\ l \in RequestedLinks(request[p])
         /\ l \in Links /\ NoRecord \notin Joined(p, l) /\ reply[p] = NoOne
         /\ Association(p, l) \in [link : Links, ends : SUBSET Record, by : Plans]
         /\ Association(p, l).by = p /\ Association(p, l).link = l
         /\ Association(p, l).ends = Joined(p, l)
         /\ {r.entity : r \in Association(p, l).ends} = Ends[l]
<1>1. /\ phase[p] = "linking" /\ l \in todo[p] /\ l \in RequestedLinks(request[p])
      /\ reply[p] = NoOne
  BY DEF Linking, IsNext, IndInv, PlanInv, LinkingInv, KnownInv
<1>2. l \in Links /\ NoRecord \notin Joined(p, l) /\ Joined(p, l) \subseteq Record
      /\ {r.entity : r \in Joined(p, l)} = Ends[l]
  BY <1>1, LinkIsWhole
<1>3. Association(p, l) = [link |-> l, ends |-> Joined(p, l), by |-> p]
  BY DEF Association
<1> QED
  BY <1>1, <1>2, <1>3

LEMMA LinkStep ==
  ASSUME IndInv, NEW p \in Plans, NEW l \in Links, Link(p, l)
  PROVE  IndInv'
<1> DEFINE x == request[p]
           a == Association(p, l)
<1>1. /\ phase[p] = "linking" /\ l \in todo[p] /\ l \in RequestedLinks(x)
      /\ NoRecord \notin Joined(p, l) /\ reply[p] = NoOne
      /\ a \in [link : Links, ends : SUBSET Record, by : Plans]
      /\ a.by = p /\ a.link = l /\ a.ends = Joined(p, l)
      /\ {r.entity : r \in a.ends} = Ends[l]
  BY LinkingFacts DEF Link
<1>2. /\ associations' = associations \cup {a}
      /\ written' = [written EXCEPT ![p] = @ \cup {l}]
      /\ UNCHANGED <<request, records, phase, rec, make, reused, checked, reply, before>>
  BY <1>1 DEF Link
<1>3. /\ todo'[p] = todo[p] \ {l} /\ written'[p] = written[p] \cup {l}
      /\ \A q \in Plans \ {p} : todo'[q] = todo[q] /\ written'[q] = written[q]
  BY <1>2 DEF Link, Done, IndInv, TypeOK
<1>4. TypeOK'
  BY <1>1, <1>2 DEF Link, Done, IndInv, TypeOK
<1>5. OnlyMoves(p)
  BY <1>1, <1>2, <1>3 DEF OnlyMoves
<1>6. LinkingInv(p)'
  <2>1. \A k : Joined(p, k)' = Joined(p, k)
    BY <1>2 DEF Joined
  <2>2. \A e : Means(p, e, rec[p][e])' <=> Means(p, e, rec[p][e])
    BY <1>2 DEF Means
  <2>3. LinkingInv(p)
    BY DEF IndInv, PlanInv
  <2>4. ASSUME NEW k \in RequestedLinks(x) \ todo'[p]
        PROVE  /\ k \in written'[p]
               /\ \E b \in associations' : b.link = k /\ b.ends = Joined(p, k)
    <3>1. CASE k = l
      BY <3>1, <1>1, <1>2, <1>3
    <3>2. CASE k # l
      BY <3>2, <1>1, <1>2, <1>3, <2>3 DEF LinkingInv
    <3> QED
      BY <3>1, <3>2
  <2>5. /\ todo'[p] \subseteq RequestedLinks(x)
        /\ \A e \in Present(x) : Means(p, e, rec[p][e])
        /\ make[p] \subseteq written'[p]
    BY <1>1, <1>3, <2>3 DEF LinkingInv
  <2> QED
    BY <1>2, <2>1, <2>2, <2>4, <2>5 DEF LinkingInv
<1>7. KnownInv(p)' /\ BeforeInv(p)'
  BY <1>1, <1>2, <1>3, <1>5, BeforeKept DEF IndInv, PlanInv, KnownInv
<1>8. PlanInv(p)'
  BY <1>1, <1>2, <1>6, <1>7 DEF IndInv, PlanInv, FindingInv, MakingInv
<1>9. FreshInv(p)' /\ TrueFor(p)' /\ HarmlessFor(p)'
  BY <1>1, <1>2, PlanAssumption DEF IndInv, FreshInv, TrueFor, HarmlessFor, New, Replies
<1> QED
  BY <1>1, <1>2, <1>4, <1>5, <1>8, <1>9, StepIsLocal DEF PlanGood

LEMMA LinkFailsStep ==
  ASSUME IndInv, NEW p \in Plans, NEW l \in Links, LinkFails(p, l)
  PROVE  IndInv'
<1> DEFINE a == Association(p, l)
<1>1. /\ phase[p] = "linking" /\ l \in RequestedLinks(request[p])
      /\ a \in [link : Links, ends : SUBSET Record, by : Plans]
      /\ a.by = p /\ a.link = l /\ {r.entity : r \in a.ends} = Ends[l]
  BY LinkingFacts DEF LinkFails
<1>2. PICK r \in {"failed", "partial"} : EndWith(p, r)
  BY DEF LinkFails, Outcome
<1>3. /\ UNCHANGED <<request, records, planVars, before>>
      /\ associations' = associations \/ associations' = associations \cup {a}
  BY DEF LinkFails
<1>4. /\ phase'[p] = "done" /\ reply'[p] = r
      /\ \A q \in Plans \ {p} :
           phase'[q] = phase[q] /\ todo'[q] = todo[q] /\ reply'[q] = reply[q]
  BY <1>2, EndChanges DEF IndInv, Replies
<1>5. TypeOK'
  BY <1>1, <1>2, <1>3, EndChanges DEF IndInv, TypeOK, planVars, Replies
<1>6. OnlyMoves(p)
  BY <1>1, <1>3, <1>4 DEF OnlyMoves, planVars
<1>7. PlanGood(p)'
  BY <1>1, <1>3, <1>4, <1>6, BeforeKept, EndIsGood DEF planVars
<1> QED
  BY <1>1, <1>4, <1>5, <1>6, <1>7, StepIsLocal

LEMMA FinishStep ==
  ASSUME IndInv, NEW p \in Plans, Finish(p)
  PROVE  IndInv'
<1> DEFINE x == request[p]
<1>1. /\ phase[p] = "linking" /\ todo[p] = {} /\ ~InputError(x)
      /\ UNCHANGED <<request, records, associations, planVars, before>>
  BY DEF Finish, IndInv, PlanInv
<1>2. PICK r \in {"ok", "existing"} :
        EndWith(p, r) /\ (r = "existing" => written[p] = {})
  BY DEF Finish
<1>3. /\ phase'[p] = "done" /\ reply'[p] = r
      /\ \A q \in Plans \ {p} :
           phase'[q] = phase[q] /\ todo'[q] = todo[q] /\ reply'[q] = reply[q]
  BY <1>2, EndChanges DEF IndInv, Replies
<1>4. TypeOK'
  BY <1>1, <1>2, EndChanges DEF IndInv, TypeOK, planVars, Replies
<1>5. OnlyMoves(p)
  BY <1>1, <1>3 DEF OnlyMoves, planVars
<1>6. LinkingInv(p) /\ Creates(x) \subseteq make[p] \cup reused[p]
  BY <1>1 DEF IndInv, PlanInv
<1>7. r = "existing" => reused[p] # {}
  BY <1>1, <1>2, <1>6 DEF LinkingInv, InputError, NothingToDo
<1>8. TrueFor(p)'
  <2>1. \A l : Joined(p, l)' = Joined(p, l)
    BY <1>1 DEF Joined, planVars
  <2> QED
    BY <1>1, <1>3, <1>6, <1>7, <2>1 DEF TrueFor, LinkingInv, Means, planVars
<1>9. BeforeInv(p)'
  BY <1>1, <1>5, BeforeKept
<1>10. PlanInv(p)'
  BY <1>1, <1>3, <1>9
     DEF IndInv, PlanInv, KnownInv, FindingInv, MakingInv, LinkingInv, planVars
<1>11. FreshInv(p)' /\ HarmlessFor(p)'
  BY <1>3 DEF FreshInv, HarmlessFor
<1> QED
  BY <1>1, <1>3, <1>4, <1>5, <1>8, <1>10, <1>11, StepIsLocal DEF PlanGood

-----------------------------------------------------------------------------
\* A record that goes away takes nothing from the invariant.
LEMMA FewerRecords ==
  ASSUME IndInv, records' \subseteq records,
         UNCHANGED <<request, associations, phase, todo, planVars, reply, before>>
  PROVE  IndInv'
<1>1. /\ records' \subseteq records
      /\ UNCHANGED <<request, associations, phase, todo, planVars, reply, before>>
  OBVIOUS
<1>2. TypeOK'
  BY <1>1 DEF IndInv, TypeOK, planVars
<1>3. ASSUME NEW p \in Plans
      PROVE  PlanInv(p)' /\ FreshInv(p)' /\ TrueFor(p)' /\ HarmlessFor(p)'
  <2>1. PlanInv(p) /\ FreshInv(p) /\ TrueFor(p) /\ HarmlessFor(p)
    BY DEF IndInv, OkMeansDone, RefusalWritesNothing
  <2>2. /\ \A l : Joined(p, l)' = Joined(p, l)
        /\ \A e : New(p, e)' = New(p, e)
        /\ \A e : Means(p, e, rec[p][e])' <=> Means(p, e, rec[p][e])
    BY <1>1 DEF Means, Joined, New, planVars
  <2>3. BeforeInv(p)' /\ KnownInv(p)'
    BY <1>1, <2>1 DEF PlanInv, BeforeInv, KnownInv, planVars
  <2>4. FindingInv(p)' /\ MakingInv(p)'
    BY <1>1, <2>1, <2>2 DEF PlanInv, FindingInv, MakingInv, planVars
  <2>5. LinkingInv(p)'
    BY <1>1, <2>1, <2>2 DEF PlanInv, LinkingInv, planVars
  <2>6. PlanInv(p)'
    BY <1>1, <2>1, <2>3, <2>4, <2>5 DEF PlanInv, planVars
  <2>7. FreshInv(p)' /\ HarmlessFor(p)'
    BY <1>1, <2>1, <2>2 DEF FreshInv, HarmlessFor, planVars
  <2>8. TrueFor(p)'
    BY <1>1, <2>1, <2>2 DEF TrueFor, planVars
  <2> QED
    BY <2>6, <2>7, <2>8
<1>4. WritesAreAsked' /\ NoSecondCopy'
  BY <1>1 DEF IndInv, WritesAreAsked, NoSecondCopy
<1> QED
  BY <1>1, <1>2, <1>3, <1>4 DEF IndInv, OkMeansDone, RefusalWritesNothing

-----------------------------------------------------------------------------
(* The invariant, and what follows from it. *)

LEMMA InitGood == Init => IndInv
<1> SUFFICES ASSUME Init PROVE IndInv
  OBVIOUS
<1>1. request \in Mixes /\ \A p \in Plans : request[p] \in Request
  BY Requests DEF Init
<1>2. request \in [Plans -> Request]
  BY PlanAssumption DEF Init
<1>3. records \subseteq Record /\ \A r \in records : r.by = NoOne
  BY PlanAssumption DEF Init
<1>4. TypeOK
  BY <1>2, <1>3 DEF Init, TypeOK
<1>5. ASSUME NEW p \in Plans PROVE PlanInv(p) /\ FreshInv(p)
  BY <1>3, PlanAssumption
     DEF Init, PlanInv, BeforeInv, KnownInv, FindingInv, MakingInv, LinkingInv, FreshInv
<1>6. ASSUME NEW p \in Plans PROVE TrueFor(p) /\ HarmlessFor(p)
  BY PlanAssumption DEF Init, TrueFor, HarmlessFor, Replies
<1>7. WritesAreAsked /\ NoSecondCopy
  BY <1>3 DEF Init, WritesAreAsked, NoSecondCopy
<1> QED
  BY <1>1, <1>4, <1>5, <1>6, <1>7 DEF IndInv, OkMeansDone, RefusalWritesNothing

LEMMA NextGood ==
  ASSUME IndInv, [Next]_vars
  PROVE  IndInv'
<1>1. CASE \E r \in records : Vanish(r)
  BY <1>1, FewerRecords DEF Vanish
<1>2. CASE UNCHANGED vars
  BY <1>2, FewerRecords DEF vars
<1>3. ASSUME NEW p \in Plans, Step(p) PROVE IndInv'
  <2>1. CASE Propose(p) \/ Refuse(p) \/ Start(p)
    BY <2>1, ProposeStep, StartStep
  <2>2. CASE DuplicateDeal(p)
    BY <2>2, FindEndsStep DEF Entities
  <2>3. CASE FoundAll(p) \/ MadeAll(p) \/ Finish(p)
    BY <2>3, FoundAllStep, MadeAllStep, FinishStep
  <2>4. ASSUME NEW e \in Entities, Find(p, e) PROVE IndInv'
    BY <2>4, UseExistingStep, PlanCreateStep, FindEndsStep DEF Find
  <2>5. ASSUME NEW e \in Entities, Make(p, e) PROVE IndInv'
    BY <2>5, EmailUnusedStep, MakeEndsStep, CreateStep DEF Make
  <2>6. ASSUME NEW l \in Links, Associate(p, l) PROVE IndInv'
    BY <2>6, LinkStep, LinkFailsStep DEF Associate
  <2> QED
    BY <1>3, <2>1, <2>2, <2>3, <2>4, <2>5, <2>6 DEF Step
<1> QED
  BY <1>1, <1>2, <1>3 DEF Next

THEOREM PlanInvariant == Spec => []IndInv
<1>1. Init => IndInv
  BY InitGood
<1>2. IndInv /\ [Next]_vars => IndInv'
  BY NextGood
<1> QED
  BY <1>1, <1>2, PTL DEF Spec

\* Type correctness.
THEOREM TypeCorrect == Spec => []TypeOK
<1>1. IndInv => TypeOK
  BY DEF IndInv
<1> QED
  BY <1>1, PlanInvariant, PTL

\* A link that is up for execution has both of its records: the check of the inputs
\* and the search together leave nothing for the "continue" of _execute.
THEOREM LinksWhole == Spec => []LinksHaveRecords
<1>1. IndInv => LinksHaveRecords
  <2> SUFFICES ASSUME IndInv, NEW p \in Plans, phase[p] = "linking", NEW l \in todo[p]
               PROVE  NoRecord \notin Joined(p, l)
    BY DEF LinksHaveRecords
  <2>1. l \in RequestedLinks(request[p])
    BY DEF IndInv, PlanInv, LinkingInv
  <2> QED
    BY <2>1, LinkIsWhole
<1> QED
  BY <1>1, PlanInvariant, PTL

\* A plan that reports success has every record the user meant, and every link.
THEOREM OkIsTrue == Spec => []OkMeansDone
<1>1. IndInv => OkMeansDone
  BY DEF IndInv
<1> QED
  BY <1>1, PlanInvariant, PTL

\* Nothing is created and nothing is linked that no request asked for.
THEOREM OnlyWhatIsAsked == Spec => []WritesAreAsked
<1>1. IndInv => WritesAreAsked
  BY DEF IndInv
<1> QED
  BY <1>1, PlanInvariant, PTL

\* A refused plan, a duplicate and a proposal have changed nothing in HubSpot.
THEOREM RefusalIsHarmless == Spec => []RefusalWritesNothing
<1>1. IndInv => RefusalWritesNothing
  BY DEF IndInv
<1> QED
  BY <1>1, PlanInvariant, PTL

\* A plan asked for after another is done copies none of its records.
THEOREM NoCopyAfterwards == Spec => []NoSecondCopy
<1>1. IndInv => NoSecondCopy
  BY DEF IndInv
<1> QED
  BY <1>1, PlanInvariant, PTL
=============================================================================
