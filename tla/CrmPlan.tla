------------------------------ MODULE CrmPlan ------------------------------
(***************************************************************************)
(* What CRMOperations does with a request about several records: decide    *)
(* what is wanted of each, check it, resolve every record in HubSpot, then *)
(* create and link.  Other plans, and people in HubSpot, act meanwhile.    *)
(* The action that guards a plan is the matter of AgentMutations.          *)
(***************************************************************************)
EXTENDS Naturals, FiniteSets

CONSTANTS
  Plans,
  Names,
  Similar,     \* pairs of names that count as a near-match
  NoOne,
  Worlds,      \* what HubSpot may hold at the start
  Mixes        \* which requests may come together

Entities == {"company", "contact", "deal"}

\* The records a link joins (_LINKS).
Ends == [contact_company |-> {"contact", "company"},
         deal_company |-> {"deal", "company"},
         deal_contact |-> {"deal", "contact"}]
Links == DOMAIN Ends

Record == [entity : Entities, name : Names, mail : BOOLEAN, by : Plans \cup {NoOne}]
NoRecord == [entity |-> NoOne]

\* An extraction together with what validation left of it.
Request == [
  intent : {"create_contact", "create_company", "create_deal", "update_company",
            "update_deal", "associate_records", "multi_step"},
  action : [Entities -> {"none", "create", "update", "reference"}],
  associations : SUBSET Links,
  name : [Entities -> Names \cup {NoOne}],
  contact_by : {"nothing", "detail", "id", "name", "email"},
  company_details : BOOLEAN,
  deal_details : {"none", "given", "unclear"}]

Replies == {"ok", "existing", "refused", "duplicate", "proposed", "failed", "partial"}

ASSUME PlanAssumption ==
  /\ NoOne \notin Plans \cup Names \cup Entities \cup Replies
  /\ Similar \subseteq Names \X Names
  /\ Worlds \subseteq SUBSET {r \in Record : r.by = NoOne}
  /\ Mixes \subseteq [Plans -> Request]
  /\ \A m \in Mixes, p \in Plans :
       m[p].contact_by \in {"nothing", "detail"} <=> m[p].name["contact"] = NoOne

VARIABLES
  request,
  records,       \* HubSpot's records; "by" is the plan that had them created
  associations,  \* every association HubSpot ever made
  phase,
  todo,          \* what is left to do in this phase: entities, or links
  rec,           \* plan.company, plan.contact, plan.deal
  make,          \* the records to create
  reused,
  written,       \* the keys of plan.written
  checked,       \* create_contact has found the email unused
  reply,
  before         \* before[p]: the plans that were done when p was asked

planVars == <<rec, make, reused, written, checked>>
vars == <<request, records, associations, phase, todo, planVars, reply, before>>

TypeOK ==
  /\ request \in [Plans -> Request]
  /\ records \subseteq Record
  /\ associations \subseteq [link : Links, ends : SUBSET Record, by : Plans]
  /\ phase \in [Plans -> {"idle", "finding", "making", "linking", "done"}]
  /\ todo \in [Plans -> SUBSET (Entities \cup Links)]
  /\ rec \in [Plans -> [Entities -> Record \cup {NoRecord}]]
  /\ make \in [Plans -> SUBSET Entities]
  /\ reused \in [Plans -> SUBSET Entities]
  /\ written \in [Plans -> SUBSET (Entities \cup Links)]
  /\ checked \in [Plans -> BOOLEAN]
  /\ reply \in [Plans -> Replies \cup {NoOne}]
  /\ before \in [Plans -> SUBSET Plans]

Init ==
  /\ request \in Mixes
  /\ records \in Worlds
  /\ associations = {}
  /\ phase = [p \in Plans |-> "idle"]
  /\ todo = [p \in Plans |-> {}]
  /\ rec = [p \in Plans |-> [e \in Entities |-> NoRecord]]
  /\ make = [p \in Plans |-> {}]
  /\ reused = [p \in Plans |-> {}]
  /\ written = [p \in Plans |-> {}]
  /\ checked = [p \in Plans |-> FALSE]
  /\ reply = [p \in Plans |-> NoOne]
  /\ before = [p \in Plans |-> {}]

-----------------------------------------------------------------------------
(* What a request wants. *)

Implied(x) ==
  CASE x.intent = "create_contact" -> <<"contact", "create">>
    [] x.intent = "create_company" -> <<"company", "create">>
    [] x.intent = "create_deal" -> <<"deal", "create">>
    [] x.intent = "update_company" -> <<"company", "update">>
    [] x.intent = "update_deal" -> <<"deal", "update">>
    [] OTHER -> <<NoOne, "none">>

Mentioned(x, e) ==
  IF e = "contact" THEN x.contact_by # "nothing" ELSE x.name[e] # NoOne

\* _entity_actions
Actions(x) ==
  [e \in Entities |->
    CASE x.action[e] # "none" -> x.action[e]
      [] x.action[e] = "none" /\ Implied(x)[1] = e -> Implied(x)[2]
      [] OTHER -> IF Mentioned(x, e) THEN "reference" ELSE "none"]

Present(x) == {e \in Entities : Actions(x)[e] # "none"}
Creates(x) == {e \in Entities : Actions(x)[e] = "create"}
Updates(x) == {e \in Entities : Actions(x)[e] = "update"}

\* A plain new contact is the business of the contact flows.
Handles(x) ==
  x.intent = "create_contact" =>
    \/ x.action["deal"] # "none"
    \/ x.name["deal"] # NoOne
    \/ x.action["company"] \in {"create", "update"}
    \/ x.action["contact"] \in {"reference", "update"}
    \/ x.associations \ {"contact_company"} # {}

ImpliedLinks(x) ==
  {l \in {"contact_company", "deal_company"} :
     "company" \in Present(x) /\ \E e \in Ends[l] \ {"company"} : e \in Creates(x)}

\* _requested_links
RequestedLinks(x) ==
  LET asked == x.associations \cup ImpliedLinks(x) IN
  IF asked = {} /\ x.intent = "associate_records"
  THEN {l \in Links : Ends[l] = Present(x)}
  ELSE asked

-----------------------------------------------------------------------------
(* respond and _check_plan_inputs: what is refused before HubSpot is asked. *)

NothingToDo(x) == Creates(x) = {} /\ RequestedLinks(x) = {}

\* Mutant: a company without a name passes.
Unnamed_company(x) ==
  \/ "contact" \in Creates(x) /\ x.contact_by \notin {"name", "email"}
  \/ Actions(x)["contact"] = "reference" /\ x.contact_by = "nothing"
  \/ "deal" \in Present(x) /\ x.name["deal"] = NoOne

Unnamed(x) ==
  \/ "company" \in Present(x) /\ x.name["company"] = NoOne
  \/ "contact" \in Creates(x) /\ x.contact_by \notin {"name", "email"}
  \/ Actions(x)["contact"] = "reference" /\ x.contact_by = "nothing"
  \/ "deal" \in Present(x) /\ x.name["deal"] = NoOne

\* Mutant: nobody looks whether both records of a link are there.
DanglingLink_unchecked(x) == FALSE

DanglingLink(x) == \E l \in RequestedLinks(x) : ~(Ends[l] \subseteq Present(x))

\* A change to a record that is only referred to has to be confirmed.
HiddenUpdate(x) ==
  \/ Actions(x)["company"] = "reference" /\ x.company_details
  \/ Actions(x)["deal"] = "reference" /\ x.deal_details = "given"

UnclearDeal(x) == "deal" \in Creates(x) /\ x.deal_details = "unclear"

InputError(x) ==
  UnclearDeal(x) \/ NothingToDo(x) \/ Unnamed(x) \/ DanglingLink(x) \/ HiddenUpdate(x)

EndWith(p, r) ==
  /\ phase' = [phase EXCEPT ![p] = "done"]
  /\ todo' = [todo EXCEPT ![p] = {}]
  /\ reply' = [reply EXCEPT ![p] = r]

Asked(p) ==
  /\ phase[p] = "idle"
  /\ Handles(request[p])
  /\ before' = [before EXCEPT ![p] = {q \in Plans : phase[q] = "done"}]
  /\ UNCHANGED <<request, records, associations, planVars>>

\* Updates go the way of a proposal; mixed with anything else they are refused.
Propose(p) ==
  /\ Asked(p)
  /\ ~UnclearDeal(request[p])
  /\ Updates(request[p]) # {}
  /\ \E r \in {"proposed", "refused"} : EndWith(p, r)

Refuse(p) ==
  /\ Asked(p)
  /\ InputError(request[p])
  /\ Updates(request[p]) = {} \/ UnclearDeal(request[p])
  /\ EndWith(p, "refused")

Start(p) ==
  /\ Asked(p)
  /\ ~InputError(request[p])
  /\ Updates(request[p]) = {}
  /\ phase' = [phase EXCEPT ![p] = "finding"]
  /\ todo' = [todo EXCEPT ![p] = Present(request[p])]
  /\ UNCHANGED reply

-----------------------------------------------------------------------------
(* _prepare: every record is resolved before anything is written. *)

Rank == [company |-> 1, contact |-> 2, deal |-> 3,
         contact_company |-> 4, deal_company |-> 5, deal_contact |-> 6]

\* What a plan does next: companies before contacts before deals, links in the
\* order of _LINKS.
IsNext(p, i) == i \in todo[p] /\ \A j \in todo[p] : Rank[i] <= Rank[j]

\* Records with exactly the name, or else those nearly called so.
Matching(e, n) ==
  LET exact == {r \in records : r.entity = e /\ r.name = n} IN
  IF exact # {} THEN exact ELSE {r \in records : r.entity = e /\ <<n, r.name>> \in Similar}

\* At most one: the search for an email address asks for one result.
WithEmail(n) == {r \in records : r.entity = "contact" /\ r.mail /\ r.name = n}

\* A contact id is taken as it is, whether or not the record exists.
WithId(n) == {[entity |-> "contact", name |-> n, mail |-> FALSE, by |-> NoOne]}

\* A new contact is looked for by its email address only.
Searched(p, e) ==
  \/ e # "contact"
  \/ request[p].contact_by = "email"
  \/ (request[p].contact_by = "name" /\ e \notin Creates(request[p]))

\* Mutant: what is to be created is not looked for.
Candidates_unsearched(p, e) ==
  IF e \in Creates(request[p]) THEN {} ELSE Matching(e, request[p].name[e])

Candidates(p, e) ==
  LET n == request[p].name[e] IN
  CASE e = "contact" /\ request[p].contact_by = "email" -> WithEmail(n)
    [] e = "contact" /\ request[p].contact_by = "id" -> WithId(n)
    [] OTHER -> IF Searched(p, e) THEN Matching(e, n) ELSE {}

Ambiguous(p, e) ==
  /\ e # "contact" \/ request[p].contact_by = "name"
  /\ Cardinality(Candidates(p, e)) > 1

\* One near-match may be nearer than those of other names.
StandsOut(p, e, r) == \A s \in Candidates(p, e) \ {r} : s.name # r.name

\* A new deal is never one that exists.
MayReuse(p, e) == e # "deal" \/ e \notin Creates(request[p])

Finding(p, e) == phase[p] = "finding" /\ IsNext(p, e)
Done(p, i) == todo' = [todo EXCEPT ![p] = @ \ {i}]

\* Mutant: the existing record is announced and forgotten.
Take_forgotten(p, e, r) == UNCHANGED rec

Take(p, e, r) == rec' = [rec EXCEPT ![p][e] = r]

UseExisting(p, e) ==
  /\ Finding(p, e)
  /\ MayReuse(p, e)
  /\ \E r \in Candidates(p, e) : (~Ambiguous(p, e) \/ StandsOut(p, e, r)) /\ Take(p, e, r)
  /\ reused' = [reused EXCEPT ![p] = IF e \in Creates(request[p]) THEN @ \cup {e} ELSE @]
  /\ Done(p, e)
  /\ UNCHANGED <<request, records, associations, phase, make, written, checked, reply, before>>

\* Mutant: a record that is only referred to is created when it is missing.
MayCreate_any(p, e) == TRUE

MayCreate(p, e) == e \in Creates(request[p])

PlanCreate(p, e) ==
  /\ Finding(p, e)
  /\ MayCreate(p, e)
  /\ Candidates(p, e) = {}
  /\ make' = [make EXCEPT ![p] = @ \cup {e}]
  /\ Done(p, e)
  /\ UNCHANGED <<request, records, associations, phase, rec, reused, written, checked,
                 reply, before>>

\* Ambiguous, unknown, or (a deal) a pipeline, stage or type that does not exist.
RefuseRecord(p, e) ==
  /\ Finding(p, e)
  /\ IF MayReuse(p, e)
     THEN Ambiguous(p, e) \/ (Candidates(p, e) = {} /\ ~MayCreate(p, e))
     ELSE Candidates(p, e) = {}
  /\ EndWith(p, "refused")
  /\ UNCHANGED <<request, records, associations, planVars, before>>

DuplicateDeal(p) ==
  /\ Finding(p, "deal")
  /\ ~MayReuse(p, "deal")
  /\ Candidates(p, "deal") # {}
  /\ EndWith(p, "duplicate")
  /\ UNCHANGED <<request, records, associations, planVars, before>>

SearchFails(p, e) ==
  /\ Finding(p, e)
  /\ Searched(p, e)
  /\ EndWith(p, "failed")
  /\ UNCHANGED <<request, records, associations, planVars, before>>

FoundAll(p) ==
  /\ phase[p] = "finding"
  /\ todo[p] = {}
  /\ phase' = [phase EXCEPT ![p] = "making"]
  /\ todo' = [todo EXCEPT ![p] = make[p]]
  /\ UNCHANGED <<request, records, associations, planVars, reply, before>>

-----------------------------------------------------------------------------
(* _execute. *)

Making(p, e) == phase[p] = "making" /\ IsNext(p, e)

\* Mutant: what was written before the failure is not looked at.
Outcome_total(p, r) == r

\* The reply to a plan that fails with r.
Outcome(p, r) == IF written[p] = {} THEN r ELSE "partial"

New(p, e) ==
  [entity |-> e, name |-> request[p].name[e], by |-> p,
   mail |-> e = "contact" /\ request[p].contact_by = "email"]

MustCheck(p, e) == New(p, e).mail /\ ~checked[p]

EmailUnused(p, e) ==
  /\ Making(p, e)
  /\ MustCheck(p, e)
  /\ WithEmail(request[p].name[e]) = {}
  /\ checked' = [checked EXCEPT ![p] = TRUE]
  /\ UNCHANGED <<request, records, associations, phase, todo, rec, make, reused, written,
                 reply, before>>

\* HubSpotDuplicateContactError
EmailTaken(p, e) ==
  /\ Making(p, e)
  /\ MustCheck(p, e)
  /\ WithEmail(request[p].name[e]) # {}
  /\ EndWith(p, Outcome(p, "duplicate"))
  /\ UNCHANGED <<request, records, associations, planVars, before>>

\* The record is created; then the lookup of its URL may fail.
Create(p, e) ==
  /\ Making(p, e)
  /\ ~MustCheck(p, e)
  /\ records' = records \cup {New(p, e)}
  /\ rec' = [rec EXCEPT ![p][e] = New(p, e)]
  /\ written' = [written EXCEPT ![p] = @ \cup {e}]
  /\ \/ Done(p, e) /\ UNCHANGED <<phase, reply>>
     \/ EndWith(p, "partial")
  /\ UNCHANGED <<request, associations, make, reused, checked, before>>

\* HubSpot refuses, or creates the record and its answer is lost.
CreateFails(p, e) ==
  /\ Making(p, e)
  /\ \/ UNCHANGED records
     \/ ~MustCheck(p, e) /\ records' = records \cup {New(p, e)}
  /\ EndWith(p, Outcome(p, "failed"))
  /\ UNCHANGED <<request, associations, planVars, before>>

MadeAll(p) ==
  /\ phase[p] = "making"
  /\ todo[p] = {}
  /\ phase' = [phase EXCEPT ![p] = "linking"]
  /\ todo' = [todo EXCEPT ![p] = RequestedLinks(request[p])]
  /\ UNCHANGED <<request, records, associations, planVars, reply, before>>

Linking(p, l) == phase[p] = "linking" /\ IsNext(p, l)
Joined(p, l) == {rec[p][e] : e \in Ends[l]}
Association(p, l) == [link |-> l, ends |-> Joined(p, l), by |-> p]

\* HubSpot joins two records it still has.  A link that lacks one is passed over:
\* "if source is None or target is None: continue".
Link(p, l) ==
  /\ Linking(p, l)
  /\ IF NoRecord \in Joined(p, l)
     THEN UNCHANGED <<associations, written>>
     ELSE /\ Joined(p, l) \subseteq records
          /\ associations' = associations \cup {Association(p, l)}
          /\ written' = [written EXCEPT ![p] = @ \cup {l}]
  /\ Done(p, l)
  /\ UNCHANGED <<request, records, phase, rec, make, reused, checked, reply, before>>

LinkFails(p, l) ==
  /\ Linking(p, l)
  /\ NoRecord \notin Joined(p, l)
  /\ \/ UNCHANGED associations
     \/ Joined(p, l) \subseteq records /\ associations' = associations \cup {Association(p, l)}
  /\ EndWith(p, Outcome(p, "failed"))
  /\ UNCHANGED <<request, records, planVars, before>>

\* Nothing written: all that was asked for was there.
Finish(p) ==
  /\ phase[p] = "linking"
  /\ todo[p] = {}
  /\ EndWith(p, IF written[p] = {} THEN "existing" ELSE "ok")
  /\ UNCHANGED <<request, records, associations, planVars, before>>

-----------------------------------------------------------------------------
\* A record is deleted, by a confirmed request or by somebody in HubSpot.
Vanish(r) ==
  /\ records' = records \ {r}
  /\ UNCHANGED <<request, associations, phase, todo, planVars, reply, before>>

Find(p, e) ==
  UseExisting(p, e) \/ PlanCreate(p, e) \/ RefuseRecord(p, e) \/ SearchFails(p, e)
Make(p, e) == EmailUnused(p, e) \/ EmailTaken(p, e) \/ Create(p, e) \/ CreateFails(p, e)
Associate(p, l) == Link(p, l) \/ LinkFails(p, l)

Step(p) ==
  \/ Propose(p) \/ Refuse(p) \/ Start(p)
  \/ DuplicateDeal(p) \/ FoundAll(p) \/ MadeAll(p) \/ Finish(p)
  \/ \E e \in Entities : Find(p, e) \/ Make(p, e)
  \/ \E l \in Links : Associate(p, l)

Next == (\E p \in Plans : Step(p)) \/ (\E r \in records : Vanish(r))

Spec == Init /\ [][Next]_vars

-----------------------------------------------------------------------------
\* A link that is up for execution has both of its records: _check_plan_inputs
\* and _prepare leave no case to the "continue" of _execute.
LinksHaveRecords ==
  \A p \in Plans : phase[p] = "linking" => \A l \in todo[p] : NoRecord \notin Joined(p, l)

\* What the user named: nearly the same name will do.
Means(p, e, r) ==
  /\ r.entity = e
  /\ r.name = request[p].name[e] \/ <<request[p].name[e], r.name>> \in Similar

TrueFor(p) ==
  reply[p] \in {"ok", "existing"} =>
    /\ \A e \in Present(request[p]) : Means(p, e, rec[p][e])
    /\ \A l \in RequestedLinks(request[p]) :
         \E a \in associations : a.link = l /\ a.ends = Joined(p, l)
    /\ reply[p] = "existing" => reused[p] # {}

\* "ok" and "already exists" are true: every record of the plan is one the user
\* meant, and each link was made between just these.
OkMeansDone == \A p \in Plans : TrueFor(p)

\* HubSpot gets no record and no link that was not asked for.
WritesAreAsked ==
  /\ \A r \in records : r.by # NoOne => r.entity \in Creates(request[r.by])
  /\ \A a \in associations :
       /\ a.link \in RequestedLinks(request[a.by])
       /\ {r.entity : r \in a.ends} = Ends[a.link]

HarmlessFor(p) ==
  reply[p] \in {"refused", "duplicate", "proposed"} =>
    /\ \A r \in records : r.by # p
    /\ \A a \in associations : a.by # p

\* A plan that is sent back to the user has changed nothing, whatever other plans
\* did while it was being prepared.
RefusalWritesNothing == \A p \in Plans : HarmlessFor(p)

\* One company, one deal, one person with an email address.
SameKey(r, s) ==
  /\ r.entity = s.entity /\ r.name = s.name
  /\ r.entity = "contact" => r.mail /\ s.mail

\* A plan asked for after another is done makes no second copy of its records;
\* only plans that overlap can, and contacts without an email address.
NoSecondCopy ==
  \A r, s \in records :
    r.by # NoOne /\ s.by # NoOne /\ SameKey(r, s) => r.by \notin before[s.by]

-----------------------------------------------------------------------------
(* The inductive invariant behind the safety properties. *)

BeforeInv(p) ==
  /\ p \notin before[p]
  /\ \A q \in before[p] : phase[q] = "done"

\* Until its reply a plan knows all it has written.
KnownInv(p) ==
  phase[p] # "done" =>
    /\ \A r \in records : r.by = p => r.entity \in written[p]
    /\ \A a \in associations : a.by = p => a.link \in written[p]
    /\ reply[p] = NoOne

\* Every record spoken of is found or left to be created.
FindingInv(p) ==
  phase[p] = "finding" =>
    /\ todo[p] \subseteq Present(request[p])
    /\ \A e \in Present(request[p]) \ todo[p] : e \in make[p] \/ Means(p, e, rec[p][e])
    /\ Creates(request[p]) \subseteq todo[p] \cup make[p] \cup reused[p]

MakingInv(p) ==
  phase[p] = "making" =>
    /\ todo[p] \subseteq make[p]
    /\ \A e \in Present(request[p]) \ todo[p] : Means(p, e, rec[p][e])
    /\ make[p] \subseteq todo[p] \cup written[p]

LinkingInv(p) ==
  phase[p] = "linking" =>
    /\ todo[p] \subseteq RequestedLinks(request[p])
    /\ \A e \in Present(request[p]) : Means(p, e, rec[p][e])
    /\ make[p] \subseteq written[p]
    /\ \A l \in RequestedLinks(request[p]) \ todo[p] :
         /\ l \in written[p]
         /\ \E a \in associations : a.link = l /\ a.ends = Joined(p, l)

PlanInv(p) ==
  /\ phase[p] \in {"finding", "making", "linking"} => ~InputError(request[p])
  /\ phase[p] \in {"making", "linking"} => Creates(request[p]) \subseteq make[p] \cup reused[p]
  /\ phase[p] \in {"idle", "finding"} => written[p] = {}
  /\ phase[p] = "idle" => make[p] = {}
  /\ make[p] \subseteq Creates(request[p])
  /\ BeforeInv(p) /\ KnownInv(p) /\ FindingInv(p) /\ MakingInv(p) /\ LinkingInv(p)

\* What a live plan is about to create, no earlier plan has created.
FreshInv(p) ==
  phase[p] # "done" =>
    \A e \in make[p], r \in records : SameKey(r, New(p, e)) => r.by \notin before[p]

IndInv ==
  /\ TypeOK
  /\ request \in Mixes
  /\ \A p \in Plans : PlanInv(p) /\ FreshInv(p)
  /\ OkMeansDone
  /\ WritesAreAsked
  /\ RefusalWritesNothing
  /\ NoSecondCopy

-----------------------------------------------------------------------------
(* What the code says of itself and does not do; it is refuted by a run. *)

\* "Please try again in a moment" (src/src/app/agent/operations.py:2060): the same
\* request, sent again, is not turned away for a record its first attempt made
\* while a link it asks for is missing.
TryingAgainHelps ==
  \A p, q \in Plans :
    /\ p \in before[q]
    /\ request[q] = request[p]
    /\ reply[p] \in {"failed", "partial"}
    /\ reply[q] = "duplicate"
    /\ \E r \in records : r.by = p
    => \A l \in RequestedLinks(request[p]) : \E a \in associations : a.link = l
=============================================================================
