------------------------------ MODULE CrmReads ------------------------------
(***************************************************************************)
(* Answering a question about the CRM: operations.py (_answer_query and    *)
(* the deal lists) and service.py (analysis of a deal, follow-up review,   *)
(* lead qualification) over the paging loops of tools.py.  A question is   *)
(* read in many calls while other people change HubSpot.  Readers share    *)
(* nothing, so there is one of them, with one question.                    *)
(***************************************************************************)
EXTENDS CrmQueries, FiniteSetsExt

CONSTANTS
  Questions,  \* what may be asked: [kind, filter, record, text]
  Ids,        \* ids of records, in the order of HubSpot's listings
  RecordsOf,  \* per object type and id, what the record may be
  Existing,   \* the ids that exist when the question is asked; the others may
  Gone,       \* the record does not exist
  PageSize,   \* records HubSpot puts on a page
  MaxPages,   \* pages a filtered search reads, 100
  LeadLimit,  \* lead_analysis_limit
  DealBatch,  \* deal_follow_up_batch_size
  LeadBatch,  \* lead_ai_batch_size
  MaxChanges, \* bound on the changes others make while the question is answered
  MaxLoops    \* bound on the pages counted, more than there are cursors

StatusLists ==
  {"all_deals", "open_deals", "closed_deals", "closed_won_deals", "closed_lost_deals",
   "best_chance_deals"}
Searches == {"contact_search", "company_search"}
Related == {"company_contacts", "company_deals", "contact_company", "contact_deals"}
Details == {"contact_details", "company_details", "deal_details"}
Tables == StatusLists \cup {"contact_list", "company_list"} \cup Searches \cup Related \cup Details
Reports == {"deal_follow_up", "lead_qualification"}
Kinds == Tables \cup Reports \cup {"closed_won_revenue", "deal_analysis", "account_summary"}

ObjectOf(kind) ==
  CASE kind \in {"company_list", "company_search", "contact_company", "company_details"} -> "companies"
    [] kind \in {"contact_list", "contact_search", "company_contacts", "contact_details",
                "lead_qualification", "account_summary"} -> "contacts"
    [] OTHER -> "deals"

ASSUME ReadsAssumption ==
  /\ Ids \subseteq Nat \ {0}
  /\ IsFiniteSet(Ids) /\ Existing \subseteq Ids
  /\ \A q \in Questions :
       q.kind \in Kinds /\ (q.filter # Absent => q.filter.limit \in Nat \cup {Absent})
  /\ \A object \in {"deals", "contacts", "companies"} : \A i \in Ids : Gone \notin RecordsOf[object][i]
  /\ \A i \in Ids : \A c \in RecordsOf["contacts"][i] : c = [c EXCEPT !.company = c.company]
  /\ \A i \in Ids : \A d \in RecordsOf["deals"][i] :
       {d.idle, d.amount, d.close} \subseteq Int \cup {Absent, Invalid} /\ d.idle # Invalid
  /\ PageSize \in Nat \ {0} /\ MaxPages \in Nat \ {0}
  /\ LeadLimit \in Nat \ {0} /\ DealBatch \in Nat \ {0} /\ LeadBatch \in Nat \ {0}
  /\ MaxChanges \in Nat /\ MaxLoops \in Nat /\ MaxPages <= MaxLoops

VARIABLES
  (* HubSpot *)
  crm,       \* the records of the type asked about
  changes,   \* how often others have changed them
  (* the reader *)
  question,
  pc,        \* asked, reading, batch, relating, rows, links, assessing, done, raised
  pipes,     \* the pipelines are read, or not needed
  after,     \* the cursor of the next page
  seen,      \* the cursors there have been
  pages,     \* how many pages are read
  got,       \* the entries read: page, id and record
  listed,    \* the loop over the pages is over
  more,      \* has_more: there are contacts beyond the limit
  rows,      \* the entries whose associated records are read
  shown,     \* the entries of the answer
  assessed,  \* the entries the AI was asked about
  failed,    \* those it gave no answer for
  reply,
  (* history *)
  past,      \* what each record has been since the question was asked
  glitched   \* HubSpot has answered with a cursor that is not the next one

crmVars == <<crm, changes, past>>
pageVars == <<after, seen, pages, got, listed, more>>
answerVars == <<rows, shown, assessed, failed>>
vars == <<crmVars, question, pc, pipes, pageVars, answerVars, reply, glitched>>

None == Absent
Records(i) == RecordsOf[ObjectOf(question.kind)][i]
\* Only the lists of deals look at the filter; any other answer goes past it.
Filtered == question.kind \in StatusLists /\ question.filter # Absent
Filtering == Filtered /\ UsesSearch(question.filter)
Searching == Filtering \/ question.kind \in Searches
Single == question.kind \in Details \cup {"deal_analysis"}
Live == {i \in Ids : crm[i] # Gone}
Key(e) == <<e.page, e.id>>

\* Mutant: a refusal without a return.
Answer_on(status) ==
  /\ reply' = status
  /\ UNCHANGED pc

Answer(status) ==
  /\ reply' = status
  /\ pc' = "done"

-----------------------------------------------------------------------------
(* HubSpot's side. *)

\* Someone creates, changes or deletes a record.  What happens after the last call
\* that looks at records makes no difference to the answer.
Change(i) ==
  /\ pc \in {"reading", "batch", "relating", "rows"}
  /\ changes < MaxChanges
  /\ changes' = changes + 1
  /\ \E r \in Records(i) \cup {Gone} :
       /\ r # crm[i]
       /\ crm' = [crm EXCEPT ![i] = r]
       /\ past' = [past EXCEPT ![i] = @ \cup {r}]
  /\ UNCHANGED <<question, pc, pipes, pageVars, answerVars, reply, glitched>>

\* What a page may hold of the records that are left, in the order of ids.
Prefixes(rest) ==
  {ids \in SUBSET rest :
     /\ Cardinality(ids) <= PageSize
     /\ ids = {} => rest = {}
     /\ \A i \in ids, j \in rest \ ids : i < j}

\* The record is one of those related to the one in question.
Linked(r) == question.kind \in Related => question.record \in r.of

\* A page of the listing, of all records or of those related to one; its cursor is
\* the last id, when there are more.
ListPages ==
  LET rest == {i \in Live : i > after /\ Linked(crm[i])} IN
  {[ids |-> ids, next |-> IF ids = rest THEN None ELSE Max(ids)] : ids \in Prefixes(rest)}

Hit(r) ==
  IF question.kind \in Searches THEN question.text \in r.words ELSE Found(question.filter, r)

\* A page of the search.  Its cursor is an offset into the matches there are now;
\* the index may lag, and match a record by what it was.
SearchPages ==
  LET now == {i \in Live : Hit(crm[i])}
      ever == {i \in Live : \E r \in past[i] \ {Gone} : Hit(r)}
      Left(hits) == {i \in hits : Cardinality({j \in hits : j < i}) >= after} IN
  UNION {{[ids |-> ids,
           next |-> IF ids = Left(hits) THEN None ELSE after + Cardinality(ids)] :
             ids \in Prefixes(Left(hits))} : hits \in {now, ever}}

\* The one record of an analysis or of details, which CrmPlan shows how to find.
TheRecord == {[ids |-> {i}, next |-> None] : i \in Live \cap {question.record}}

Pages ==
  CASE Single -> TheRecord
    [] Searching -> SearchPages
    [] OTHER -> ListPages

-----------------------------------------------------------------------------
(* The questions. *)

\* What the answer is about, of what is read.
Concerns(r) ==
  CASE question.kind = "deal_follow_up" -> Due(r)
    [] question.kind = "closed_won_revenue" -> Won(r)
    [] question.kind \in StatusLists ->
         /\ HasStatus(StatusOf(question.kind), r)
         /\ Filtered => Passes(question.filter, r)
    [] OTHER -> TRUE

\* The record of e goes before that of f.
Better(r, s) ==
  CASE question.kind = "deal_follow_up" -> MoreUrgent(r, s)
    [] question.kind = "lead_qualification" -> Score(r) > Score(s)
    [] OTHER -> Filtered /\ Sorted(question.filter, r, s)

\* The order in which entries are read.
ReadBefore(e, f) == e.page < f.page \/ (e.page = f.page /\ e.id < f.id)

\* A list keeps that order where nothing else decides, a report goes by id.
Earlier(e, f) ==
  IF question.kind \in Reports
  THEN e.id < f.id \/ (e.id = f.id /\ e.page < f.page)
  ELSE ReadBefore(e, f)

Before(e, f) ==
  \/ Better(e.rec, f.rec)
  \/ (~Better(f.rec, e.rec) /\ Earlier(e, f))

\* Mutant: the list is cut before it is sorted.
First_unsorted(n, entries) ==
  {e \in entries : Cardinality({f \in entries : Earlier(f, e)}) < n}

First(n, entries) == {e \in entries : Cardinality({f \in entries : Before(f, e)}) < n}

\* The leads the report is about: those worth it, or else the best of the others.
BestLeads ==
  LET worth == {e \in got : Priority(e.rec) # "Low"} IN
  IF worth # {} THEN First(LeadBatch, worth) ELSE First(Min({LeadBatch, 3}), got)

Selection ==
  LET concerned == {e \in got : Concerns(e.rec)} IN
  CASE question.kind = "lead_qualification" -> BestLeads
    [] question.kind = "deal_follow_up" -> First(DealBatch, concerned)
    [] Filtered /\ question.filter.limit # Absent -> First(question.filter.limit, concerned)
    [] OTHER -> concerned

\* The entries that are completed with associated records.
ToComplete ==
  CASE question.kind = "lead_qualification" -> got
    [] question.kind \in Tables \ {"company_contacts", "company_deals", "contact_company"} -> shown
    [] OTHER -> {}

Completed == \A e \in ToComplete : Key(e) \in rows

-----------------------------------------------------------------------------
(* The steps of the reader. *)

\* A filter that cannot be built is refused before HubSpot is asked.
Begin ==
  /\ pc = "asked"
  /\ IF Filtered /\ Unbuildable(question.filter)
     THEN Answer("invalid_filter")
     ELSE pc' = "reading" /\ UNCHANGED reply
  /\ UNCHANGED <<crmVars, question, pipes, pageVars, answerVars, glitched>>

\* Any call of HubSpot may fail, and then there is no answer.
CallFails ==
  /\ \/ pc = "reading" /\ ~(pipes /\ listed)
     \/ pc = "batch" /\ got # {}
     \/ pc = "rows" /\ ~Completed
     \/ pc \in {"relating", "links"}
  /\ Answer("unavailable")
  /\ UNCHANGED <<crmVars, question, pipes, pageVars, answerVars, glitched>>

\* The pipelines are read along with the deals; before them when there is a filter,
\* which may name stages; after it when there is one deal.  Where they are read for
\* the labels of stages only, they are not needed: failing is no failure there.
ReadPipelines ==
  /\ pc = "reading" /\ ~pipes
  /\ question.kind = "deal_analysis" => listed
  /\ pipes' = TRUE
  /\ IF Filtered /\ (UnclearStage(question.filter) \/ TooMany(question.filter))
     THEN Answer("invalid_filter")
     ELSE UNCHANGED <<pc, reply>>
  /\ UNCHANGED <<crmVars, question, pageVars, answerVars, glitched>>

\* Mutant: the loop forgets the cursors it has seen.
Repeats_forgotten(next) == next = after

Repeats(next) == next \in seen

\* Mutant: a full page counts as the last one.
Beyond_full(next, entries) == Cardinality(entries) > LeadLimit

\* has_more of list_contacts_limited.
Beyond(next, entries) == next # None \/ Cardinality(entries) > LeadLimit

\* Mutant: a page that is not full is taken for the last.
Last_short(page) == page.next = None \/ Cardinality(page.ids) < PageSize

Last(page) == page.next = None

\* The leads are cut to the limit in the order in which they are read.
ReadFirst(n, entries) ==
  {e \in entries : Cardinality({f \in entries : ReadBefore(f, e)}) < n}

\* The loop of the leads is over when it has enough of them.
Enough(entries) == question.kind = "lead_qualification" /\ Cardinality(entries) >= LeadLimit

ToNextStage ==
  pc' = CASE question.kind = "lead_qualification" -> "rows"
          [] question.kind \in Related -> "batch"
          [] question.kind = "account_summary" -> "relating"
          [] OTHER -> pc

\* What the loop does with a page.
Turn(page) ==
  LET entries == got \cup {[page |-> pages + 1, id |-> i, rec |-> crm[i]] : i \in page.ids} IN
  /\ pages' = Min({pages + 1, MaxLoops})
  /\ got' = IF Enough(entries) THEN ReadFirst(LeadLimit, entries) ELSE entries
  /\ more' = (Enough(entries) /\ Beyond(page.next, entries))
  /\ \/ /\ Enough(entries) \/ Last(page)
        /\ listed' = TRUE
        /\ ToNextStage
        /\ UNCHANGED <<after, seen, reply>>
     \/ /\ ~Enough(entries) /\ ~Last(page)
        /\ Repeats(page.next)
        /\ Answer("unavailable")
        /\ UNCHANGED <<after, seen, listed>>
     \/ /\ ~Enough(entries) /\ ~Last(page)
        /\ ~Repeats(page.next)
        /\ seen' = seen \cup {page.next}
        /\ after' = page.next
        /\ listed' = (Filtering /\ pages + 1 = MaxPages)
        /\ UNCHANGED <<pc, reply>>

Reading ==
  /\ pc = "reading" /\ ~listed
  /\ Filtered => pipes

ReadPage ==
  /\ Reading
  /\ \E page \in Pages : Turn(page)
  /\ UNCHANGED <<crmVars, question, pipes, answerVars, glitched>>

\* HubSpot answers with a cursor of its own choice.
ReadGlitch ==
  /\ Reading
  /\ ~Single
  /\ \E page \in Pages, next \in Ids :
       /\ next # page.next
       /\ Turn([page EXCEPT !.next = next])
  /\ glitched' = TRUE
  /\ UNCHANGED <<crmVars, question, pipes, answerVars>>

\* Of the related records only the ids are read so far; their records come in one
\* batch, from which those that are gone are missing.
ReadBatch ==
  /\ pc = "batch"
  /\ got' = {[page |-> 1, id |-> i, rec |-> crm[i]] : i \in {e.id : e \in got} \cap Live}
  /\ pc' = "reading"
  /\ UNCHANGED <<crmVars, question, pipes, after, seen, pages, listed, more, answerVars, reply,
                 glitched>>

\* The account summary reads all contacts, asks for the companies of one after the
\* other, and keeps those of the company in question.
Relate(e) ==
  /\ pc = "relating"
  /\ e \in got /\ Key(e) \notin rows
  /\ \A f \in got : ReadBefore(f, e) => Key(f) \in rows
  /\ crm[e.id] # Gone
  /\ IF question.record \in crm[e.id].of
     THEN rows' = rows \cup {Key(e)} /\ UNCHANGED got
     ELSE got' = got \ {e} /\ UNCHANGED rows
  /\ UNCHANGED <<crmVars, question, pc, pipes, after, seen, pages, listed, more, shown,
                 assessed, failed, reply, glitched>>

\* The AI puts it into words; CallFails is also its failure.
Summarize ==
  /\ pc = "relating"
  /\ \A e \in got : Key(e) \in rows
  /\ shown' = got
  /\ Answer("ok")
  /\ UNCHANGED <<crmVars, question, pipes, pageVars, rows, assessed, failed, glitched>>

\* Revenue is refused when one of its deals has an amount that is not a number.
BadAmount == question.kind = "closed_won_revenue" /\ \E e \in Selection : e.rec.amount = Invalid

\* A filter by type is refused when HubSpot's search returned a deal that it took for
\* one of that type and that has no known type when it is read.
BadType ==
  Filtered /\ \E e \in got :
    HasStatus(StatusOf(question.kind), e.rec) /\ Untyped(question.filter, e.rec)

\* An analysis is for an open deal only.
Refusal(d) ==
  IF Closed(d) /\ StagePipeline[d.stage] = d.pipeline THEN "closed_deal" ELSE "stage_unknown"

\* With no links to make, the report is made of nothing; the review also links to
\* deals whose last activity is not known.
NeedsLinks ==
  question.kind \in Reports =>
    \/ Selection # {}
    \/ /\ question.kind = "deal_follow_up"
       /\ \E e \in got : SurelyOpen(e.rec) /\ e.rec.idle = Absent

Choose ==
  /\ IF question.kind = "lead_qualification"
     THEN pc = "rows" /\ Completed
     ELSE pc = "reading" /\ pipes /\ listed
  /\ \/ /\ question.kind = "deal_analysis"
        /\ \E e \in got :
             IF SurelyOpen(e.rec)
             THEN pc' = "assessing" /\ shown' = got /\ UNCHANGED reply
             ELSE Answer(Refusal(e.rec)) /\ UNCHANGED shown
     \/ /\ question.kind # "deal_analysis"
        /\ \/ BadAmount /\ Answer("invalid_hubspot_data")
           \/ BadType /\ Answer("invalid_filter")
        /\ UNCHANGED shown
     \/ /\ question.kind # "deal_analysis"
        /\ ~BadAmount /\ ~BadType
        /\ shown' = Selection
        /\ pc' = CASE question.kind \in Tables -> "rows"
                   [] question.kind \notin Tables /\ NeedsLinks -> "links"
                   [] OTHER -> "assessing"
        /\ UNCHANGED reply
  /\ UNCHANGED <<crmVars, question, pipes, pageVars, rows, assessed, failed, glitched>>

\* The associated records of an entry, read while the record is there.  A lead takes
\* its company from them.
CompleteRow(e) ==
  /\ pc = "rows"
  /\ e \in ToComplete /\ Key(e) \notin rows
  /\ crm[e.id] # Gone
  /\ rows' = rows \cup {Key(e)}
  /\ got' = IF question.kind = "lead_qualification"
            THEN (got \ {e}) \cup {[e EXCEPT !.rec.company = crm[e.id].company]}
            ELSE got
  /\ UNCHANGED <<crmVars, question, pc, pipes, after, seen, pages, listed, more, shown,
                 assessed, failed, reply, glitched>>

\* format_amount of what is not a number raises, and nobody catches it.
RowRaises(e) ==
  /\ pc = "rows" /\ ObjectOf(question.kind) = "deals"
  /\ e \in shown /\ Key(e) \notin rows
  /\ e.rec.amount = Invalid
  /\ pc' = "raised"
  /\ UNCHANGED <<crmVars, question, pipes, pageVars, answerVars, reply, glitched>>

\* hubspot_record_urls.
Link ==
  /\ \/ pc = "links"
     \/ pc = "rows" /\ question.kind \in Tables /\ Completed
  /\ \/ /\ Answer("unavailable")
     \/ /\ question.kind \in Reports
        /\ pc' = "assessing"
        /\ UNCHANGED reply
     \/ /\ question.kind \notin Reports
        /\ Answer("ok")
  /\ UNCHANGED <<crmVars, question, pipes, pageVars, answerVars, glitched>>

\* The review asks for one deal after the other, the leads are asked for together.
Assess(e) ==
  /\ pc = "assessing"
  /\ e \in shown \ assessed
  /\ question.kind = "deal_follow_up" => \A f \in shown \ assessed : ~Before(f, e)
  /\ assessed' = assessed \cup {e}
  /\ \/ UNCHANGED <<failed, pc, reply>>
     \/ /\ question.kind \in Reports
        /\ failed' = failed \cup {e}
        /\ UNCHANGED <<pc, reply>>
     \/ /\ question.kind = "deal_analysis"
        /\ Answer("unavailable")
        /\ UNCHANGED failed
  /\ UNCHANGED <<crmVars, question, pipes, pageVars, rows, shown, glitched>>

\* Mutant: a report is partial when the AI answered nothing at all.
Outcome_all == IF shown # {} /\ failed = shown THEN "partial" ELSE "ok"

Outcome == IF failed # {} THEN "partial" ELSE "ok"

\* All is assessed: the report is answered, the analysis gets its link.
Conclude ==
  /\ pc = "assessing"
  /\ assessed = shown
  /\ IF question.kind = "deal_analysis"
     THEN pc' = "links" /\ UNCHANGED reply
     ELSE Answer(Outcome)
  /\ UNCHANGED <<crmVars, question, pipes, pageVars, answerVars, glitched>>

-----------------------------------------------------------------------------
Init ==
  /\ question \in Questions
  /\ crm \in {c \in [Ids -> (UNION {Records(i) : i \in Ids}) \cup {Gone}] :
                \A i \in Ids : c[i] \in Records(i) \/ (c[i] = Gone /\ i \notin Existing)}
  /\ past = [i \in Ids |-> {crm[i]}]
  /\ changes = 0
  /\ pc = "asked"
  /\ pipes = (question.kind \in (Tables \ StatusLists) \cup {"lead_qualification", "account_summary"})
  /\ after = 0 /\ seen = {} /\ pages = 0 /\ got = {} /\ listed = FALSE /\ more = FALSE
  /\ rows = {} /\ shown = {} /\ assessed = {} /\ failed = {}
  /\ reply = "none"
  /\ glitched = FALSE

Reader ==
  \/ Begin \/ CallFails \/ ReadPipelines \/ ReadPage \/ ReadGlitch \/ ReadBatch
  \/ Summarize \/ Choose \/ Link \/ Conclude
  \/ \E e \in got : Relate(e)
  \/ \E e \in got : CompleteRow(e)
  \/ \E e \in got : RowRaises(e)
  \/ \E e \in got : Assess(e)

Next == Reader \/ \E i \in Ids : Change(i)

Spec == Init /\ [][Next]_vars

FairSpec == Spec /\ WF_vars(Reader)

-----------------------------------------------------------------------------
(* Properties. *)

Replies == {"none", "ok", "partial", "invalid_filter", "invalid_hubspot_data", "closed_deal",
              "stage_unknown", "unavailable"}

ReadTypes ==
  /\ question \in Questions
  /\ crm \in [Ids -> (UNION {Records(i) : i \in Ids}) \cup {Gone}]
  /\ past \in [Ids -> SUBSET ((UNION {Records(i) : i \in Ids}) \cup {Gone})]
  /\ changes \in 0 .. MaxChanges
  /\ after \in Nat /\ seen \subseteq Nat /\ pages \in 0 .. MaxLoops
  /\ listed \in BOOLEAN /\ more \in BOOLEAN /\ glitched \in BOOLEAN
  /\ \A e \in got : e.page \in 1 .. MaxLoops + 1 /\ e.id \in Ids

AnswerTypes ==
  /\ pc \in {"asked", "reading", "batch", "relating", "rows", "links", "assessing", "done",
            "raised"}
  /\ pipes \in BOOLEAN
  /\ rows \subseteq {Key(e) : e \in got}
  /\ shown \subseteq got /\ assessed \subseteq shown /\ failed \subseteq assessed
  /\ reply \in Replies
  /\ pc = "done" <=> reply # "none"

\* The variables keep their types, an answer is given exactly when the reader is done,
\* and nothing is shown, completed or assessed that was not read.
TypeOK == ReadTypes /\ AnswerTypes

Answered == reply \in {"ok", "partial"}

\* What an entry says was so at a time between the question and the answer.  The
\* company of a lead is read later than the rest.
WasSo(e) ==
  IF question.kind = "lead_qualification"
  THEN \E r, s \in past[e.id] \ {Gone} : e.rec = [r EXCEPT !.company = s.company]
  ELSE e.rec \in past[e.id] \ {Gone}

\* What is looked for, and related to what.
Meant(r) == Linked(r) /\ (Searching => Hit(r))

\* A contact of a company's summary is one of the company.
Belongs(r) == question.kind = "account_summary" => question.record \in r.of

\* What is asked for, in the words of the question.
Asked(r) ==
  /\ question.kind = "deal_follow_up" => SurelyOpen(r) /\ r.idle > 2
  /\ question.kind = "deal_analysis" => SurelyOpen(r)
  /\ question.kind = "closed_won_revenue" => r.amount # Invalid /\ ~Lost(r)
  /\ question.kind \in {"open_deals", "best_chance_deals"} => Open(r)
  /\ question.kind \in {"closed_deals", "closed_won_deals", "closed_lost_deals"} => Closed(r)
  /\ question.kind = "closed_won_deals" => ~Lost(r)
  /\ question.kind = "closed_lost_deals" => ~Won(r)
  /\ Filtered =>
       /\ question.filter.status = "open" => Open(r)
       /\ question.filter.status = "closed" => Closed(r)
       /\ question.filter.stages # {} =>
            r.stage \in question.filter.stages \/ StageLabel[r.stage] \in question.filter.stages
       /\ \A c \in question.filter.conditions : r.amount \notin {Absent, Invalid} /\ Matches(c, r.amount)
       /\ question.filter.unassigned => r.owner = Absent

\* An answer shows only what was so since it was asked for, and only what was asked
\* for: whatever HubSpot returned, and whoever changed the records meanwhile.  What
\* was searched by text, or is related, was so at one time and read at another.
RowsWereTrue ==
  Answered => \A e \in shown :
    /\ WasSo(e) /\ Asked(e.rec)
    /\ \E r \in past[e.id] \ {Gone} : Meant(r)
    /\ \E r \in past[e.id] \ {Gone} : Belongs(r)

Untouched(i) == past[i] = {crm[i]} /\ crm[i] # Gone

\* The paging found a HubSpot it can page through: the listing goes by id, whoever
\* changes what; the offsets of a search hold only while nobody does.
Pageable ==
  /\ ~glitched
  /\ Searching => changes = 0
  /\ Filtering => pages < MaxPages

\* A list, a summary, or the sum of the revenue, has every record it is about that nobody
\* touched, and has it once, even though other records were changed, created or
\* deleted between the pages.
NothingMissed ==
  /\ Answered /\ Pageable
  /\ question.kind \in (Tables \ Details) \cup {"closed_won_revenue", "account_summary"}
  /\ Filtered => question.filter.limit = Absent
  => \A i \in Ids :
       Untouched(i) /\ Concerns(crm[i]) /\ Meant(crm[i]) /\ Belongs(crm[i])
         => Cardinality({e \in shown : e.id = i}) = 1

\* A list or a report that is cut shows the first of those it is about: no untouched
\* one that is left out comes before one that is shown, and room is used up.
WorthAsking(c) == c.status # "UNQUALIFIED" /\ Score(c) >= 35
LeadOut(c) ==
  /\ \A e \in shown : WorthAsking(e.rec) => ~WorthAsking(c) \/ Score(c) <= Score(e.rec)
  /\ \A e \in shown : WorthAsking(c) => WorthAsking(e.rec)
  /\ WorthAsking(c) => Cardinality(shown) = LeadBatch
DealOut(d, room) ==
  /\ \A e \in shown : ~Better(d, e.rec)
  /\ Cardinality(shown) = room

MostUrgentShown ==
  Answered /\ Pageable => \A i \in Ids :
    Untouched(i) /\ Concerns(crm[i]) /\ (\A e \in shown : e.id # i) =>
      /\ question.kind = "lead_qualification" => more \/ LeadOut(crm[i])
      /\ question.kind = "deal_follow_up" => DealOut(crm[i], DealBatch)
      /\ Filtered /\ question.filter.limit # Absent => DealOut(crm[i], question.filter.limit)

\* A report of leads that does not speak of more contacts is about all of them that
\* nobody touched, and one that does is about as many as it may be.
MoreIsSaid ==
  Answered /\ ~glitched /\ question.kind = "lead_qualification" =>
    IF more THEN Cardinality(got) = LeadLimit
    ELSE \A i \in Ids : Untouched(i) => \E e \in got : e.id = i

\* A filter that cannot be applied as a whole is refused: nothing is answered as if a
\* part of it were the question, and HubSpot is not asked for what cannot be built.
RefusedUnasked ==
  Filtered =>
    LET f == question.filter
        readable == ~f.unsupported /\ \A c \in f.conditions : c.value \notin {Absent, Invalid} IN
    /\ ~readable => pages = 0 /\ ~pipes
    /\ Answered => /\ readable
                   /\ \A name \in f.stages : \E s \in Stages : name \in {s, StageLabel[s]}

\* A report without the AI's word on one of its entries says that it is partial, and
\* no report is withheld for it.
ReportSaysPartial ==
  question.kind \in Reports /\ Answered =>
    /\ shown = assessed
    /\ reply = "partial" <=> \E e \in shown : e \in failed

-----------------------------------------------------------------------------
(* The inductive invariant behind them. *)

\* What a record is it has been.
CrmInv ==
  \A i \in Ids :
    /\ crm[i] \in past[i]
    /\ past[i] \subseteq Records(i) \cup {Gone}
    /\ changes = 0 => past[i] = {crm[i]}

\* An entry was so, and was meant.
EntryInv(e) ==
  /\ e = [page |-> e.page, id |-> e.id, rec |-> e.rec]
  /\ WasSo(e)
  /\ \E r \in past[e.id] \ {Gone} : Meant(r)

\* The reader has chosen what to show.
Chosen ==
  \/ pc \in {"links", "assessing"} \/ Answered
  \/ pc = "rows" /\ question.kind \in Tables

PhaseInv ==
  /\ pc = "asked" => ~listed
  /\ pc \in {"asked", "reading", "batch"} => rows = {}
  /\ pc \in {"asked", "reading", "batch", "relating", "rows"} => assessed = {} /\ failed = {}
  /\ pc \in {"asked", "reading", "batch", "relating"} \/ (pc = "rows" /\ ~Chosen) => shown = {}
  /\ pc = "batch" => question.kind \in Related
  /\ pc = "relating" => question.kind = "account_summary"
  /\ question.kind = "account_summary" =>
       pc \in {"asked", "relating", "done"} \/ (pc = "reading" /\ ~listed)
  /\ pc = "rows" => question.kind \in Tables \cup {"lead_qualification"}
  /\ pc \in {"batch", "relating", "rows"} \/ Chosen => listed
  /\ Chosen /\ Filtered => pipes
  /\ more => listed /\ question.kind = "lead_qualification"

\* A refused filter goes no further.
FilterInv ==
  Filtered =>
    /\ pc = "asked" => ~pipes /\ pages = 0
    /\ Unbuildable(question.filter) =>
         ~pipes /\ pages = 0 /\ (pc = "asked" \/ reply = "invalid_filter")
    /\ pipes /\ UnclearStage(question.filter) => reply = "invalid_filter"

OneEntryEach == \A e, f \in got : e.id = f.id => e = f
SingleInv == Single => (~listed => got = {}) /\ \A e, f \in got : e = f

\* A listing has read what is behind its cursor.
ListInv ==
  ~glitched /\ ~Searching /\ ~Single /\ reply # "unavailable" =>
    /\ OneEntryEach
    /\ ~listed => \A e \in got : e.id <= after
    /\ \A i \in Ids :
         /\ Untouched(i) /\ Linked(crm[i]) /\ Belongs(crm[i])
         /\ IF listed THEN ~more ELSE i <= after
         => \E e \in got : e.id = i

\* A search of what nobody changes has read the first matches, as many as its offset.
Hits == {i \in Live : Hit(crm[i])}
SearchInv ==
  /\ Searching /\ ~glitched /\ changes = 0 /\ reply # "unavailable"
  /\ Filtering => ~Unbuildable(question.filter)
  =>
    LET read == {e.id : e \in got} IN
    /\ OneEntryEach
    /\ read \subseteq Hits
    /\ ~listed => /\ Cardinality(read) = after
                  /\ \A i \in read, j \in Hits \ read : i < j
    /\ listed /\ (Filtering => pages < MaxPages) => read = Hits

\* The summary has looked at the companies of what it keeps.
BelongInv ==
  question.kind = "account_summary" =>
    /\ \A e \in got : Key(e) \in rows => \E r \in past[e.id] \ {Gone} : Belongs(r)
    /\ Answered => \A e \in got : Key(e) \in rows

LeadInv ==
  question.kind = "lead_qualification" /\ ~glitched /\ more => Cardinality(got) = LeadLimit

ShownInv ==
  /\ \A e \in shown : Asked(e.rec)
  /\ Chosen /\ question.kind # "deal_analysis" => shown = Selection

\* Of what was read, and of the answer made of it.
ReadInv ==
  /\ CrmInv
  /\ \A e \in got : EntryInv(e)
  /\ SingleInv
  /\ ListInv
  /\ SearchInv
  /\ BelongInv
  /\ LeadInv

AnswerInv ==
  /\ PhaseInv
  /\ FilterInv
  /\ ShownInv
  /\ ReportSaysPartial

IndInv == TypeOK /\ ReadInv /\ AnswerInv

-----------------------------------------------------------------------------
(* Liveness, under FairSpec. *)

\* Every question ends, even when HubSpot's cursors lead in a circle.
AnswerComes == <>(pc \in {"done", "raised"})

\* The parts of the work in the order in which a question meets them.
Stage ==
  CASE pc = "asked" -> 0
    [] pc = "reading" -> IF listed THEN 3 ELSE 1
    [] pc = "batch" -> 2
    [] pc \in {"relating", "rows"} -> 4
    [] pc = "links" -> IF question.kind = "deal_analysis" THEN 7 ELSE 5
    [] pc = "assessing" -> 6
    [] OTHER -> 8

\* What HubSpot can ever give for a cursor: an id, or an offset into its matches.
Cursors == Ids \cup 0 .. Cardinality(Ids) + PageSize

\* What is left to do of a part: cursors not followed yet and the pipelines, records
\* without their associated records, entries without the AI's word.
ToDo ==
  CASE pc = "reading" ->
         {<<"page", c>> : c \in Cursors \ seen} \cup (IF pipes THEN {} ELSE {<<"pipelines">>})
    [] pc \in {"relating", "rows"} -> {e \in got : Key(e) \notin rows}
    [] pc = "assessing" -> shown \ assessed
    [] OTHER -> {}

\* The safety half of AnswerComes: the reader never goes round in a circle.  Each of
\* its steps goes on to a later part or does some of finitely much in this one, and
\* whatever others change makes it no more, so a list that keeps growing, a cursor
\* that comes again or a record met twice cannot hold an answer up.
ReaderAdvances ==
  [][IF changes' = changes
     THEN /\ Stage \in 0 .. 7 /\ IsFiniteSet(ToDo)
          /\ Stage' > Stage \/ (Stage' = Stage /\ ToDo' \subseteq ToDo /\ ToDo' # ToDo)
     ELSE UNCHANGED <<Stage, ToDo>>]_vars
=============================================================================
