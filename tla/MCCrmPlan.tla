----------------------------- MODULE MCCrmPlan -----------------------------
(***************************************************************************)
(* Every request on its own, and chosen requests in pairs.                 *)
(***************************************************************************)
EXTENDS CrmPlan, TLC

CONSTANTS p1, p2, abc, abd, abe

Asks(intent, company, contact, deal, links, by) ==
  [intent |-> intent,
   action |-> [company |-> company, contact |-> contact, deal |-> deal],
   associations |-> links,
   name |-> [company |-> IF company = "none" THEN NoOne ELSE abc,
             contact |-> IF by \in {"nothing", "detail"} THEN NoOne ELSE abc,
             deal |-> IF deal = "none" THEN NoOne ELSE abc],
   contact_by |-> by,
   company_details |-> FALSE,
   deal_details |-> "none"]

MCSimilar == {<<abc, abd>>, <<abc, abe>>}

Existing(e, n, m) == [entity |-> e, name |-> n, mail |-> m, by |-> NoOne]
MCWorlds ==
  { {},
    {Existing(e, abc, TRUE) : e \in Entities},
    {Existing("company", abd, FALSE), Existing("company", abe, FALSE),
     Existing("contact", abc, FALSE)},
    {Existing("deal", abd, FALSE)} }

\* A plain new contact, which is not for CRMOperations: its plan stays idle.
Silent == Asks("create_contact", "none", "create", "none", {}, "name")

\* What a request may have beside the actions it names and their names.
Extras(x) ==
  {k \in {"mention", "links", "company", "deal"} :
    CASE k = "mention" -> \E e \in Entities : x.action[e] = "none" /\ x.name[e] # NoOne
      [] k = "links" -> x.associations # {}
      [] k = "company" -> x.company_details
      [] OTHER -> x.deal_details # "none"}

\* Requests without updates, under one name, with extras of one kind.  Named
\* associations come with one intent, which counts only where they are missing; two
\* of them and the implied ones make up all three.
OneRequests ==
  {x \in [intent : {"create_deal", "associate_records", "multi_step"},
          action : [Entities -> {"none", "create", "reference"}],
          associations : SUBSET Links,
          name : [Entities -> {abc, NoOne}],
          contact_by : {"nothing", "detail", "id", "name", "email"},
          company_details : BOOLEAN,
          deal_details : {"none", "given", "unclear"}] :
     /\ (x.contact_by \in {"nothing", "detail"}) <=> (x.name["contact"] = NoOne)
     /\ x.associations # {} => x.intent = "multi_step"
     /\ x.associations # Links
     /\ \A k, l \in Extras(x) : k = l}
Updating ==
  {Asks("multi_step", "update", contact, deal, {}, "name") :
     contact \in {"none", "create"}, deal \in {"none", "update"}}
Alone ==
  {[q \in Plans |-> IF q = p THEN x ELSE Silent] : p \in Plans, x \in OneRequests \cup Updating}

\* Plans that want the same records.
Pairs ==
  LET set == {Asks("create_deal", "create", "reference", "create", {}, "name"),
              Asks("associate_records", "reference", "reference", "none", {}, "id"),
              Asks("create_contact", "create", "none", "none", {}, "email")}
  IN [Plans -> set]
AloneAndPairs == Alone \cup Pairs

\* One request sent twice to an empty HubSpot.
Again == {[p \in Plans |-> Asks("create_deal", "create", "none", "create", {}, "nothing")]}
Empty == {{}}

EitherOrder == Permutations(Plans)
=============================================================================
