# HubSpot assistant: specifications

TLA+ specifications of the Slack and web assistant in `src/`, the TLC instances
that check them, and TLAPS proofs. Paths in this file are below
`src/src/app/` unless they start with `src/`.

The program turns chat messages into HubSpot CRM reads and writes. It has no
queue and no scheduler: every request is a coroutine of one uvicorn process
(`src/Dockerfile`), and whatever must survive a request is in PostgreSQL. Its
hard part is that a write to HubSpot and the record of it can never be one
step, that Slack delivers a message more than once, and that a person may
confirm a change twice, late, or for somebody else.

## 1. Inventory

| Component | Code | State | Operations | Hard behaviour |
|---|---|---|---|---|
| Action safety | `services/action_safety.py`, `repositories/action_safety.py`, `db/action_models.py` | tables `pending_actions`, `idempotency_records`, `audit_logs` | create_pending_action, start_direct_action, confirm_and_claim_action, complete_action, fail_action, record_partial_action, recent_actions | two claims of one key, expiry, settling what is settled |
| Agent | `agent/service.py`, `agent/operations.py` | locals of a handler: the claimed action, `plan.written` | create directly, run a plan, propose, confirm, update, delete; reading flows | HubSpot and the tables disagree after a lost answer, a crash, a failing transaction |
| Tool registry | `agent/tools.py` | none | resolve a record by name, list and search with paging, build record URLs | paging that repeats a cursor, reads truncated in silence |
| HubSpot clients and services | `integrations/hubspot/*`, `services/hubspot_*.py` | none | one HTTP call per method, 15 s timeout, no retry | an answer that is lost after HubSpot acted |
| OAuth | `services/hubspot_oauth.py`, `services/hubspot_contacts.py` (token provider), `repositories/hubspot_oauth.py` | tables `hubspot_oauth_states`, `hubspot_oauth_tokens`; refresh locks in memory | start, exchange_code, refresh, get_access_token | one refresh for many readers, a refresh racing a reconnect, single-use state |
| Slack | `api/slack.py`, `integrations/slack/*` | the published App Home view | events, interactions, background reply and publish | acknowledged before done, publishes that overtake each other, views that are shown long after they were made |
| Web assistant | `api/assistant.py`, `web/*` | signed cookies | open a link, ask, list recent actions | a request repeated by the page |
| Interpretation | `agent/extraction.py`, `ai/*`, `agent/schemas.py` | none | classify a message, extract names and values | the same message understood in two ways |
| CRM questions | `agent/operations.py`, `agent/service.py`, `agent/crm_query.py`, `agent/leads.py` | what was read so far | lists, searches, details, revenue, analysis of a deal, follow-up review, lead qualification | read in many calls while others change HubSpot; filters applied twice, by HubSpot and by the code |
| Charts, REST reads | `services/quickchart.py`, `api/hubspot_*.py` | none | pure or read-only | boundaries |

How they interact: Slack and the web call the agent with a tenant, an actor, a
message and an idempotency basis. The agent interprets it and either reads, or
claims an action in the action safety tables, writes through the tool registry
(whose services ask the token provider for a token), settles the action, looks
up record URLs (another token) and replies. Requests share nothing in memory
but the event loop; they meet in the tables and in HubSpot.

What makes each part correct:

* Action safety and agent: an action is executed by one request and at most
  once; an update or delete only for the person it was offered to, confirmed in
  time; tables, reply and HubSpot agree; a started request ends and a claim is
  settled.
* OAuth: a state connects once and only its own tenant; a returned token is
  live; the newest grant is the stored one; a lock is always released.
* Plans: everything is resolved before anything is written, and every link that
  was asked for joins two records.
* Slack and web: a claimed create is answered once; what a screen says of an
  action is true for as long as it is looked at; a request that was answered
  leaves no "working" behind; a table of many rows leaves room for the rest of
  its view.
* Questions: the answer shows what was so and was asked for, misses nothing
  that nobody touched, is cut where it matters least, and says when it is
  partial or when there is more.

## 2. Modules

| Module | What it is |
|---|---|
| `OnceOnly` | abstract: one action is offered or taken, allowed a number of writes, has effects, is settled |
| `PlanRun` | abstract: a request about several records decides on steps, takes each once, and answers how far it came |
| `PlanRunProofs` | the theorem about `PlanRun` |
| `ActionSafety` | the three tables; one operator per repository statement and per service transaction |
| `AgentMutations` | extends `ActionSafety` with the request handlers, HubSpot and the process; properties, the inductive invariant, the mappings to `OnceOnly` and `PlanRun` |
| `AgentMutationsProofs` | the theorems about `AgentMutations` |
| `MCAgentMutations` | two people of one workspace, one of another, for TLC |
| `OAuthTokens` | a tenant's HubSpot connection: states, callbacks, token refresh under locks, a clock |
| `OAuthTokensProofs` | the theorems about `OAuthTokens` |
| `MCOAuthTokens` | two callers of one provider and one of another, two callbacks, for TLC |
| `CrmPlan` | a request about several records: what it wants, its checks, resolution, creation and linking, while other plans and people change HubSpot |
| `CrmPlanProofs` | the theorems about `CrmPlan` |
| `MCCrmPlan` | every kind of request on its own, three in pairs, four contents of HubSpot, for TLC |
| `CrmPlanRuns` | extends `CrmPlan` with the history of each plan's writes, and maps it to `PlanRun` |
| `CrmPlanRunsProofs` | the refinement theorem |
| `MCCrmPlanRuns` | the same instance with the histories |
| `Surfaces` | extends `ActionSafety` with what people do in Slack and on the web page, the handlers that serve them, and the screens on their way |
| `SurfacesProofs` | the theorems about `Surfaces` |
| `MCSurfaces` | two people, five casts of up to three gestures, for TLC |
| `CrmQueries` | pure: which deals a filter selects on either side, the status of a deal, the follow-up classes, the score of a lead |
| `CrmReads` | a question about the CRM and its answer: paging loops, batches, selection, reports, while others change HubSpot |
| `CrmReadsProofs` | the theorems about `CrmReads` |
| `MCCrmReads` | twenty questions, three records of each type, for TLC |

### ActionSafety

A column of a table is a function of the action. An operator that primes
variables is one `UnitOfWork`, which commits once, so it is atomic.
`DirectId` stands for `direct_action_id`, the hash of tenant, action type and
idempotency key, which is a record of the three: equal exactly when the hashed
values are. `ProposalIds` are the uuids of `create_pending_action`. `Claimable`
is the unique key of `idempotency_records`; PostgreSQL's `ON CONFLICT DO
NOTHING` waits for a concurrent insert of the key, so a claim is one step.
A confirmation compares `expires_at` with a clock that the code reads before it
asks the database (`repositories/action_safety.py:78`): `Confirmable` and
`ConfirmAndClaimAction` take that time as `at`, and the row they look at is the
one their row lock gave them, when the transaction commits.
`Updatable` is the `WHERE` of `set_status`; `complete_action` raises and rolls
back when it matches nothing, `fail_action` and `record_partial_action` go on,
as the code does.

### AgentMutations

`pc[r]` is the await at which a handler stands:

| place | code |
|---|---|
| `preparing` | claimed, resolving records (`_prepare`, reads only) |
| `writing` | before the next HubSpot write |
| `plan_url` | a plan looks up the URL of what it just created (`_execute`) |
| `recording` | before `complete_action` |
| `answering` | looking up the URL for the reply |
| `failing` | before `fail_action` or `record_partial_action` |
| `done`, `lost` | replied; or an exception or the death of the process ended it |

A HubSpot write has three outcomes: acknowledged, refused, or carried out
without an acknowledgement (the client's timeout). `planned` is the number of
writes an action consists of, `applied` the number HubSpot carried out: both
are for the properties, the code does not know the second. A message is taken
for any direct type at each delivery, because the interpretation (a language
model, or the rules when it is down) is not a function of the message.
`Crash` takes all live handlers, since there is one process. The tables stay.
Any person may confirm any id; the owner alone gets through. The time of a
confirmation's clock is any at which the action could have been offered already
(`Since`) up to now, so that it may commit long after its action expired.

Abstracted: what is written and said (properties, cards, wordings), which
record a name means (`CrmPlan`), the reading flows (`CrmReads`; they touch none
of this state), and the kinds of refusal, which lead to the same places. `unavailable` stands for every
reply that says a change was not made.

### OAuthTokens

Callbacks (`exchange_code`) and callers (`get_access_token`) are handlers, each
at an await:

| place | code |
|---|---|
| `waiting` | a caller read an expiring row and waits for the lock of its provider and tenant |
| `refreshing`, `exchanging` | the request to HubSpot's token endpoint is on its way |
| `receiving` | HubSpot issued the tokens, the answer is on its way |
| `saving`, `flushing` | `save_token` before and after `session.get` |
| `returned`, `connected`, `failed` | a token was returned; the callback was answered; an error |

A grant (what a user allowed once, with its refresh token) is named by the
callback that obtained it, so `account[k]` is the account of grant `k` and a
row carries both the account column and the grant whose tokens it holds. Both
are needed: `save_token` is split at `session.get` because the later commit
updates only the columns that differ from what was found, which is how the two
can part. `until` is when HubSpot lets the access token die, `expires_at` what
the program stores. `starter` and `saver` are history: who was given a state,
and which handler saved a row last.

Each `HubSpotAccessTokenProvider` has its own locks, and the application builds
a provider per request and service, so callers of different providers exclude
each other in no way; `ProviderOf` says who shares one. Taking the lock and
reading the row under it are one step: only the two together lead anywhere, and
what others do between them could as well be done before. `Crash` drops
handlers and locks; the tables stay.

Left out: `HubSpotOAuthService.refresh`, which nothing in the source calls,
scopes and encryption.

### CrmPlan

A request is what `validate_extraction` can hand to `CRMOperations.respond`: an
intent, an explicit action per entity, the named associations, the names, by
what a contact is identified (`detail` is a property that names nobody), and
whether details of a company or deal were given. `Actions`, `RequestedLinks`
and `InputError` are the pure functions of `operations.py` in their order. A
plan then goes through phases:

| phase | code | `todo` |
|---|---|---|
| `idle` | not yet asked | |
| `finding` | `_prepare`, one record a step | entities still to resolve |
| `making` | the creations of `_execute` | entities still to create |
| `linking` | the links of `_execute` | links still to make |
| `done` | replied | |

`rec`, `make`, `reused` and `written` are the fields of `_Plan`. `records` and
`associations` are HubSpot's; `by` tells which plan made them and is for the
properties. `associations` only grows, so it says what was ever linked.
`before` is history too: the plans that were done when a plan was asked for.

A search sees every record created before it; HubSpot's search index may lag,
which is not modelled. The fuzzy score of `_resolve_text_match` is the relation
`Similar` between a name and those near enough to it; of near-matches with
different names one may be nearest or none may (`StandsOut`). A search for an
email address returns at most one contact. A contact id is taken as it is. The
name of a contact with an email address stands for the address. Resolution of
one entity is one step, as it only reads; the check for an email address in
`create_contact` and the creation are two, and other plans may come between.
Every creation and link may be refused, or carried out without an answer, and
a creation may be followed by a failing URL lookup. Any record may vanish at
any time (`Vanish`). A plan that a crash cuts off is one that takes no more
steps: the specification has no fairness. The claim that guards a plan, its
tables and its redelivery are the matter of `AgentMutations`.

The pipeline, stage and type of a deal are resolved in the step that finds the
deal: they can only refuse it or fail. A request with an update ends in a
proposal or a question; the proposal itself is in `AgentMutations`.

### PlanRun and CrmPlanRuns

`PlanRun` is what the two models of a request about several records have in
common, and what its user may rely on: the plan is decided before anything is
written (`Decide`), every step changes HubSpot once at most (`Carry`), nothing
is written after a step whose outcome is unknown (`known` and `carried` differ
then, and `Carry` asks that they do not), and the answer tells how far the plan
came. It has no tables, no records and no other requests.

`AgentMutations` implements it with counted steps: the n-th write is step n, so
`PlanDecided` is `1 .. planned`, `PlanCarried` is `1 .. applied`, and requests
that carry out no plan stay absent. There the point is what happens around a
plan: redeliveries, crashes, failing transactions. `CrmPlan` implements it with
the entities it creates and the links it makes; there the point is which steps
a plan takes while other plans and people change HubSpot. `CrmPlan` keeps no
record of what HubSpot carried out for a plan: `CrmPlanRuns` adds `decided` and
`carried`, two history variables that follow its steps and hinder none.

### Surfaces

A gesture is what a person does: open the App Home, type without sending
(`draft`), send nothing (`blank`), submit, press a confirm button, post in a
channel, send on the web page, load the page. Each delivery of a gesture has a
handler; a post and an opened tab can be delivered twice. `pc` is where it is:

| place | code |
|---|---|
| `looking` | `_publish_home`, reading the recent actions |
| `building` | they are read, the clock is not yet (`build_home_view`, `recent_item`) |
| `sending` | `views.publish`, `chat.postMessage`, or the response to the page |
| `thinking` | the agent, before it claims anything |
| `confirming` | a confirmation has read the clock, its transaction is not through |
| `working` | the agent, with a claimed action |
| `done`, `lost` | finished; or an exception or the death of the process ended it |

The agent in the middle is reduced to its `ActionSafety` transactions and its
reply. A submitted request publishes twice, so `stage` says which view a handler
is at: `working` is the notice, `final` the result, `only` a view without a
request, `answer` the page's response. A view is a record of its handler, its
stage, the reply, and what it says of each action (`told`); `wire` holds those
that were sent and not shown. Slack may show a view whose publishing timed out
(`SendFails`), and a late view may come after a newer one (`Late`, `Arrives`).
`Lapsed`, `HomeWord` and `PageWord` are the words of `_recent_activity_blocks`
and `recent_item`, which are not the same. `acked` and `posted` are history.

Rows and clock are two reads, on both sides. A list takes the status of the rows
first (`LookUp` fills `recent`) and the clock only when it is built (`Build`); a
confirmation takes the clock first (`BeginConfirm` fills `began`) and the row at
its commit (`Confirm`). Anything may happen between the two. So a list may say
"expired" of an action that a confirmation begun in time then takes, and that is
completed in the end; TLC reaches it, and `ActivityIsTrue` says of such an action
no more than that it was confirmed in time or not at all.

`Upto` to `ViewBlocks` count the blocks of a home whose answer is a table, as the
code builds them: the heading, the pieces of the text, the rows, the line that
says that rows are missing, and the rest of the home. A table is given by the
pieces of its text and by what its first rows take. Answers of other kinds have
no limit of their own and are not counted (section 3, "Noted while modelling").

Left out: requests that fail the signature, the workspace mapping or the web
session, which change nothing; the wording and the layout; the list's limit of
five, which the bounds never meet.

### CrmQueries and CrmReads

`CrmQueries` has the data: a deal has a stage, pipeline, priority, type, owner,
amount, close date and days without activity, a contact what its score looks
at; a property may be `Absent` or, for numbers, `Invalid`. A filter is what
`build_deal_filter` is given, with `Unbuildable`, `UnclearStage` and `TooMany`
its three refusals. `Found` is the search HubSpot does, `Passes` what
`apply_deal_filter` and the status leave. `Untyped` is the deal that
`apply_deal_filter` does not pass over but stops at: the search took it for one
of the type asked for, and when it is read its type is blank or unknown, so the
whole filter is answered as invalid (`BadType` in `CrmReads`).

`CrmReads` is one reader with one question, a kind with perhaps a filter, a
record or a text; readers share nothing. `pc` is its part of the work:

| place | code |
|---|---|
| `asked` | the filter is built and resolved (`Begin`) |
| `reading` | the pipelines and the pages, in either order as the code has it (`ReadPipelines`, `ReadPage`) |
| `batch` | ids of related records are read, the records are not |
| `relating` | `contacts_for_company`, the companies of one contact after the other; then the AI's summary |
| `rows` | associated records of each row or lead, in any order (`_bounded_map`) |
| `links` | `hubspot_record_urls` |
| `assessing` | the AI, for one entry after the other |
| `done`, `raised` | answered; an exception nobody catches |

`got` are the entries read, each with its page, so that a record met twice is
there twice. HubSpot's listing goes by id and its cursor is the last id
(external). The cursor of a search is an offset, and the index may find a record
by what it was (`ever` in `SearchPages`). `ReadGlitch` is a cursor of any other
kind. The account summary is the one that asks for contacts; without them it
reads nothing but the company. `Change` is everybody else; `past` is what each record has been since the
question. `Before` is the order of a list or report, `First` the cut.

Abstracted: how words become a question and a filter, calendar arithmetic
(`close` and `idle` are numbers), the texts. `ListPages` stands for the listings
of all three types and of associations, `SearchPages` for all searches.
`CompleteRow` is one step for the two calls that a lead takes (the ids of its
companies, then the company): what it reads is the answer of the second, and a
failure of either is `CallFails`.

## 3. Runs

| Run | Instance | Shows |
|---|---|---|
| `safety` | 3 requests, 1 message, 1 proposal, 3 people in 2 workspaces, plans of up to 2 writes, clock 0..2, TTL 1; symmetry on requests | the type invariant, seven invariants (`ClaimedOnce`, `ReplyTellsWrites` and `ClaimHasHandler` of claims and replies, four of writes and tables), `SettledIsFinal`, and the refinement of `OnceOnly` and of `PlanRun` |
| `liveness` | 2 requests, clock 0..1, no symmetry | `RequestsEnd`, `ClaimsSettle` |
| `unavailable_after_write` | 2 requests | refutes that "unavailable" means not written |
| `duplicate_unanswered` | 2 requests | refutes that a dropped duplicate was answered |
| `oauth_tokens` | 1 tenant, 2 states, 2 callbacks, 3 callers on 2 providers, clock 0..3, lifetime 3, margin 2, latency 1, state TTL 1; symmetry on callbacks, states and the callers of one provider | the type invariant, `ConnectionIsAuthorised`, `RefreshIsAtomic`, `ReturnedTokenLive` |
| `oauth_tenants` | 2 tenants, 2 accounts, 2 callers of one provider, clock 0..1, no symmetry | `ConnectionIsAuthorised` across tenants, `WaitersReturn` |
| `reconnect_lost` | 1 caller, 2 callbacks | refutes that a completed authorization stays until the next |
| `account_twice` | 2 tenants, 3 callbacks, 1 caller | refutes that an account serves one tenant |
| `crm_plans` | 2 plans, 3 names of which two are near the third, 4 worlds; every request of three intents without updates under one name alone, with extras of one kind, mixed updates, 3 requests in pairs; symmetry on plans; `CrmPlan` with its histories (`RunsSpec`) | the type invariant, `OkMeansDone`, `WritesAreAsked`, `RefusalWritesNothing`, `NoSecondCopy`, and the refinement of `PlanRun` |
| `try_again` | one request sent twice to an empty HubSpot | refutes that trying again helps |
| `surfaces` | 2 people, 3 deliveries in 5 casts, TTL 1, clock 0..1, 1 late view, a table of 34 rows under 3 pieces of text, limits 70 and 100 | the type invariant, `ActivityIsTrue`, `WorkingViewEnds`, `CreateAnsweredOnce`, `TablesFit`, `AwaitingCanBeConfirmed`, `WorkingViewGoes` |
| `crm_reads` | 20 questions, 3 records of a type each with up to 2 forms, pages of 2, 1 change, limits 1 or 2 | the type invariant, `RowsWereTrue`, `NothingMissed`, `MostUrgentShown`, `MoreIsSaid`, `RefusedUnasked`, `ReportSaysPartial`, `AnswerComes` |

Bounds. The actions of a message or a proposal meet others only through their
own rows, so one message (which has two direct ids) and one proposal show all
interactions; three requests are what a proposal needs to be offered, confirmed
and confirmed again, and what a message needs to be delivered, lost and
delivered again while another handler runs. Two writes are the least for which
a plan can be partial. With TTL 1 and the clock up to 2, a confirmation can
come before, at and after the expiry. One contact change and one record change
are both code paths of a confirmation that differ (the contact changes look up
the URL inside the `try` of the write). A request serves one message and then
stops, so every run ends: deadlock is not checked.

For OAuth, two callers of one provider contend for a lock and the third shows
what the lock does not cover; two callbacks are a connection and a
reconnection, and a third is needed only to connect the second tenant in
`account_twice`. With lifetime 3, margin 2 and latency 1 within a clock of 3, a
token is fresh, then within the margin while HubSpot still takes it, then dead,
and an answer can arrive a tick late. `oauth_tenants` uses lifetime 2, margin 1
and latency 0, the least for which a token is first fresh and then refreshed.

For plans, the functions on a request look at one request only, so requests are
enumerated alone, and the three in pairs are those whose steps meet: a new
company and deal with a known contact; a link between known records; a new
contact with an email address and its company. The worlds are empty, hold each
record under the asked name, hold a contact and two companies near the asked
one, and hold a deal near it, so that a search finds nothing, one record, or
cannot decide. What a request has beside its actions and their names (a record
it only mentions, named links, details of a company, details of a deal) comes
one kind at a time: a mention counts as a reference, which a request can also say
outright, and the other kinds meet in no condition of the code. Named links
come with one intent, as the intent counts only where they are missing, and at
most two at a time; the implied links make up all three. The intents
`create_contact` and `create_company` only imply an action that a request can
name, and the former is among the pairs.

For the surfaces, a cast is a set of gestures whose handlers meet: a request and
the confirmation of what it offers, a request and the tab opened meanwhile, a
post delivered twice while a colleague loads the page, two views without a
request, and a post while its author sends on the page and loads it. In three
casts one handler is of a gesture that is never delivered (`nothing`). One late
view is the least for one to come after a newer one. With TTL 1 and the clock up
to 1 an offer expires while a list is built, while its view is on its way, and
between the clock and the commit of its confirmation. The limits are the code's
own and Slack's; 34 rows of one block under three pieces of text are two more
than fit, and if no room were kept for the line about them it would pass the limit.

For the questions, three records with pages of two give a full page and a
partial one, and a record that appears, disappears or changes before, on and
behind the page boundary; limits of one and two cut what was read. Two pipelines
share the label of a stage, one stage does not say whether it is closed, and an
amount is missing or not a number. One deal has a type until it is changed to a
form without one, which the lagging index still finds by its type. `MaxPages` 3 is reached only by cursors that
go astray. One change separates what the properties tell apart, a record that
was touched and one that was not; the proofs are for any number.
`NothingMissed` asks nothing of a search while something is changed, as its
offsets move then; that a listing goes by id is an assumption about HubSpot.

Fairness. `FairSpec` asks that a handler which can go on does (`WF` of
`Continue(r)`). The HTTP clients have a timeout (`core/config.py`,
`request_timeout_seconds`), the database driver ends its waits, and the event
loop runs what is ready; nothing is asked of arrivals, the clock, crashes, or
of which outcome a call has. `OAuthTokens` has the same fairness per handler;
for a handler that waits it rests on `asyncio.Lock` serving its waiters in the
order they came and on "async with" giving the lock back however the body ends.
In `Surfaces` it is asked of each handler's own steps, not of people, of late
views or of the clock. `WorkingViewGoes` therefore speaks of the receiver
acknowledging both views; a notice that timed out may be shown at any time. In
`CrmReads` it is asked of the reader and not of `Change`.

Findings.

1. A contact update or delete that HubSpot acknowledged and `complete_action`
   recorded is answered with "I couldn't update the HubSpot contact right now."
   when the URL lookup for the reply raises (`agent/service.py:310`): it stands
   in the `try` of the write, so `fail_action` runs on a completed action.
   `LedgerAgrees` names the resulting rows as the only exception to its story.
2. `api/slack.py:127` says of a duplicate that the first delivery replied. The
   claim comes before the work, so a first delivery that died did not.
3. A refresh that is in flight while the user reconnects saves the tokens of
   the old grant over the new ones (`services/hubspot_contacts.py:172` does not
   look whether the row is still the one it refreshed), after
   `api/hubspot_oauth.py:76` said that the authorization is complete.
4. In the same race the update leaves out `hubspot_account_id` when it equals
   what `session.get` found, and a callback for another account may have
   committed in between: the row then has the account of one grant and the
   tokens of another, and the unique constraint (`db/oauth_models.py:21`) lets a
   second tenant connect the first account.
5. A plan whose deal was created and whose link then failed is answered with
   "HubSpot returned an error. Please try again in a moment."
   (`agent/operations.py:2060`). The same request sent again is refused as a
   duplicate of that deal (`agent/operations.py:550`), so trying again never
   makes the link. Records that are not deals are reused, and for them the
   advice works.

Noted while modelling, without a line of the repository that says otherwise and
so without a run:

* `agent/operations.py:1530`: a filter's limit cuts by amount (or as read) before
  the deals with the best chance are sorted by probability, so the highest
  probability may be cut off. `MostUrgentShown` is about the filter's order.
* `agent/operations.py:1197`: a filter is taken from any message about deals, but
  only the deal lists apply it; revenue, reviews and leads go past it.
* `agent/operations.py:1464`: the flag that a search stopped after 100 pages is
  dropped. HubSpot ends a search at 10,000 results, the same place.
* `agent/operations.py:2022`: `format_amount` raises on an amount that is not a
  number, where nobody catches it (`RowRaises`).
* One record that vanishes between its page and its associations fails a whole
  list; the batch read of related records skips it instead.
* `services/quickchart.py:403`: a stage label that two pipelines share is listed
  twice with the sum of both, and a funnel is cut to the first stages of the
  pipelines.
* `agent/crm_query.py:526`: one deal without a known type among those that a search
  by type returned (the index lags) makes the filter answer "I couldn't match the
  deal type ''", as if the user had named a wrong one (`BadType`).
* `repositories/action_safety.py:78`, `integrations/slack/home.py:528`: a list may
  call an action expired that is confirmed and carried out afterwards. The
  confirmation was begun in time and commits late; the list does not wait for it.
* `integrations/slack/home.py:303-375`: an answer that is no table has no limit
  before `blocks[:100]`. A text of very many pieces, or very many record links,
  push the end of the home off, the input field included; so does a text above a
  table that leaves no room for the line about missing rows.
* Two views of one App Home can overtake each other, as `views.publish` is called
  without a hash: the older may stay. What it says of the actions stays true.

## 4. Proofs

`PlanRunProofs` proves of `PlanRun` itself that its answers are true: "ok" that
the whole plan was carried out, "existing" that nothing was, "partial" that
something was, "failed" that one step at most was, the one whose answer was
lost. What implements `PlanRun` inherits it.

`AgentMutationsProofs` proves, for any number of requests, messages, proposals,
people and writes, that the specification keeps `TypeOK`, `AppliedAtMostOnce`,
`ExecutionIsAuthorised`, `LedgerAgrees`, `OutcomeTellsWrites`, `ClaimedOnce`,
`ReplyTellsWrites` and `ClaimHasHandler`, that `SettledIsFinal` and
`HandlersAdvance` hold of every step, and that it implements `OnceOnly` and
`PlanRun`. The assumptions are those `ActionSafety` and `AgentMutations` name:
senders have a tenant, messages have a sender, the ids of proposals and of
creates differ (uuid4 against the `direct_` prefix), the TTL is positive and a
plan may write something.

The argument. None of these is inductive: that a record is written at most
once depends on where the one handler that may write stands and on how much of
`written` HubSpot has. `IndInv` adds that: `RequestInv` says, for each place of
a handler, how its action's row, `written`, `applied` and `planned` relate, and
`ActionInv` says what holds of an action whatever happens. A step changes one
request and one action, and by `OneExecutor` no other live request is about
that action; the lemma `StepIsLocal` turns this into one obligation per
action of the specification: check the moved request and its action, nothing
else.

What a request is told has to outlive its handler, and that needs more. `IndInv`
says nothing of a request that is done or lost, while its action may still be
settled, redelivered and confirmed again. `ClaimInv` does: a request that once
got a claim is the only one that ever does (`ClaimedOnce`, which contains
`OneExecutor`, as it speaks of finished requests too); its action stays
claimed, and what its reply said of the writes stays true (`RepliedInv`), as
nobody else can write for that action; and a row that stays "confirmed" has a
handler, or one that died, or a direct flow that answered without recording the
completion (`ClaimHasHandler`). `ClaimInv` is inductive relative to `IndInv`;
each later step of a handler runs on, loses it, or answers with what is true
(`ContinueAnswers`), each first transaction claims, offers or refuses
(`ArriveMoves`). Both invariants were checked with TLC on the instance of
`safety` before they were proved.

Over both invariants the refinement of `PlanRun` is a step-by-step matter:
`OneRunMoves` and `AllRunsKept` reduce a step to the plan that moves, a step of
a plan's handler is `Decide`, `Carry`, `Finish`, `GiveUp`, `Decline` or `Die`
(`RunningRefines`), and `Crash` is one `Die` of all plans that run.

`HandlersAdvance` is the safety half of `RequestsEnd`: the steps a handler has
left (`StepsLeft`, two for each write and a few around them) never grow, and
become fewer with each step it takes. So no combination of failures, lookups
and other requests makes a request last longer than `5 + 2 * MaxWrites` of its
own steps; that it is given them is the fairness that TLC assumes. It is proved
and not part of a run; TLC finds it violated when a failed action is prepared
again (`Fail_restarted`).

`OAuthTokensProofs` proves, for any number of tenants, states, callbacks,
callers and providers and any lifetime and TTL, that `OAuthTokens` keeps
`TypeOK`, `ConnectionIsAuthorised` and `RefreshIsAtomic` and that
`ReturnedTokenLive` holds of every step. It assumes that each caller has a
provider, that callers, callbacks and the null value differ, and
`Latency <= Margin`: an answer is dated by its arrival, so the one minute of
`get_access_token` has to cover what the answer took, which
`request_timeout_seconds` bounds. `IndInv` adds where authority lives while it
travels (`StateInv` for a state nobody has presented, `CallbackInv` and
`CallerInv` for tokens in a handler's hands, `RowInv` for the table), that a
refreshing caller holds its lock, and that every stored token is dated at most
`Latency` late. `LockHasHolder` follows from the same invariant: whoever holds a
refresh lock is between its read and the end of its `async with`, under its own
provider and for the tenant it asked, whatever ended other refreshes. It is what
`WaitersReturn`, which is only model-checked, rests on.

`CrmPlanProofs` proves, for any number of plans, any names, any near-match
relation, any requests and any content of HubSpot, that `CrmPlan` keeps
`TypeOK`, `LinksHaveRecords`, `OkMeansDone`, `WritesAreAsked`,
`RefusalWritesNothing` and `NoSecondCopy`. It assumes that no record at the
start is a plan's, that near-matches are pairs of names, and that a request has
a name for its contact exactly when it identifies one. `IndInv` adds what is
settled in each phase: `FindingInv` that a record is found, left to be created,
or still to do; `MakingInv` and `LinkingInv` what remains of that; `KnownInv`
that a plan before its reply knows all it has written, which is why a plan that
wrote nothing may be called refused; `FreshInv` that no earlier plan has
created what a live plan is about to create, which holds because the search
came after the earlier plan was done. Again `StepIsLocal` reduces a step to the
plan that moves: other plans only see records and links appear that bear its
name, and those disturb none of their parts (`OthersStayGood`).

`CrmPlanRunsProofs` proves, under the same assumptions, that `CrmPlan` with its
histories implements `PlanRun`: a plan takes no step it had not decided on
before the first write, none twice, none after one whose outcome is unknown, and
its reply tells how far it came. The argument is in `ProgressInv`: what is
carried out is what the plan knows of until its reply, and what is left in
`todo` is none of it; so every write of a step is new (`NewRecord`, `NewLink`,
which rest on `KnownInv` of `CrmPlan`), and the plan that has nothing left has
carried out all of it.

`SurfacesProofs` proves, for any people, gestures, deliveries, limits and
tables, that `Surfaces` keeps `TypeOK`, `ActivityIsTrue`, `WorkingViewEnds`,
`CreateAnsweredOnce` and `TablesFit`, and that `AwaitingCanBeConfirmed` holds
of every step. It assumes that each message has its author as its sender, that
clicks and requests of the page come once (posts and opened tabs may repeat),
that a table has a text of a piece or more and each further row takes a block or
more, and that a home has room for the largest table and the 23 blocks around it. `IndInv` adds what a list said of an
action still fits its row (`LineInv`, of the table, of screens under way and of
screens shown), what a handler may hold at each place (`HandlerInv`), that one
notice of a handler is under way (`OneNotice`) and that one delivery holds a
create (`OneHolder`). The argument has two halves: the rows only go on in their
life (`TablesGoOn`), so a line that was true stays true; and a step moves one
handler and adds or shows one screen (`StepIsLocal`). The reading of the rows and
that of the clock are bridged by `ReadInv`: what a handler read is not taken back
(a settled action is still settled, a claimed one still claimed), although
"pending" need not be so any more. "Expired" therefore rests on the other side, on
`confirmed_at < expires` of every claimed proposal (`RowInv`), as the time of a
confirmation is the one it compared. `TablesAreWhole` (`TablesFit`) needs no
invariant: it counts the blocks, for any table whose text leaves room for the line
about missing rows, which is its hypothesis; without it the claim is false of the
code.

`CrmReadsProofs` proves, for any records, questions, filters, page sizes, limits
and number of changes, that `CrmReads` keeps `TypeOK`, `RowsWereTrue`,
`NothingMissed`, `MostUrgentShown`, `MoreIsSaid`, `RefusedUnasked` and
`ReportSaysPartial`. It assumes that ids are finitely many naturals and that
amounts, dates and days are integers, absent or invalid. `IndInv` adds `ReadInv`,
of what was read: a listing has all untouched records up to its cursor
(`ListInv`), a search of what nobody changes has the first matches, as many as
its offset (`SearchInv`), a summary has looked at the companies of what it keeps
(`BelongInv`); and `AnswerInv`, of what was made of it: a selection is
made once, of all that was read, and everything it shows is asked for. The cuts
rest on a lemma about the first n of a finite set in a total order (`FirstOnes`):
whoever is left out has n before it.

`ReaderAdvances` is the safety half of `AnswerComes`: each step of the reader goes
on to a later part of its work (`Stage`) or leaves it less of finitely much to do
there (`ToDo`), and a change by others leaves both as they are. A loop over pages
ends because a cursor that came before ends it and HubSpot has finitely many to
give: ids, or offsets below the number of records and a page (`CursorsAreFew`).
What is read is finite by an invariant of its own (`ReadIsFinite`), since a cursor
that goes astray can bring the same records again. TLC finds the property violated
when the loop forgets the cursors it has seen (`Repeats_forgotten`).

Proved and not part of a run: `OneExecutor`, which `ClaimedOnce` implies of
running requests; `LinksHaveRecords`, which `OkMeansDone`, `WritesAreAsked` and the
refinement of `PlanRun` leave little to (each was checked by TLC before it was
proved); `LockHasHolder`, `HandlersAdvance`, `ReaderAdvances`; and the theorem
about `PlanRun`.

Model-checked only: liveness (`WaitersReturn`, `RequestsEnd`, `ClaimsSettle`,
`WorkingViewGoes`, `AnswerComes`), which is out of the prover's reach; for
`RequestsEnd`, `AnswerComes` and `WaitersReturn` the safety part of the argument
is proved. Every invariant and every action property of a run is proved.

## 5. Not modelled

* How words become an intent, a name or a filter (`agent/extraction.py`,
  `detect_deal_filter`, `resolve_date_range`), and the AI behind it: matching of
  text. Its results are free choices or enumerated.
* Charts and the REST endpoints: pure or a single read.
* Signatures, workspace mapping, the web session's cookies, secrets, settings:
  they let a request in or not, before any modelled state.
* `HubSpotOAuthService.refresh`, which nothing calls, and the abstract classes of
  `services/mutations.py` and `services/audit.py`, which have no instance.

## 6. Plan

1. `OnceOnly`, `ActionSafety`, `AgentMutations` and their proofs: done.
2. `OAuthTokens` and its proofs: done.
3. `CrmPlan` and its proofs: done.
4. `Surfaces` (the App Home, channels and the page) and its proofs: done.
5. `CrmQueries`, `CrmReads` (filters, paging, answers) and their proofs: done.
6. Claims and replies (`ClaimInv`), `PlanRun` and its two refinements, the safety
   halves of `RequestsEnd` and `AnswerComes`: done.
7. To prove: that plans of `CrmPlan` and handlers of `Surfaces` advance; that the
   transactions of `Surfaces` implement `OnceOnly`; bounds of a lead's score.
8. To model, as operators: the stage values of a chart.
