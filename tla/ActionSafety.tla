---------------------------- MODULE ActionSafety ----------------------------
(***************************************************************************)
(* The safety bookkeeping of CRM mutations: the tables pending_actions,    *)
(* idempotency_records and audit_logs, and the database transactions of    *)
(* ActionSafetyService over them.  Each operator below that primes         *)
(* variables is one transaction, which the database applies or does not    *)
(* apply as a whole.  The callers are in AgentMutations.                   *)
(***************************************************************************)
EXTENDS Naturals

CONSTANTS
  Senders,      \* the (tenant, actor) pairs that talk to the agent
  Tenants,
  TenantOf,     \* the tenant of a sender
  Messages,     \* source messages: a channel and timestamp, the idempotency basis
  SenderOf,     \* who sent a message
  ProposalIds,  \* the uuid4 ids of actions that wait for a confirmation
  NoSender,
  TTL,          \* ttl_seconds, in ticks of the clock
  MaxTime       \* bound on the clock

ASSUME SendersAssumption ==
  /\ TenantOf \in [Senders -> Tenants]
  /\ SenderOf \in [Messages -> Senders]
  /\ NoSender \notin Senders
ASSUME ClockAssumption == TTL \in Nat \ {0} /\ MaxTime \in Nat

\* Creates run directly, updates and deletes wait for a confirmation.
DirectTypes == {"create_contact", "crm_plan"}
ContactChanges == {"update_contact", "delete_contact"}
RecordChanges == {"update_company", "update_deal", "delete_company"}
ActionTypes == DirectTypes \cup ContactChanges \cup RecordChanges

\* direct_<sha256 of tenant, action type and idempotency key>
DirectId(t, m) == [tenant |-> TenantOf[SenderOf[m]], type |-> t, key |-> m]
DirectIds == {DirectId(t, m) : t \in DirectTypes, m \in Messages}
ActionIds == ProposalIds \cup DirectIds

ASSUME IdsAssumption == ProposalIds \cap DirectIds = {}

VARIABLES
  now,           \* the clock the tables' timestamps come from
  (* pending_actions, one function per column *)
  status,        \* "none" where there is no row
  owner,         \* tenant_id and actor_id
  type,          \* action_type
  expires,       \* expires_at
  confirmed_at,
  (* idempotency_records: the status of the row under an action's key *)
  idem,          \* "none" where there is no row
  (* audit_logs: how many rows an action has of each outcome *)
  audit

pendingVars == <<status, owner, type, expires, confirmed_at>>
tableVars == <<status, owner, type, expires, confirmed_at, idem, audit>>

Unclaimed == {"none", "pending"}
Settled == {"completed", "failed", "reconciliation_required"}
Statuses == Unclaimed \cup {"confirmed"} \cup Settled
IdemStatuses == {"none", "in_progress", "succeeded", "failed", "partial"}
Outcomes == {"success", "failure", "partial"}

TablesTypeOK ==
  /\ now \in 0 .. MaxTime
  /\ status \in [ActionIds -> Statuses]
  /\ owner \in [ActionIds -> Senders \cup {NoSender}]
  /\ type \in [ActionIds -> ActionTypes \cup {"none"}]
  /\ expires \in [ActionIds -> Nat]
  /\ confirmed_at \in [ActionIds -> Nat]
  /\ idem \in [ActionIds -> IdemStatuses]
  /\ audit \in [ActionIds -> [Outcomes -> Nat]]

TablesInit ==
  /\ now = 0
  /\ status = [a \in ActionIds |-> "none"]
  /\ owner = [a \in ActionIds |-> NoSender]
  /\ type = [a \in ActionIds |-> "none"]
  /\ expires = [a \in ActionIds |-> 0]
  /\ confirmed_at = [a \in ActionIds |-> 0]
  /\ idem = [a \in ActionIds |-> "none"]
  /\ audit = [a \in ActionIds |-> [o \in Outcomes |-> 0]]

-----------------------------------------------------------------------------
(* The repositories' statements. *)

\* PendingActionRepository.create: a row that is pending, or already confirmed.
CreateRow(a, s, t, st) ==
  /\ status' = [status EXCEPT ![a] = st]
  /\ owner' = [owner EXCEPT ![a] = s]
  /\ type' = [type EXCEPT ![a] = t]
  /\ expires' = [expires EXCEPT ![a] = now + TTL]
  /\ confirmed_at' = [confirmed_at EXCEPT ![a] = IF st = "confirmed" THEN now ELSE @]

\* Mutant: a row is still confirmable at the instant it expires.
Confirmable_offbyone(a, s, at) ==
  /\ status[a] = "pending"
  /\ owner[a] = s
  /\ expires[a] >= at

\* The WHERE of PendingActionRepository.confirm: the row is this tenant's and
\* actor's (owner), still pending, and not expired at the time that confirm() read
\* before it asked the database.
Confirmable(a, s, at) ==
  /\ status[a] = "pending"
  /\ owner[a] = s
  /\ expires[a] > at

\* Mutant: a row that is still in progress does not refuse a claim.
Claimable_stale(a) == idem[a] \in {"none", "in_progress"}

\* Mutant: a claim whose row has expired is taken over.
Claimable_expired(a) ==
  idem[a] = "none" \/ (idem[a] = "in_progress" /\ expires[a] <= now)

\* IdempotencyRepository.claim inserts the row unless the key has one.
Claimable(a) == idem[a] = "none"

\* Mutant: the status a row has is not looked at.
Updatable_always(a, s) == TenantOf[owner[a]] = TenantOf[s]

\* The WHERE of PendingActionRepository.set_status.
Updatable(a, s) == status[a] = "confirmed" /\ TenantOf[owner[a]] = TenantOf[s]

SetStatus(a, s, st) ==
  status' = [status EXCEPT ![a] = IF Updatable(a, s) THEN st ELSE @]

\* Mutant: the idempotency row stays in progress.
CompleteKey_skipped(a, st) == UNCHANGED idem

\* IdempotencyRepository.complete overwrites whatever the row says.
CompleteKey(a, st) ==
  idem' = [idem EXCEPT ![a] = IF @ = "none" THEN @ ELSE st]

AppendAudit(a, o) == audit' = [audit EXCEPT ![a][o] = @ + 1]

-----------------------------------------------------------------------------
(* The service's transactions. *)

\* create_pending_action, under a fresh uuid.
CreatePendingAction(a, s, t) ==
  /\ status[a] = "none"
  /\ CreateRow(a, s, t, "pending")
  /\ UNCHANGED <<idem, audit>>

\* start_direct_action when the claim is won.
StartDirectAction(a, s, t) ==
  /\ Claimable(a)
  /\ idem' = [idem EXCEPT ![a] = "in_progress"]
  /\ CreateRow(a, s, t, "confirmed")
  /\ UNCHANGED audit

\* confirm_and_claim_action when the row is confirmable and the claim is won.  The
\* SELECT locks the row, so that to whoever writes it everything up to the commit
\* is one step; but `at` was read before it, and the action may expire meanwhile.
ConfirmAndClaimAction(a, s, at) ==
  /\ Confirmable(a, s, at)
  /\ Claimable(a)
  /\ status' = [status EXCEPT ![a] = "confirmed"]
  /\ confirmed_at' = [confirmed_at EXCEPT ![a] = at]
  /\ idem' = [idem EXCEPT ![a] = "in_progress"]
  /\ UNCHANGED <<owner, type, expires, audit>>

\* complete_action: rolled back as a whole (ValueError) when no row was updated.
CompleteAction(a, s) ==
  IF Updatable(a, s)
  THEN /\ SetStatus(a, s, "completed")
       /\ CompleteKey(a, "succeeded")
       /\ AppendAudit(a, "success")
       /\ UNCHANGED <<owner, type, expires, confirmed_at>>
  ELSE UNCHANGED tableVars

\* fail_action and record_partial_action ignore whether a row was updated.
FailAction(a, s) ==
  /\ SetStatus(a, s, "failed")
  /\ CompleteKey(a, "failed")
  /\ AppendAudit(a, "failure")
  /\ UNCHANGED <<owner, type, expires, confirmed_at>>

RecordPartialAction(a, s) ==
  /\ SetStatus(a, s, "reconciliation_required")
  /\ CompleteKey(a, "partial")
  /\ AppendAudit(a, "partial")
  /\ UNCHANGED <<owner, type, expires, confirmed_at>>

Tick ==
  /\ now < MaxTime
  /\ now' = now + 1
  /\ UNCHANGED tableVars
=============================================================================
