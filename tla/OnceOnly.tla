------------------------------ MODULE OnceOnly ------------------------------
(***************************************************************************)
(* What the action bookkeeping promises about one CRM mutation, with no    *)
(* requests, tables, clock or crashes.  An action is offered to a person   *)
(* (update, delete) or taken at once (create); it is taken once; while it  *)
(* is taken it may change HubSpot, at most as often as it was allowed to;  *)
(* it is settled at most once and then never changes HubSpot again.        *)
(***************************************************************************)
EXTENDS Naturals

CONSTANTS
  Ids,        \* the actions
  MaxWrites   \* the most CRM writes one action may be allowed

VARIABLES
  phase,      \* phase[a] \in {"absent", "offered", "taken", "settled"}
  allowance,  \* how many CRM writes the action is allowed, once that is known
  effects     \* how many CRM writes the action has had

onceVars == <<phase, allowance, effects>>

OnceInit ==
  /\ phase = [a \in Ids |-> "absent"]
  /\ allowance = [a \in Ids |-> 0]
  /\ effects = [a \in Ids |-> 0]

Move(a, from, to) ==
  /\ phase[a] = from
  /\ phase' = [phase EXCEPT ![a] = to]

\* A person is asked to confirm the action.
Offer(a) ==
  /\ Move(a, "absent", "offered")
  /\ UNCHANGED <<allowance, effects>>

\* The person confirmed it: one write is allowed.
TakeOffered(a) ==
  /\ Move(a, "offered", "taken")
  /\ allowance' = [allowance EXCEPT ![a] = 1]
  /\ UNCHANGED effects

\* A create runs without confirmation.
TakeDirect(a) ==
  /\ Move(a, "absent", "taken")
  /\ UNCHANGED <<allowance, effects>>

\* A taken action decides what it will write, before it writes anything.
Allow(a, n) ==
  /\ phase[a] = "taken"
  /\ allowance[a] = 0
  /\ effects[a] = 0
  /\ allowance' = [allowance EXCEPT ![a] = n]
  /\ UNCHANGED <<phase, effects>>

\* HubSpot changes on behalf of the action.
Affect(a) ==
  /\ phase[a] = "taken"
  /\ effects[a] < allowance[a]
  /\ effects' = [effects EXCEPT ![a] = @ + 1]
  /\ UNCHANGED <<phase, allowance>>

Settle(a) ==
  /\ Move(a, "taken", "settled")
  /\ UNCHANGED <<allowance, effects>>

OnceNext ==
  \E a \in Ids :
    \/ Offer(a)
    \/ TakeOffered(a)
    \/ TakeDirect(a)
    \/ \E n \in 1 .. MaxWrites : Allow(a, n)
    \/ Affect(a)
    \/ Settle(a)

OnceSpec == OnceInit /\ [][OnceNext]_onceVars
=============================================================================
