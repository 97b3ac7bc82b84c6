-------------------------- MODULE MCAgentMutations --------------------------
(***************************************************************************)
(* A small instance: two people of one workspace and one of another.       *)
(***************************************************************************)
EXTENDS AgentMutations, TLC

CONSTANTS ann, bob, eve, acme, other

MCTenantOf == (ann :> acme) @@ (bob :> acme) @@ (eve :> other)
MCSenderOf == [m \in Messages |-> ann]

Interchangeable == Permutations(Requests)
=============================================================================
