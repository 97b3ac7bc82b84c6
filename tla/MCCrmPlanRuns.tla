--------------------------- MODULE MCCrmPlanRuns ---------------------------
(***************************************************************************)
(* The requests and contents of HubSpot of MCCrmPlan, for plans with the   *)
(* history of their writes.                                                *)
(***************************************************************************)
EXTENDS CrmPlanRuns, MCCrmPlan
=============================================================================
