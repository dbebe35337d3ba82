------------------------------- MODULE MCSupport -------------------------------
(***************************************************************************)
(* The support desk, for TLC: its pauses, its KPI entries, its campaigns,  *)
(* the cases it decides and their plans.  The components share no state,   *)
(* so one of them moves in each behaviour; they share model values, so     *)
(* that one set of permutations serves them all.                           *)
(***************************************************************************)
EXTENDS MCPauseBooking, KpiEntries, SupportCampaign, CaseFlow, CasePlan

VARIABLE part       \* the component that moves

SupportInit ==
    /\ part \in {"pauses", "kpis", "campaigns", "cases", "plans"}
    /\ Init /\ KpiInit /\ CampaignInit /\ CaseInit /\ PlanInit
    /\ part # "campaigns" => team = {}

SupportNext ==
    /\ \/ /\ part = "pauses" /\ Next
          /\ UNCHANGED <<kpiVars, campaignVars, caseVars, planVars>>
       \/ /\ part = "kpis" /\ KpiNext
          /\ UNCHANGED <<vars, campaignVars, caseVars, planVars>>
       \/ /\ part = "campaigns" /\ CampaignNext
          /\ UNCHANGED <<vars, kpiVars, caseVars, planVars>>
       \/ /\ part = "cases" /\ CaseNext
          /\ UNCHANGED <<vars, kpiVars, campaignVars, planVars>>
       \/ /\ part = "plans" /\ PlanNext
          /\ UNCHANGED <<vars, kpiVars, campaignVars, caseVars>>
    /\ UNCHANGED part

SupportSpec == SupportInit /\ [][SupportNext]_<<part, vars, kpiVars, campaignVars, caseVars, planVars>>
=============================================================================
