------------------------------- MODULE MCOffice -------------------------------
(***************************************************************************)
(* The back office, for TLC: the outbox of licence notifications, the      *)
(* rules of a team's schedule, and the wiki.  The components share no      *)
(* state, so one of them moves in each behaviour.                          *)
(***************************************************************************)
EXTENDS NotificationDelivery, ScheduleRules, KnowledgeBase, TLC

VARIABLE part       \* the component that moves

Interchangeable == Permutations(Draft) \cup Permutations(Writer)

OfficeInit ==
    /\ part \in {"outbox", "rules", "wiki"}
    /\ Init /\ RulesInit /\ KnowledgeInit

OfficeNext ==
    /\ \/ part = "outbox" /\ Next /\ UNCHANGED <<rulesVars, knowledgeVars>>
       \/ part = "rules" /\ RulesNext /\ UNCHANGED <<vars, knowledgeVars>>
       \/ part = "wiki" /\ KnowledgeNext /\ UNCHANGED <<vars, rulesVars>>
    /\ UNCHANGED part

OfficeSpec == OfficeInit /\ [][OfficeNext]_<<part, vars, rulesVars, knowledgeVars>>
=============================================================================
