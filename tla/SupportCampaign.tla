---------------------------- MODULE SupportCampaign ----------------------------
(***************************************************************************)
(* A campaign of the support team (updateSupportCampaign in                *)
(* services/api/src/core/support-operations/support-operations.service.ts):*)
(* drafted, activated, paused, resumed and closed.  Its audience is fixed  *)
(* when it leaves the draft, its result when it is closed.                 *)
(*                                                                         *)
(* A change of status is one serializable transaction.  The audience is    *)
(* told after it commits, member by member, by notifications that a unique *)
(* key for each member, status and version keeps single; the process may   *)
(* die before or between them, and several requests may tell at once.      *)
(*                                                                         *)
(* The approved entries, which KpiEntries models, are the set of those     *)
(* that count for the campaign; agents stay active users while they move   *)
(* between teams.                                                          *)
(***************************************************************************)
EXTENDS Naturals, Sequences

CONSTANTS
    Agent,          \* agents of the organisation
    Measure,        \* entries that may count
    MaxLife         \* bound: versions of the life cycle

ASSUME CampaignAssumption == MaxLife \in Nat

VARIABLES
    campaign,       \* the SupportCampaign row
    team,           \* agents in its scope now
    approved,       \* entries that count now
    telling,        \* notifications a request has yet to make
    told,           \* notifications made
    forgotten,      \* observation: notifications whose request died
    history         \* observation: the statuses the campaign went through

campaignVars == <<campaign, team, approved, telling, told, forgotten, history>>

CampaignStatus == {"DRAFT", "ACTIVE", "PAUSED", "CLOSED"}
\* No audience is {}, as the code refuses an empty one; the result is the set of
\* results frozen: none, or one.
Campaign ==
    [status : CampaignStatus, version : Nat, audience : SUBSET Agent,
     result : SUBSET SUBSET Measure]
Notice == [agent : Agent, status : CampaignStatus, version : Nat]

-----------------------------------------------------------------------------

CampaignInit ==
    /\ campaign = [status |-> "DRAFT", version |-> 1, audience |-> {}, result |-> {}]
    /\ team \in SUBSET Agent
    /\ approved = {}
    /\ telling = {} /\ told = {} /\ forgotten = {}
    /\ history = <<"DRAFT">>

\* campaignTransitions; a draft kept a draft is only edited.
Transition(s) ==
    CASE s = "DRAFT" -> {"ACTIVE"}
      [] s = "ACTIVE" -> {"PAUSED", "CLOSED"}
      [] s = "PAUSED" -> {"ACTIVE", "CLOSED"}
      [] s = "CLOSED" -> {}

\* Mutant of Audience: the audience is drawn up at every change.
AudienceNow == team

\* The audience is resolved once, from the campaign's scope as it is then.
Audience == IF campaign.audience = {} THEN team ELSE campaign.audience

\* Mutant of NextLife: the version counts activations only.
NextLifeIfActive(s) == IF s = "ACTIVE" THEN campaign.version + 1 ELSE campaign.version

NextLife(s) == campaign.version + 1

Result(s) == IF s = "CLOSED" THEN {approved} ELSE campaign.result

\* updateSupportCampaign: nobody in scope is a conflict.
Change(s) ==
    /\ s \in Transition(campaign.status)
    /\ campaign.version < MaxLife
    /\ Audience # {}
    /\ campaign' = [status |-> s, version |-> NextLife(s), audience |-> Audience,
                    result |-> Result(s)]
    /\ telling' = telling \cup [agent : Audience, status : {s}, version : {NextLife(s)}]
    /\ history' = Append(history, s)
    /\ UNCHANGED <<team, approved, told, forgotten>>

\* emitInAppNotifications, one upsert for each member.
Tell(n) ==
    /\ n \in telling
    /\ telling' = telling \ {n}
    /\ told' = told \cup {n}
    /\ UNCHANGED <<campaign, team, approved, forgotten, history>>

\* The process dies, and with it the rest of a request's notifications.
Forget(v) ==
    LET rest == {n \in telling : n.version = v}
    IN  /\ rest # {}
        /\ telling' = telling \ rest
        /\ forgotten' = forgotten \cup rest
        /\ UNCHANGED <<campaign, team, approved, told, history>>

\* Agents join and leave the team; entries are approved and superseded.
ChangeTeam(t) ==
    /\ team' = t
    /\ UNCHANGED <<campaign, approved, telling, told, forgotten, history>>

ChangeApproved(e) ==
    /\ approved' = e
    /\ UNCHANGED <<campaign, team, telling, told, forgotten, history>>

CampaignNext ==
    \/ \E s \in CampaignStatus : Change(s)
    \/ \E n \in telling : Tell(n)
    \/ \E v \in 1 .. MaxLife : Forget(v)
    \/ \E t \in SUBSET Agent : ChangeTeam(t)
    \/ \E e \in SUBSET Measure : ChangeApproved(e)

CampaignSpec == CampaignInit /\ [][CampaignNext]_campaignVars

-----------------------------------------------------------------------------
(* Properties                                                              *)

\* The row has the shape the code gives it: an audience from the first change on,
\* of somebody, and a result when it is closed, not before.
CampaignTypeOK ==
    /\ campaign \in Campaign
    /\ campaign.audience = {} <=> campaign.status = "DRAFT"
    /\ campaign.result = {} <=> campaign.status # "CLOSED"
    /\ \A r, q \in campaign.result : r = q
    /\ telling \cup told \cup forgotten \subseteq Notice

\* "Congelar snapshot de audiencia ao publicar": whoever joins or leaves the team
\* while the campaign is paused, resumed and closed, it is for the same members;
\* and once it is closed, the result stays, whatever is corrected.
SnapshotsStand ==
    [][/\ campaign.audience # {} => campaign'.audience = campaign.audience
       /\ campaign.result # {} => campaign' = campaign]_campaignVars

\* "notificar audiencia de forma deduplicada": each change of status has a
\* notification of its own for each member, made or to be made, unless the
\* process died; a campaign resumed twice is announced twice.
EachChangeIsAnnounced ==
    \A i \in 2 .. Len(history), a \in Agent :
        a \in campaign.audience =>
            [agent |-> a, status |-> history[i], version |-> i] \in telling \cup told \cup forgotten

\* Nobody else is told, nor of anything else.
OnlyTheAudienceIsTold ==
    \A n \in telling \cup told :
        /\ n.agent \in campaign.audience
        /\ n.version \in 2 .. Len(history)
        /\ history[n.version] = n.status

\* The audience hears of every change, and nobody hears anything else.
AudienceIsTold == EachChangeIsAnnounced /\ OnlyTheAudienceIsTold
=============================================================================
