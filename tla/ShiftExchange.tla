----------------------------- MODULE ShiftExchange -----------------------------
(***************************************************************************)
(* The published shifts of one support team                                *)
(* (services/api/src/core/support-scheduling/support-scheduling.service.ts):*)
(* materialisation of the plan, extra slots that agents claim, and shifts  *)
(* that agents give away or swap.  Every operation is one serializable     *)
(* transaction, so one step; what interleaves is the agents, the managers, *)
(* the horizon job and the clock.  Refused calls and idempotent repeats    *)
(* change nothing and are left out.                                        *)
(*                                                                         *)
(* The rules of all days have the same limits and differ in what they      *)
(* leave to a manager; the agents are active members of the team           *)
(* throughout; a pattern or an assignment never changes once made, so the  *)
(* plan is a constant.  The weekly limit is the daily one over another     *)
(* period, and only the daily one is modelled.                             *)
(***************************************************************************)
EXTENDS Naturals, FiniteSets, FiniteSetsExt

CONSTANTS
    Agent,          \* SAC agents of the team
    Interval,       \* intervals a shift may have: day, from, to
    Planned,        \* one id per assignment and planned date
    Owner,          \* the agent of a planned shift
    Hours,          \* the interval of a planned shift
    Offer,          \* SupportShiftOffer ids
    None,           \* null
    Capacity,       \* agents an extra slot takes
    Rest,           \* minimumRestMinutes
    Notice,         \* minimumNoticeMinutes
    MaxDaily,       \* maxDailyMinutes
    MaxMonthly,     \* maxMonthlyExchanges
    Month,          \* length of a month
    AutoDays,       \* days whose rule has autoApproveEligibleSwaps
    ManagedDays,    \* days whose rule has requireManagerExtraApproval
    MaxSlots,       \* bound: extra slots
    MaxTime         \* bound: the clock stops here

ASSUME ExchangeAssumption ==
    /\ IsFiniteSet(Agent) /\ IsFiniteSet(Planned) /\ IsFiniteSet(Offer)
    /\ Interval \subseteq [day : Nat, from : Nat, to : Nat]
    /\ \A i \in Interval : i.from < i.to
    /\ Owner \in [Planned -> Agent] /\ Hours \in [Planned -> Interval]
    /\ None \notin Agent
    /\ {Capacity, Month} \subseteq Nat \ {0}
    /\ {Rest, Notice, MaxDaily, MaxMonthly, MaxSlots, MaxTime} \subseteq Nat

\* Ids of the occurrences that are not planned: the two an applied offer
\* creates, and the one an approved claim creates.
Given(o)    == <<"given", o>>
Returned(o) == <<"returned", o>>
Extra(i, a) == <<"extra", i, a>>

Unplanned ==
    {Given(o) : o \in Offer} \cup {Returned(o) : o \in Offer}
        \cup {Extra(i, a) : i \in Interval, a \in Agent}

ShiftId == Planned \cup Unplanned

ASSUME IdAssumption == Planned \cap Unplanned = {} /\ None \notin ShiftId

VARIABLES
    now,    \* the clock
    shift,  \* SupportShiftOccurrence rows
    slot,   \* SupportExtraShiftSlot rows by interval, which is unique in a team
    claim,  \* SupportExtraShiftClaim status by slot and agent
    offer   \* SupportShiftOffer rows

vars == <<now, shift, slot, claim, offer>>

ShiftRow == [status : {"PUBLISHED", "CANCELLED"}, agent : Agent, at : Interval]
NoShift  == [status |-> "NONE"]

\* An offer as long as it is active; once it is closed, what is still read of
\* it: who took part in the exchange and when, or nothing.
OfferRow ==
    [status : {"OPEN", "MANAGER_PENDING"}, type : {"SWAP", "OFFER"},
     source : ShiftId, target : ShiftId \cup {None},
     by : Agent, to : Agent \cup {None}, expires : Nat]
AppliedRow == [status : {"APPLIED"}, by : Agent, to : Agent, appliedAt : Nat]
NoOffer    == [status |-> "NONE"]
Closed     == [status |-> "CLOSED"]   \* REJECTED or CANCELLED

TypeOK ==
    /\ now \in Nat
    /\ shift \in [ShiftId -> ShiftRow \cup {NoShift}]
    /\ slot \in [Interval -> {"NONE", "OPEN", "FILLED"}]
    /\ claim \in [Interval \X Agent -> {"NONE", "PENDING", "APPROVED", "REJECTED"}]
    /\ offer \in [Offer -> OfferRow \cup AppliedRow \cup {NoOffer, Closed}]

Init ==
    /\ now = 0
    /\ shift = [s \in ShiftId |-> NoShift]
    /\ slot = [i \in Interval |-> "NONE"]
    /\ claim = [c \in Interval \X Agent |-> "NONE"]
    /\ offer = [o \in Offer |-> NoOffer]

-----------------------------------------------------------------------------
(* Work load: what an agent holds is a function from shifts to intervals.    *)

Published(s)    == shift[s].status = "PUBLISHED"
PublishedShifts == {s \in ShiftId : Published(s)}

Held(a, except) ==
    [s \in {t \in PublishedShifts \ except : shift[t].agent = a} |-> shift[s].at]

Minutes(load, d) ==
    MapThenSumSet(LAMBDA s : load[s].to - load[s].from,
                  {s \in DOMAIN load : load[s].day = d})

\* Mutant of Rested: shifts may not overlap, and that is all.
NotOverlapping(load) ==
    \A s, t \in DOMAIN load :
        s # t /\ load[s].from <= load[t].from => load[s].to <= load[t].from

\* OVERLAPPING_SHIFT and MINIMUM_REST
Rested(load) ==
    \A s, t \in DOMAIN load :
        s # t /\ load[s].from <= load[t].from => load[s].to + Rest <= load[t].from

\* supportWorkloadViolations finds none.
Workable(load) ==
    /\ Rested(load)
    /\ \A d \in {load[s].day : s \in DOMAIN load} : Minutes(load, d) <= MaxDaily

\* startsAt > now, and assertMinimumNotice
InTime(i) == i.from > now /\ i.from >= now + Notice

\* validateUserWorkload of `a' taking interval `i' as shift `s'.
CanTake(a, s, i, except) ==
    LET held == Held(a, except)
    IN /\ Workable([t \in DOMAIN held \cup {s} |-> IF t = s THEN i ELSE held[t]])
       /\ InTime(i)

Publish(a, i) == [status |-> "PUBLISHED", agent |-> a, at |-> i]

-----------------------------------------------------------------------------
(* The plan.                                                                 *)

Candidates(a, days) == {p \in Planned : Owner[p] = a /\ Hours[p].day \in days}

\* The agent's candidates are taken all together or not at all: those that
\* were exchanged away count too, though they are not published again.
PlanFits(a, days) ==
    LET held == Held(a, {})
        plan == Candidates(a, days)
    IN Workable([s \in DOMAIN held \cup plan |-> IF s \in plan THEN Hours[s] ELSE held[s]])

\* Mutant of Missing: a cancelled occurrence is published again.
NotPublished(days) ==
    {p \in Planned : Hours[p].day \in days /\ ~Published(p) /\ PlanFits(Owner[p], days)}

Missing(days) ==
    {p \in Planned : /\ Hours[p].day \in days
                     /\ shift[p] = NoShift
                     /\ PlanFits(Owner[p], days)}

\* materializeSupportShiftOccurrences, by a manager or the horizon job
Materialize(days) ==
    LET missing == Missing(days)
    IN /\ missing # {}
       /\ shift' = [s \in ShiftId |->
                       IF s \in missing THEN Publish(Owner[s], Hours[s]) ELSE shift[s]]
       /\ UNCHANGED <<now, slot, claim, offer>>

-----------------------------------------------------------------------------
(* Extra slots.                                                              *)

CreateSlot(i) ==
    /\ slot[i] = "NONE" /\ Cardinality({j \in Interval : slot[j] # "NONE"}) < MaxSlots
    /\ i.from >= now + Notice
    /\ i.to - i.from <= MaxDaily
    /\ slot' = [slot EXCEPT ![i] = "OPEN"]
    /\ UNCHANGED <<now, shift, claim, offer>>

Approved(i) == {a \in Agent : claim[<<i, a>>] = "APPROVED"}

FilledBy(i) == Cardinality(Approved(i)) + 1 >= Capacity

\* approveExtraClaim
ApproveClaim(i, a) ==
    /\ slot[i] = "OPEN"
    /\ Cardinality(Approved(i)) < Capacity
    /\ CanTake(a, Extra(i, a), i, {})
    /\ shift' = [shift EXCEPT ![Extra(i, a)] = Publish(a, i)]
    /\ claim' = [claim EXCEPT ![<<i, a>>] = "APPROVED"]
    /\ slot' = IF FilledBy(i) THEN [slot EXCEPT ![i] = "FILLED"] ELSE slot

\* claimSupportExtraShiftSlot, by the agent or by a manager for the agent
ClaimSlot(i, a) ==
    /\ slot[i] = "OPEN" /\ InTime(i)
    /\ claim[<<i, a>>] \in {"NONE", "REJECTED"}
    /\ \/ /\ i.day \in ManagedDays
          /\ claim' = [claim EXCEPT ![<<i, a>>] = "PENDING"]
          /\ UNCHANGED <<shift, slot>>
       \/ i.day \notin ManagedDays /\ ApproveClaim(i, a)
    /\ UNCHANGED <<now, offer>>

\* decideSupportExtraShiftClaim, by a manager
DecideClaim(i, a) ==
    /\ claim[<<i, a>>] = "PENDING"
    /\ \/ ApproveClaim(i, a)
       \/ /\ claim' = [claim EXCEPT ![<<i, a>>] = "REJECTED"]
          /\ UNCHANGED <<shift, slot>>
    /\ UNCHANGED <<now, offer>>

-----------------------------------------------------------------------------
(* Offers and swaps.                                                         *)

Active(o) == offer[o].status \in {"OPEN", "MANAGER_PENDING"}

Names(o) == {offer[o].source, offer[o].target} \ {None}

\* The shifts that active offers name on either side.
Negotiated(except) == UNION {Names(o) : o \in {x \in Offer \ except : Active(x)}}

\* ensureExchangeLimit
Exchanges(a, month) ==
    {o \in Offer : /\ offer[o].status = "APPLIED"
                   /\ offer[o].appliedAt \div Month = month
                   /\ a \in {offer[o].by, offer[o].to}}
MayExchange(a) == Cardinality(Exchanges(a, now \div Month)) < MaxMonthly

\* createSupportShiftOffer: `target' is the shift asked for in return, `to' the
\* colleague; either may be left open.  The expiry is asked for or a default,
\* and either way it leaves the notice of the offered shift.
CreateOffer(o, type, source, target, to, expires) ==
    /\ offer[o] = NoOffer
    /\ Published(source) /\ InTime(shift[source].at)
    /\ to # shift[source].agent
    /\ target # None =>
          /\ type = "SWAP"
          /\ Published(target) /\ InTime(shift[target].at)
          /\ shift[target].agent = to
    /\ ({source, target} \ {None}) \cap Negotiated({}) = {}
    /\ MayExchange(shift[source].agent)
    /\ expires > now /\ expires + Notice <= shift[source].at.from
    /\ offer' = [offer EXCEPT ![o] =
          [status |-> "OPEN", type |-> type, source |-> source,
           target |-> target, by |-> shift[source].agent, to |-> to,
           expires |-> expires]]
    /\ UNCHANGED <<now, shift, slot, claim>>

\* Mutant of Parties: the limit is looked up for the offerer alone.
Offerer(by, to) == {by}

Parties(by, to) == {by, to}

\* validateOfferApplication: the offer with its accepted counterpart.
Applicable(o, source, target, by, to) ==
    /\ Published(source)
    /\ CanTake(to, Given(o), shift[source].at, {target})
    /\ offer[o].type = "SWAP" =>
          /\ target # None /\ Published(target) /\ shift[target].agent = to
          /\ CanTake(by, Returned(o), shift[target].at, {source})
    /\ \A a \in Parties(by, to) : MayExchange(a)

\* replacementOccurrence, for each side
Replacements(o, target) == {Given(o)} \cup (IF target = None THEN {} ELSE {Returned(o)})

\* applyShiftOffer: new occurrences for the new owners, the old ones cancelled.
\* The bookings it flags are those of PauseBooking.
Exchange(o, source, target, by, to) ==
    /\ Applicable(o, source, target, by, to)
    /\ shift' = [s \in ShiftId |->
          IF s \in {source, target} THEN [shift[s] EXCEPT !.status = "CANCELLED"]
          ELSE IF s \notin Replacements(o, target) THEN shift[s]
          ELSE IF s = Given(o) THEN Publish(to, shift[source].at)
          ELSE Publish(by, shift[target].at)]
    /\ offer' = [offer EXCEPT ![o] =
          [status |-> "APPLIED", by |-> by, to |-> to, appliedAt |-> now]]
    /\ UNCHANGED <<now, slot, claim>>

\* Mutant of Counterparts: whatever other offers name.
AnyOwnShift(o, a) ==
    IF offer[o].type = "OFFER" THEN {None}
    ELSE {t \in PublishedShifts : shift[t].agent = a /\ t # offer[o].source}

\* What the acceptance of `a' may name in return: a shift of its own that no
\* other offer names, for a swap; nothing, for a gift.
Counterparts(o, a) ==
    IF offer[o].type = "OFFER" THEN {None}
    ELSE {t \in PublishedShifts \ Negotiated({o}) :
            shift[t].agent = a /\ t # offer[o].source}

\* The rule of an offer is the rule of the day of the shift that is offered.
Automatic(o) == shift[offer[o].source].at.day \in AutoDays

\* acceptSupportShiftOffer: the counterpart may differ from the one the offer
\* names.  The rule applies the offer at once or leaves it to a manager.
AcceptOffer(o, a, target) ==
    /\ offer[o].status = "OPEN" /\ offer[o].expires > now
    /\ a # offer[o].by /\ offer[o].to \in {None, a}
    /\ target \in Counterparts(o, a)
    /\ \/ /\ Automatic(o)
          /\ Exchange(o, offer[o].source, target, offer[o].by, a)
       \/ /\ ~Automatic(o)
          /\ Applicable(o, offer[o].source, target, offer[o].by, a)
          /\ offer' = [offer EXCEPT ![o] =
                [status |-> "MANAGER_PENDING", type |-> @.type, source |-> @.source,
                 target |-> target, by |-> @.by, to |-> a, expires |-> @.expires]]
          /\ UNCHANGED <<now, shift, slot, claim>>

Close(o) ==
    /\ offer' = [offer EXCEPT ![o] = Closed]
    /\ UNCHANGED <<now, shift, slot, claim>>

\* Its mutant is Active: a manager decides before a colleague has accepted.
Decidable(o) == offer[o].status = "MANAGER_PENDING"

\* decideSupportShiftOffer, by a manager
DecideOffer(o) ==
    /\ Decidable(o) /\ offer[o].expires > now
    /\ \/ Exchange(o, offer[o].source, offer[o].target, offer[o].by, offer[o].to)
       \/ Close(o)

\* cancelSupportShiftOffer, by a party or a manager, expired or not
CancelOffer(o) == Active(o) /\ Close(o)

Tick ==
    /\ now < MaxTime
    /\ now' = now + 1
    /\ UNCHANGED <<shift, slot, claim, offer>>

-----------------------------------------------------------------------------
Days == {i.day : i \in Interval}

\* Bound: an offer expires at the next tick or not before the clock stops.
Next ==
    \/ \E first, last \in Days : Materialize({d \in Days : first <= d /\ d <= last})
    \/ \E i \in Interval : CreateSlot(i)
    \/ \E i \in Interval, a \in Agent : ClaimSlot(i, a) \/ DecideClaim(i, a)
    \/ \E o \in Offer, source \in PublishedShifts, target \in PublishedShifts \cup {None},
          type \in {"SWAP", "OFFER"}, to \in Agent \cup {None},
          expires \in {now + 1, MaxTime + 1} :
          CreateOffer(o, type, source, target, to, expires)
    \/ \E o \in Offer, a \in Agent, target \in PublishedShifts \cup {None} :
          AcceptOffer(o, a, target)
    \/ \E o \in Offer : DecideOffer(o) \/ CancelOffer(o)
    \/ Tick

Spec == Init /\ [][Next]_vars

-----------------------------------------------------------------------------
(* Properties.                                                               *)

\* The shifts of an agent are apart, with their rest.
RestRespected ==
    \A s, t \in PublishedShifts :
        s # t /\ shift[s].agent = shift[t].agent =>
           \/ shift[s].at.to + Rest <= shift[t].at.from
           \/ shift[t].at.to + Rest <= shift[s].at.from

\* No sequence of materialisations, extra slots and exchanges leaves an agent
\* with overlapping shifts, too little rest or too long a day: each operation
\* checks the shifts it adds against those that stand, an exchange without the
\* one that goes.
WorkloadRespected ==
    RestRespected /\ \A a \in Agent, d \in Days : Minutes(Held(a, {}), d) <= MaxDaily

\* A shift is named, on either side, by one active offer at most, though an
\* acceptance may name another counterpart than the offer did.
OneNegotiation ==
    \A o, p \in Offer : o # p /\ Active(o) /\ Active(p) => Names(o) \cap Names(p) = {}

\* What an active offer names is there to be exchanged: the offerer still holds
\* the shift that is offered, and the colleague the one that is asked for.
OfferStands ==
    \A o \in Offer : Active(o) =>
        /\ Published(offer[o].source) /\ shift[offer[o].source].agent = offer[o].by
        /\ offer[o].target # None =>
              Published(offer[o].target) /\ shift[offer[o].target].agent = offer[o].to

\* What is under negotiation is promised once, and there to be exchanged.
OffersAreSound == OneNegotiation /\ OfferStands

\* Nobody takes part in more exchanges in a month than the rule allows, whoever
\* offered and whoever accepted.
MonthlyLimit ==
    \A a \in Agent, m \in 0 .. MaxTime \div Month :
        Cardinality(Exchanges(a, m)) <= MaxMonthly

\* A slot is FILLED exactly when its last place is taken, and never beyond.
SlotsAddUp ==
    \A i \in Interval :
        /\ Cardinality(Approved(i)) <= Capacity
        /\ slot[i] = "FILLED" <=> Cardinality(Approved(i)) = Capacity

\* Nobody exchanges, and no slot takes, more than the rule allows.
LimitsHold == MonthlyLimit /\ SlotsAddUp

\* calculatePublishedOccurrenceCoverage of a whole interval
OnShift(i) ==
    {a \in Agent : \E s \in PublishedShifts : shift[s].agent = a /\ shift[s].at = i}

\* However shifts change hands, no interval ever has fewer agents on shift.
CoverageStands ==
    [][\A i \in Interval : Cardinality(OnShift(i)') >= Cardinality(OnShift(i))]_vars

\* A shift that was exchanged away never comes back: not by materialising its
\* day again, and not by another exchange.
ExchangedAwayForGood ==
    [][\A s \in ShiftId : shift[s].status = "CANCELLED" => shift'[s] = shift[s]]_vars

\* An exchange takes no agent off an interval and no shift is exchanged twice.
ExchangesAreFinal == CoverageStands /\ ExchangedAwayForGood
=============================================================================
