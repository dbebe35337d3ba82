------------------------- MODULE ShiftExchangeProofs -------------------------
(***************************************************************************)
(* Proofs about ShiftExchange, for any plan, agents, offers and limits.    *)
(* The daily limit is a sum over a set of shifts: the last part proves     *)
(* that it is a number of minutes, and that no step exceeds it.            *)
(***************************************************************************)
EXTENDS ShiftExchange, FiniteSetTheorems, TLAPS

\* An id that an offer or a claim creates has a row only once it was applied or
\* approved.
IdsFollow ==
    /\ \A o \in Offer :
          shift[Given(o)] # NoShift \/ shift[Returned(o)] # NoShift
             => offer[o].status = "APPLIED"
    /\ \A i \in Interval, a \in Agent :
          shift[Extra(i, a)] # NoShift => claim[<<i, a>>] = "APPROVED"

\* A planned shift is the one that was planned, whatever became of it.
AsPlanned ==
    \A p \in Planned : shift[p] # NoShift => shift[p].agent = Owner[p] /\ shift[p].at = Hours[p]

\* An active offer is between two agents, a gift asks for nothing, and one that
\* waits for the manager has been accepted by somebody.
TermsOK ==
    \A o \in Offer : Active(o) =>
        /\ offer[o].by # offer[o].to
        /\ offer[o].type = "OFFER" => offer[o].target = None
        /\ offer[o].status = "MANAGER_PENDING" => offer[o].to \in Agent

\* The inductive invariant.
IInv ==
    /\ TypeOK
    /\ IdsFollow
    /\ AsPlanned
    /\ TermsOK
    /\ OfferStands
    /\ OneNegotiation
    /\ RestRespected
    /\ SlotsAddUp
    /\ MonthlyLimit

-----------------------------------------------------------------------------
(* Ids and rows.                                                             *)

\* The ids that offers and claims create are shifts, none is a planned one, and
\* no two are the same.
LEMMA Ids ==
    /\ \A o \in Offer : /\ Given(o) \in ShiftId \ Planned
                        /\ Returned(o) \in ShiftId \ Planned
    /\ \A i \in Interval, a \in Agent : Extra(i, a) \in ShiftId \ Planned
    /\ \A o, p \in Offer : Given(o) # Returned(p)
    /\ \A o, p \in Offer : o # p => Given(o) # Given(p) /\ Returned(o) # Returned(p)
    /\ \A o \in Offer, i \in Interval, a \in Agent :
          Extra(i, a) # Given(o) /\ Extra(i, a) # Returned(o)
    /\ \A i, j \in Interval, a, b \in Agent : Extra(i, a) = Extra(j, b) => i = j /\ a = b
<1>1. /\ \A o \in Offer : Given(o) \in Unplanned /\ Returned(o) \in Unplanned
      /\ \A i \in Interval, a \in Agent : Extra(i, a) \in Unplanned
  BY DEF Unplanned
<1>2. Unplanned \subseteq ShiftId \ Planned
  BY IdAssumption DEF IdAssumption, ShiftId
<1>3. QED
  BY <1>1, <1>2 DEF Given, Returned, Extra

\* What Publish writes is a shift, published, with its agent and hours.
LEMMA PublishType ==
    ASSUME NEW a \in Agent, NEW i \in Interval
    PROVE  /\ Publish(a, i) \in ShiftRow
           /\ Publish(a, i).status = "PUBLISHED"
           /\ Publish(a, i).agent = a
           /\ Publish(a, i).at = i
           /\ Publish(a, i) # NoShift
  BY DEF Publish, ShiftRow, NoShift

\* A published shift has an agent and an interval, and cancelling keeps them.
LEMMA PublishedRow ==
    ASSUME TypeOK, NEW s \in ShiftId, Published(s)
    PROVE  /\ shift[s] \in ShiftRow
           /\ shift[s] # NoShift
           /\ shift[s].agent \in Agent /\ shift[s].at \in Interval
           /\ [shift[s] EXCEPT !.status = "CANCELLED"] \in ShiftRow
           /\ [shift[s] EXCEPT !.status = "CANCELLED"].status = "CANCELLED"
           /\ [shift[s] EXCEPT !.status = "CANCELLED"].agent = shift[s].agent
           /\ [shift[s] EXCEPT !.status = "CANCELLED"].at = shift[s].at
<1>1. shift[s] \in ShiftRow \cup {NoShift}
  BY DEF TypeOK
<1>2. shift[s] \in ShiftRow /\ shift[s] # NoShift
  BY <1>1 DEF Published, NoShift
<1>3. QED
  BY <1>2 DEF ShiftRow

\* An offer that is still open has both parties and a shift.
LEMMA ActiveRow ==
    ASSUME TypeOK, NEW o \in Offer, Active(o)
    PROVE  /\ offer[o] \in OfferRow
           /\ offer[o].status \in {"OPEN", "MANAGER_PENDING"}
           /\ offer[o].type \in {"SWAP", "OFFER"}
           /\ offer[o].source \in ShiftId
           /\ offer[o].target \in ShiftId \cup {None}
           /\ offer[o].by \in Agent
           /\ offer[o].to \in Agent \cup {None}
           /\ offer[o].expires \in Nat
<1>1. offer[o] \in OfferRow \cup AppliedRow \cup {NoOffer, Closed}
  BY DEF TypeOK
<1>2. offer[o] \in OfferRow
  BY <1>1 DEF Active, AppliedRow, NoOffer, Closed
<1>3. QED
  BY <1>2 DEF OfferRow

\* A shift ends after it begins.
LEMMA IntervalBounds ==
    ASSUME NEW i \in Interval
    PROVE  i.from \in Nat /\ i.to \in Nat /\ i.from < i.to
  BY ExchangeAssumption DEF ExchangeAssumption

-----------------------------------------------------------------------------
(* What the work-load checks say of two shifts.                              *)

\* Two shifts with the rest between them.
Apart(i, j) == i.to + Rest <= j.from \/ j.to + Rest <= i.from

\* In a rested load any two shifts are apart.
LEMMA RestedApart ==
    ASSUME NEW load, Rested(load), NEW s \in DOMAIN load, NEW t \in DOMAIN load, s # t,
           load[s] \in Interval, load[t] \in Interval
    PROVE  Apart(load[s], load[t])
<1>1. load[s].from \in Nat /\ load[t].from \in Nat
  BY IntervalBounds
<1>2. load[s].from <= load[t].from \/ load[t].from <= load[s].from
  BY <1>1
<1>3. QED
  BY <1>2 DEF Rested, Apart

\* An interval that an agent can take is apart from every shift the agent keeps.
LEMMA TakenApart ==
    ASSUME TypeOK, NEW a \in Agent, NEW s \in ShiftId, NEW i \in Interval, NEW except,
           CanTake(a, s, i, except),
           NEW t \in ShiftId, t # s, t \notin except, Published(t), shift[t].agent = a
    PROVE  Apart(i, shift[t].at)
<1> DEFINE held == Held(a, except)
           load == [x \in DOMAIN held \cup {s} |-> IF x = s THEN i ELSE held[x]]
<1>1. t \in DOMAIN held /\ held[t] = shift[t].at
  BY DEF Held, PublishedShifts
<1>2. Rested(load)
  BY DEF CanTake, Workable
<1>3. /\ s \in DOMAIN load /\ load[s] = i
      /\ t \in DOMAIN load /\ load[t] = shift[t].at
  BY <1>1
<1>4. shift[t].at \in Interval
  BY PublishedRow
<1> HIDE DEF load, held
<1>5. QED
  BY <1>2, <1>3, <1>4, RestedApart

\* A plan that fits is apart from the shifts its agent has, and from itself.
LEMMA PlanApart ==
    ASSUME TypeOK, NEW a \in Agent, NEW days, PlanFits(a, days),
           NEW p \in Candidates(a, days), NEW t \in ShiftId, t # p,
           NEW j \in Interval,
           \/ t \in Candidates(a, days) /\ j = Hours[t]
           \/ /\ t \notin Candidates(a, days) /\ j = shift[t].at
              /\ Published(t) /\ shift[t].agent = a
    PROVE  Apart(Hours[p], j)
<1> DEFINE held == Held(a, {})
           plan == Candidates(a, days)
           load == [x \in DOMAIN held \cup plan |-> IF x \in plan THEN Hours[x] ELSE held[x]]
<1>1. Rested(load)
  BY DEF PlanFits, Workable
<1>2. p \in DOMAIN load /\ load[p] = Hours[p]
  OBVIOUS
<1>3. t \in DOMAIN load /\ load[t] = j
  BY DEF Held, PublishedShifts
<1>4. Hours[p] \in Interval
  BY ExchangeAssumption DEF ExchangeAssumption, Candidates
<1> HIDE DEF load
<1>5. QED
  BY <1>1, <1>2, <1>3, <1>4, RestedApart

\* Whichever is named first.
LEMMA ApartSymmetric ==
    ASSUME NEW i, NEW j, Apart(i, j)
    PROVE  Apart(j, i)
  BY DEF Apart

\* Shifts stay apart when each new one is apart from those of its agent.
LEMMA RestKept ==
    ASSUME RestRespected, NEW Fresh,
           \A s \in ShiftId \ Fresh : Published(s)' => Published(s) /\ shift'[s] = shift[s],
           \A s, t \in ShiftId :
              s \in Fresh /\ Published(s)' /\ Published(t)' /\ s # t /\ shift'[s].agent = shift'[t].agent
                 => Apart(shift'[s].at, shift'[t].at)
    PROVE  RestRespected'
<1> SUFFICES ASSUME NEW s \in ShiftId, NEW t \in ShiftId,
                    Published(s)', Published(t)', s # t, shift'[s].agent = shift'[t].agent
             PROVE  Apart(shift'[s].at, shift'[t].at)
  BY DEF RestRespected, PublishedShifts, Apart
<1>1. CASE s \in Fresh
  BY <1>1
<1>2. CASE t \in Fresh
  BY <1>2, ApartSymmetric
<1>3. CASE s \notin Fresh /\ t \notin Fresh
  <2>1. /\ Published(s) /\ Published(t)
        /\ shift'[s] = shift[s] /\ shift'[t] = shift[t]
    BY <1>3
  <2>2. QED
    BY <2>1 DEF RestRespected, PublishedShifts, Apart
<1>4. QED
  BY <1>1, <1>2, <1>3

-----------------------------------------------------------------------------
(* The plan.                                                                 *)

\* A planned shift that is still missing is one its agent has room for.
LEMMA MissingFacts ==
    ASSUME NEW days, NEW p \in Missing(days)
    PROVE  /\ p \in Planned /\ p \in ShiftId
           /\ shift[p] = NoShift
           /\ p \in Candidates(Owner[p], days)
           /\ PlanFits(Owner[p], days)
           /\ Owner[p] \in Agent /\ Hours[p] \in Interval
  BY ExchangeAssumption DEF Missing, Candidates, ShiftId, ExchangeAssumption

\* What materialising does to each shift.
LEMMA MaterializeStep ==
    ASSUME NEW days, Materialize(days), NEW s \in ShiftId
    PROVE  /\ s \in Missing(days) => shift'[s] = Publish(Owner[s], Hours[s])
           /\ s \notin Missing(days) => shift'[s] = shift[s]
  BY DEF Materialize

\* The planned shifts of some days are published.
LEMMA MaterializeKeeps ==
    ASSUME IInv, NEW days \in SUBSET Days, Materialize(days)
    PROVE  IInv'
<1> USE DEF IInv
<1>1. UNCHANGED <<now, slot, claim, offer>>
  BY DEF Materialize
<1>2. \A s \in ShiftId : shift[s] # NoShift => shift'[s] = shift[s]
  BY MaterializeStep, MissingFacts
<1>3. \A s \in ShiftId \ Planned : shift'[s] = shift[s]
  BY MaterializeStep, MissingFacts
<1>4. TypeOK'
  <2>1. shift' \in [ShiftId -> ShiftRow \cup {NoShift}]
    <3>1. \A s \in ShiftId : shift'[s] \in ShiftRow \cup {NoShift}
      BY MaterializeStep, MissingFacts, PublishType DEF TypeOK
    <3>2. shift' = [s \in ShiftId |-> shift'[s]]
      BY DEF Materialize
    <3>3. QED
      BY <3>1, <3>2
  <2>2. QED
    BY <1>1, <2>1 DEF TypeOK
<1>5. IdsFollow'
  BY <1>1, <1>3, Ids DEF IdsFollow
<1>6. AsPlanned'
  <2> SUFFICES ASSUME NEW p \in Planned, shift'[p] # NoShift
               PROVE  shift'[p].agent = Owner[p] /\ shift'[p].at = Hours[p]
    BY DEF AsPlanned
  <2>1. p \in ShiftId
    BY DEF ShiftId
  <2>2. CASE p \in Missing(days)
    BY <2>1, <2>2, MaterializeStep, MissingFacts, PublishType
  <2>3. CASE p \notin Missing(days)
    BY <2>1, <2>3, MaterializeStep DEF AsPlanned
  <2>4. QED
    BY <2>2, <2>3
<1>7. TermsOK'
  BY <1>1 DEF TermsOK, Active
<1>8. \A s \in ShiftId : Published(s) => shift'[s] = shift[s]
  BY <1>2, PublishedRow
<1>9. OfferStands'
  <2> SUFFICES ASSUME NEW o \in Offer, Active(o)'
               PROVE  /\ Published(offer[o].source)' /\ shift'[offer[o].source].agent = offer[o].by
                      /\ offer[o].target # None =>
                            /\ Published(offer[o].target)'
                            /\ shift'[offer[o].target].agent = offer[o].to
    BY <1>1 DEF OfferStands
  <2>1. Active(o)
    BY <1>1 DEF Active
  <2>2. offer[o].source \in ShiftId /\ offer[o].target \in ShiftId \cup {None}
    BY <2>1, ActiveRow
  <2>3. QED
    BY <1>1, <2>1, <2>2, <1>8 DEF OfferStands, Published
<1>10. OneNegotiation'
  BY <1>1 DEF OneNegotiation, Active, Names
<1>11. RestRespected'
  <2>1. ASSUME NEW s \in ShiftId, NEW t \in ShiftId, s \in Missing(days),
               Published(t)', s # t, shift'[s].agent = shift'[t].agent
        PROVE  Apart(shift'[s].at, shift'[t].at)
    <3>1. Owner[s] = shift'[t].agent /\ shift'[s].at = Hours[s]
      BY <2>1, MaterializeStep, MissingFacts, PublishType
    <3>2. CASE t \in Candidates(Owner[s], days)
      <4>1. shift'[t] # NoShift /\ t \in Planned
        BY <2>1, <3>2 DEF Published, NoShift, Candidates
      <4>2. shift'[t].at = Hours[t] /\ Hours[t] \in Interval
        BY <4>1, <1>6, ExchangeAssumption DEF AsPlanned, ExchangeAssumption
      <4>3. QED
        BY <2>1, <3>1, <3>2, <4>2, MissingFacts, PlanApart
    <3>3. CASE t \notin Candidates(Owner[s], days)
      <4>1. t \notin Missing(days)
        BY <2>1, <3>1, <3>3, MaterializeStep, MissingFacts, PublishType
      <4>2. shift'[t] = shift[t]
        BY <4>1, <2>1, MaterializeStep
      <4>3. Published(t) /\ shift[t].agent = Owner[s]
        BY <4>2, <2>1, <3>1 DEF Published
      <4>4. shift[t].at \in Interval
        BY <4>3, <2>1, PublishedRow
      <4>5. QED
        BY <2>1, <3>1, <3>3, <4>2, <4>3, <4>4, MissingFacts, PlanApart
    <3>4. QED
      BY <3>2, <3>3
  <2>2. \A s \in ShiftId \ Missing(days) : Published(s)' => Published(s) /\ shift'[s] = shift[s]
    BY MaterializeStep DEF Published
  <2>3. QED
    BY <2>1, <2>2, RestKept
<1>12. SlotsAddUp' /\ MonthlyLimit'
  BY <1>1 DEF SlotsAddUp, Approved, MonthlyLimit, Exchanges
<1>13. QED
  BY <1>4, <1>5, <1>6, <1>7, <1>9, <1>10, <1>11, <1>12

-----------------------------------------------------------------------------
(* Extra slots.                                                              *)

\* There are finitely many agents, and an extra slot has some places.
LEMMA AgentsFinite ==
    /\ IsFiniteSet(Agent)
    /\ Capacity \in Nat \ {0}
  BY ExchangeAssumption DEF ExchangeAssumption

\* So the approved claims of a slot can be counted.
LEMMA ApprovedFinite ==
    ASSUME NEW i
    PROVE  IsFiniteSet(Approved(i)) /\ Cardinality(Approved(i)) \in Nat
<1>1. Approved(i) \subseteq Agent
  BY DEF Approved
<1>2. QED
  BY <1>1, AgentsFinite, FS_Subset, FS_CardinalityType

\* A step that leaves shifts and offers alone and approves nobody.
LEMMA QuietStep ==
    ASSUME IInv, UNCHANGED <<now, shift, offer>>,
           slot' \in [Interval -> {"NONE", "OPEN", "FILLED"}],
           claim' \in [Interval \X Agent -> {"NONE", "PENDING", "APPROVED", "REJECTED"}],
           \A i \in Interval : slot'[i] = "FILLED" <=> slot[i] = "FILLED",
           \A i \in Interval, a \in Agent :
              claim'[<<i, a>>] = "APPROVED" <=> claim[<<i, a>>] = "APPROVED"
    PROVE  IInv'
<1> USE DEF IInv
<1>1. TypeOK'
  BY DEF TypeOK
<1>2. IdsFollow' /\ AsPlanned' /\ TermsOK'
  BY DEF IdsFollow, AsPlanned, TermsOK, Active
<1>3. OfferStands' /\ OneNegotiation'
  BY DEF OfferStands, OneNegotiation, Active, Names, Published
<1>4. RestRespected' /\ MonthlyLimit'
  BY DEF RestRespected, PublishedShifts, Published, MonthlyLimit, Exchanges
<1>5. \A i \in Interval : Approved(i)' = Approved(i)
  BY DEF Approved
<1>6. SlotsAddUp'
  BY <1>5 DEF SlotsAddUp
<1>7. QED
  BY <1>1, <1>2, <1>3, <1>4, <1>6

\* An extra slot is opened.
LEMMA CreateSlotKeeps ==
    ASSUME IInv, NEW i \in Interval, CreateSlot(i)
    PROVE  IInv'
<1>1. slot' \in [Interval -> {"NONE", "OPEN", "FILLED"}]
  BY DEF IInv, TypeOK, CreateSlot
<1>2. \A j \in Interval : slot'[j] = "FILLED" <=> slot[j] = "FILLED"
  BY DEF IInv, TypeOK, CreateSlot
<1>3. claim' = claim /\ UNCHANGED <<now, shift, offer>>
  BY DEF CreateSlot
<1>4. claim' \in [Interval \X Agent -> {"NONE", "PENDING", "APPROVED", "REJECTED"}]
  BY <1>3 DEF IInv, TypeOK
<1>5. QED
  BY <1>1, <1>2, <1>3, <1>4, QuietStep

\* A claim that is not approved gets another status, but not that one.
LEMMA ClaimOnlyKeeps ==
    ASSUME IInv, NEW i \in Interval, NEW a \in Agent, NEW st \in {"PENDING", "REJECTED"},
           claim[<<i, a>>] # "APPROVED",
           claim' = [claim EXCEPT ![<<i, a>>] = st],
           UNCHANGED <<now, shift, slot, offer>>
    PROVE  IInv'
<1>1. claim \in [Interval \X Agent -> {"NONE", "PENDING", "APPROVED", "REJECTED"}]
  BY DEF IInv, TypeOK
<1>2. claim' \in [Interval \X Agent -> {"NONE", "PENDING", "APPROVED", "REJECTED"}]
  BY <1>1
<1>3. \A j \in Interval, b \in Agent :
         claim'[<<j, b>>] = "APPROVED" <=> claim[<<j, b>>] = "APPROVED"
  BY <1>1
<1>4. slot' \in [Interval -> {"NONE", "OPEN", "FILLED"}]
  BY DEF IInv, TypeOK
<1>5. QED
  BY <1>2, <1>3, <1>4, QuietStep

\* A claim is approved: the slot has a place, and the agent the rest.
LEMMA ApproveKeeps ==
    ASSUME IInv, NEW i \in Interval, NEW a \in Agent, ApproveClaim(i, a),
           claim[<<i, a>>] # "APPROVED", UNCHANGED <<now, offer>>
    PROVE  IInv'
<1> USE DEF IInv
<1> DEFINE e == Extra(i, a)
<1>1. e \in ShiftId \ Planned /\ shift[e] = NoShift
  BY Ids DEF IdsFollow
<1>2. /\ shift'[e] = Publish(a, i)
      /\ \A s \in ShiftId : s # e => shift'[s] = shift[s]
  BY <1>1 DEF ApproveClaim, TypeOK
<1>3. /\ claim'[<<i, a>>] = "APPROVED"
      /\ \A j \in Interval, b \in Agent : j # i \/ b # a => claim'[<<j, b>>] = claim[<<j, b>>]
  BY DEF ApproveClaim, TypeOK
<1>4. TypeOK'
  <2>1. shift' \in [ShiftId -> ShiftRow \cup {NoShift}]
    BY <1>1, PublishType DEF ApproveClaim, TypeOK
  <2>2. claim' \in [Interval \X Agent -> {"NONE", "PENDING", "APPROVED", "REJECTED"}]
    BY DEF ApproveClaim, TypeOK
  <2>3. slot' \in [Interval -> {"NONE", "OPEN", "FILLED"}]
    BY DEF ApproveClaim, TypeOK
  <2>4. QED
    BY <2>1, <2>2, <2>3 DEF TypeOK
<1>5. IdsFollow'
  <2>1. \A o \in Offer : shift'[Given(o)] = shift[Given(o)] /\ shift'[Returned(o)] = shift[Returned(o)]
    BY <1>2, Ids
  <2>2. \A j \in Interval, b \in Agent :
           j # i \/ b # a => shift'[Extra(j, b)] = shift[Extra(j, b)]
    BY <1>2, Ids
  <2>3. QED
    BY <2>1, <2>2, <1>3 DEF IdsFollow
<1>6. AsPlanned'
  BY <1>1, <1>2 DEF AsPlanned, ShiftId
<1>7. TermsOK'
  BY DEF TermsOK, Active
<1>8. \A s \in ShiftId : Published(s) => shift'[s] = shift[s]
  BY <1>1, <1>2, PublishedRow
<1>9. OfferStands'
  <2> SUFFICES ASSUME NEW o \in Offer, Active(o)
               PROVE  /\ Published(offer[o].source)' /\ shift'[offer[o].source].agent = offer[o].by
                      /\ offer[o].target # None =>
                            /\ Published(offer[o].target)'
                            /\ shift'[offer[o].target].agent = offer[o].to
    BY DEF OfferStands, Active
  <2>1. offer[o].source \in ShiftId /\ offer[o].target \in ShiftId \cup {None}
    BY ActiveRow
  <2>2. QED
    BY <2>1, <1>8 DEF OfferStands, Published
<1>10. OneNegotiation'
  BY DEF OneNegotiation, Active, Names
<1>11. RestRespected'
  <2>1. \A s \in ShiftId \ {e} : Published(s)' => Published(s) /\ shift'[s] = shift[s]
    BY <1>2 DEF Published
  <2>2. ASSUME NEW t \in ShiftId, Published(t)', t # e, shift'[e].agent = shift'[t].agent
        PROVE  Apart(shift'[e].at, shift'[t].at)
    <3>1. Published(t) /\ shift'[t] = shift[t] /\ shift[t].agent = a
      BY <2>1, <2>2, <1>2, PublishType
    <3>2. CanTake(a, e, i, {})
      BY DEF ApproveClaim
    <3>3. Apart(i, shift[t].at)
      BY <1>1, <2>2, <3>1, <3>2, TakenApart
    <3>4. QED
      BY <1>2, <3>1, <3>3, PublishType
  <2>3. \A s, t \in ShiftId :
           s \in {e} /\ Published(t)' /\ s # t /\ shift'[s].agent = shift'[t].agent
              => Apart(shift'[s].at, shift'[t].at)
    BY <2>2
  <2> HIDE DEF e
  <2>4. QED
    BY <2>1, <2>3, RestKept
<1>12. SlotsAddUp'
  <2>1. Approved(i)' = Approved(i) \cup {a} /\ a \notin Approved(i)
    BY <1>3 DEF Approved
  <2>2. Cardinality(Approved(i)') = Cardinality(Approved(i)) + 1
    BY <2>1, ApprovedFinite, FS_AddElement
  <2>3. /\ Cardinality(Approved(i)) < Capacity
        /\ slot[i] = "OPEN"
        /\ slot' = IF FilledBy(i) THEN [slot EXCEPT ![i] = "FILLED"] ELSE slot
    BY DEF ApproveClaim
  <2>4. /\ Cardinality(Approved(i)') <= Capacity
        /\ slot'[i] = "FILLED" <=> Cardinality(Approved(i)') = Capacity
    <3>1. FilledBy(i) <=> Cardinality(Approved(i)') = Capacity
      BY <2>2, <2>3, ApprovedFinite, AgentsFinite DEF FilledBy
    <3>2. slot'[i] = "FILLED" <=> FilledBy(i)
      BY <2>3 DEF TypeOK
    <3>3. QED
      BY <2>2, <2>3, <3>1, <3>2, ApprovedFinite, AgentsFinite
  <2>5. ASSUME NEW j \in Interval, j # i
        PROVE  Approved(j)' = Approved(j) /\ slot'[j] = slot[j]
    BY <2>3, <2>5, <1>3 DEF Approved, TypeOK
  <2>6. QED
    BY <2>4, <2>5 DEF SlotsAddUp
<1>13. MonthlyLimit'
  BY DEF MonthlyLimit, Exchanges
<1>14. QED
  BY <1>4, <1>5, <1>6, <1>7, <1>9, <1>10, <1>11, <1>12, <1>13

\* An agent claims a slot, and may have it at once.
LEMMA ClaimSlotKeeps ==
    ASSUME IInv, NEW i \in Interval, NEW a \in Agent, ClaimSlot(i, a)
    PROVE  IInv'
<1>1. claim[<<i, a>>] # "APPROVED" /\ UNCHANGED <<now, offer>>
  BY DEF ClaimSlot
<1>2. CASE ApproveClaim(i, a)
  BY <1>1, <1>2, ApproveKeeps
<1>3. CASE ~ApproveClaim(i, a)
  BY <1>1, <1>3, ClaimOnlyKeeps DEF ClaimSlot
<1>4. QED
  BY <1>2, <1>3

\* A manager decides a claim.
LEMMA DecideClaimKeeps ==
    ASSUME IInv, NEW i \in Interval, NEW a \in Agent, DecideClaim(i, a)
    PROVE  IInv'
<1>1. claim[<<i, a>>] # "APPROVED" /\ UNCHANGED <<now, offer>>
  BY DEF DecideClaim
<1>2. CASE ApproveClaim(i, a)
  BY <1>1, <1>2, ApproveKeeps
<1>3. CASE ~ApproveClaim(i, a)
  BY <1>1, <1>3, ClaimOnlyKeeps DEF DecideClaim
<1>4. QED
  BY <1>2, <1>3

-----------------------------------------------------------------------------
(* Offers.                                                                   *)

\* What active offers name is what Negotiated lists.
LEMMA NegotiatedNames ==
    ASSUME NEW o \in Offer, NEW p \in Offer, o # p, Active(p)
    PROVE  Names(p) \subseteq Negotiated({o}) /\ Names(p) \subseteq Negotiated({})
<1>1. p \in {x \in Offer \ {o} : Active(x)} /\ p \in {x \in Offer \ {} : Active(x)}
  OBVIOUS
<1>2. QED
  BY <1>1 DEF Negotiated

\* The shifts of an open offer are in no other open offer.
LEMMA SourceNotNegotiated ==
    ASSUME TypeOK, OneNegotiation, NEW o \in Offer, Active(o)
    PROVE  Names(o) \cap Negotiated({o}) = {}
<1> SUFFICES ASSUME NEW s \in Names(o), s \in Negotiated({o}) PROVE FALSE
  OBVIOUS
<1>1. PICK p \in Offer \ {o} : Active(p) /\ s \in Names(p)
  BY DEF Negotiated
<1>2. QED
  BY <1>1 DEF OneNegotiation

\* An offer that is not applied gets active terms that hold and cross no other.
LEMMA TermsStep ==
    ASSUME IInv, NEW o \in Offer, offer[o].status # "APPLIED",
           NEW row \in OfferRow, offer' = [offer EXCEPT ![o] = row],
           UNCHANGED <<now, shift, slot, claim>>,
           row.by # row.to,
           row.type = "OFFER" => row.target = None,
           row.status = "MANAGER_PENDING" => row.to \in Agent,
           Published(row.source), shift[row.source].agent = row.by,
           row.target # None => Published(row.target) /\ shift[row.target].agent = row.to,
           ({row.source, row.target} \ {None}) \cap Negotiated({o}) = {}
    PROVE  IInv'
<1> USE DEF IInv
<1>1. offer'[o] = row /\ \A p \in Offer : p # o => offer'[p] = offer[p]
  BY DEF TypeOK
<1>2. row.status \in {"OPEN", "MANAGER_PENDING"}
  BY DEF OfferRow
<1>3. TypeOK'
  BY DEF TypeOK
<1>4. IdsFollow'
  BY <1>1 DEF IdsFollow
<1>5. AsPlanned'
  BY DEF AsPlanned
<1>6. TermsOK'
  BY <1>1 DEF TermsOK, Active
<1>7. OfferStands'
  BY <1>1 DEF OfferStands, Active, Published
<1>8. OneNegotiation'
  <2>1. Names(o)' = {row.source, row.target} \ {None}
    BY <1>1 DEF Names
  <2>2. \A p \in Offer : p # o => Names(p)' = Names(p) /\ (Active(p)' <=> Active(p))
    BY <1>1 DEF Names, Active
  <2>3. ASSUME NEW p \in Offer, p # o, Active(p)'
        PROVE  Names(o)' \cap Names(p)' = {}
    BY <2>1, <2>2, <2>3, NegotiatedNames
  <2>4. ASSUME NEW p \in Offer, NEW q \in Offer, p # q, Active(p)', Active(q)', p # o, q # o
        PROVE  Names(p)' \cap Names(q)' = {}
    BY <2>2, <2>4 DEF OneNegotiation
  <2> HIDE DEF IInv
  <2>5. QED
    BY <2>3, <2>4 DEF OneNegotiation
<1>9. RestRespected'
  BY DEF RestRespected, PublishedShifts, Published
<1>10. SlotsAddUp'
  BY DEF SlotsAddUp, Approved
<1>11. MonthlyLimit'
  <2>1. \A a \in Agent, m \in Nat : Exchanges(a, m)' = Exchanges(a, m)
    BY <1>1, <1>2 DEF Exchanges
  <2>2. \A m \in 0 .. MaxTime \div Month : m \in Nat
    OBVIOUS
  <2>3. QED
    BY <2>1, <2>2 DEF MonthlyLimit
<1>12. QED
  BY <1>3, <1>4, <1>5, <1>6, <1>7, <1>8, <1>9, <1>10, <1>11

\* An offer is made.
LEMMA CreateOfferKeeps ==
    ASSUME IInv, NEW o \in Offer, NEW type \in {"SWAP", "OFFER"},
           NEW source \in PublishedShifts, NEW target \in PublishedShifts \cup {None},
           NEW to \in Agent \cup {None}, NEW expires \in Nat,
           CreateOffer(o, type, source, target, to, expires)
    PROVE  IInv'
<1> DEFINE row == [status |-> "OPEN", type |-> type, source |-> source,
                   target |-> target, by |-> shift[source].agent, to |-> to,
                   expires |-> expires]
<1>1. /\ source \in ShiftId /\ Published(source)
      /\ target \in ShiftId \cup {None}
      /\ shift[source].agent \in Agent
  BY PublishedRow DEF PublishedShifts, IInv
<1>2. row \in OfferRow
  BY <1>1 DEF OfferRow
<1>3. /\ offer[o].status # "APPLIED"
      /\ offer' = [offer EXCEPT ![o] = row]
      /\ UNCHANGED <<now, shift, slot, claim>>
      /\ to # shift[source].agent
      /\ target # None => type = "SWAP" /\ Published(target) /\ shift[target].agent = to
      /\ ({source, target} \ {None}) \cap Negotiated({}) = {}
  BY DEF CreateOffer, NoOffer
<1>4. Negotiated({o}) \subseteq Negotiated({})
  BY DEF Negotiated
<1>5. /\ row.status = "OPEN" /\ row.type = type
      /\ row.source = source /\ row.target = target
      /\ row.by = shift[source].agent /\ row.to = to
  OBVIOUS
<1> HIDE DEF row
<1>6. ({row.source, row.target} \ {None}) \cap Negotiated({o}) = {}
  BY <1>3, <1>4, <1>5
<1>7. QED
  BY <1>1, <1>2, <1>3, <1>5, <1>6, TermsStep

\* An offer is closed without an exchange.
LEMMA CloseKeeps ==
    ASSUME IInv, NEW o \in Offer, Active(o), Close(o)
    PROVE  IInv'
<1> USE DEF IInv
<1>1. UNCHANGED <<now, shift, slot, claim>>
  BY DEF Close
<1>2. offer'[o] = Closed /\ \A p \in Offer : p # o => offer'[p] = offer[p]
  BY DEF Close, TypeOK
<1>3. TypeOK'
  BY DEF Close, TypeOK
<1>4. \A p \in Offer : Active(p)' => p # o /\ Active(p)
  BY <1>2 DEF Active, Closed
<1>5. offer[o].status # "APPLIED"
  BY DEF Active
<1>6. IdsFollow' /\ AsPlanned'
  BY <1>1, <1>2, <1>5 DEF IdsFollow, AsPlanned
<1>7. TermsOK' /\ OfferStands'
  BY <1>1, <1>2, <1>4 DEF TermsOK, OfferStands, Published
<1>8. OneNegotiation'
  BY <1>2, <1>4 DEF OneNegotiation, Names
<1>9. RestRespected' /\ SlotsAddUp'
  BY <1>1 DEF RestRespected, PublishedShifts, Published, SlotsAddUp, Approved
<1>10. MonthlyLimit'
  <2>1. \A a \in Agent, m \in 0 .. MaxTime \div Month : Exchanges(a, m)' = Exchanges(a, m)
    BY <1>2, <1>5 DEF Exchanges, Closed
  <2>2. QED
    BY <2>1 DEF MonthlyLimit
<1>11. QED
  BY <1>3, <1>6, <1>7, <1>8, <1>9, <1>10

\* An active offer may be applied between its agent and `to': both sides hold
\* what they give, and no other offer names it.
Ready(o, source, target, by, to) ==
    /\ Active(o) /\ source = offer[o].source /\ by = offer[o].by
    /\ by \in Agent /\ to \in Agent /\ by # to
    /\ source \in ShiftId /\ Published(source) /\ shift[source].agent = by
    /\ target # None =>
          /\ offer[o].type = "SWAP"
          /\ target \in ShiftId /\ Published(target) /\ shift[target].agent = to
    /\ ({source, target} \ {None}) \cap Negotiated({o}) = {}

\* What an acceptance checked is what the exchange needs,
LEMMA AcceptReady ==
    ASSUME IInv, NEW o \in Offer, NEW a \in Agent,
           NEW target \in PublishedShifts \cup {None}, AcceptOffer(o, a, target)
    PROVE  Ready(o, offer[o].source, target, offer[o].by, a)
<1>1. Active(o) /\ a # offer[o].by /\ target \in Counterparts(o, a)
  BY DEF AcceptOffer, Active
<1>2. /\ offer[o].source \in ShiftId /\ offer[o].by \in Agent
      /\ offer[o].type \in {"SWAP", "OFFER"}
  BY <1>1, ActiveRow DEF IInv
<1>3. Published(offer[o].source) /\ shift[offer[o].source].agent = offer[o].by
  BY <1>1 DEF IInv, OfferStands
<1>4. target # None =>
         /\ offer[o].type = "SWAP"
         /\ target \in ShiftId /\ Published(target) /\ shift[target].agent = a
         /\ target \notin Negotiated({o})
  BY <1>1, <1>2 DEF Counterparts, PublishedShifts
<1>5. offer[o].source \notin Negotiated({o})
  <2>1. offer[o].source \in Names(o)
    BY <1>2, IdAssumption DEF Names, IdAssumption
  <2>2. QED
    BY <2>1, <1>1, SourceNotNegotiated DEF IInv
<1>6. QED
  BY <1>1, <1>2, <1>3, <1>4, <1>5 DEF Ready

\* and so is what a manager's decision checked.
LEMMA DecideReady ==
    ASSUME IInv, NEW o \in Offer, Decidable(o)
    PROVE  Ready(o, offer[o].source, offer[o].target, offer[o].by, offer[o].to)
<1>1. Active(o) /\ offer[o].to \in Agent /\ offer[o].by # offer[o].to
  BY DEF Decidable, Active, IInv, TermsOK
<1>2. /\ offer[o].source \in ShiftId /\ offer[o].by \in Agent
      /\ offer[o].target \in ShiftId \cup {None}
      /\ offer[o].type \in {"SWAP", "OFFER"}
  BY <1>1, ActiveRow DEF IInv
<1>3. /\ Published(offer[o].source) /\ shift[offer[o].source].agent = offer[o].by
      /\ offer[o].target # None =>
            /\ Published(offer[o].target) /\ shift[offer[o].target].agent = offer[o].to
            /\ offer[o].type = "SWAP"
  BY <1>1, <1>2 DEF IInv, OfferStands, TermsOK
<1>4. ({offer[o].source, offer[o].target} \ {None}) \cap Negotiated({o}) = {}
  BY <1>1, SourceNotNegotiated DEF IInv, Names
<1>5. QED
  BY <1>1, <1>2, <1>3, <1>4 DEF Ready

\* An acceptance that awaits the manager.
LEMMA AcceptPendingKeeps ==
    ASSUME IInv, NEW o \in Offer, NEW a \in Agent,
           NEW target \in PublishedShifts \cup {None},
           AcceptOffer(o, a, target), ~Automatic(o)
    PROVE  IInv'
<1> DEFINE row == [status |-> "MANAGER_PENDING", type |-> offer[o].type,
                   source |-> offer[o].source, target |-> target, by |-> offer[o].by,
                   to |-> a, expires |-> offer[o].expires]
<1>1. Ready(o, offer[o].source, target, offer[o].by, a)
  BY AcceptReady
<1>2. Active(o) /\ offer[o].status # "APPLIED"
  BY DEF AcceptOffer, Active
<1>3. row \in OfferRow
  BY <1>1, <1>2, ActiveRow DEF Ready, OfferRow, IInv
<1>4. /\ offer' = [offer EXCEPT ![o] = row]
      /\ UNCHANGED <<now, shift, slot, claim>>
  BY DEF AcceptOffer, IInv, TypeOK
<1>5. /\ row.status = "MANAGER_PENDING" /\ row.type = offer[o].type
      /\ row.source = offer[o].source /\ row.target = target
      /\ row.by = offer[o].by /\ row.to = a
  OBVIOUS
<1> HIDE DEF row
<1>6. /\ row.by # row.to
      /\ row.type = "OFFER" => row.target = None
      /\ row.to \in Agent
      /\ Published(row.source) /\ shift[row.source].agent = row.by
      /\ row.target # None => Published(row.target) /\ shift[row.target].agent = row.to
      /\ ({row.source, row.target} \ {None}) \cap Negotiated({o}) = {}
  BY <1>1, <1>5 DEF Ready
<1>7. QED
  BY <1>2, <1>3, <1>4, <1>6, TermsStep

-----------------------------------------------------------------------------
(* Exchanges.                                                                *)

\* What an exchange does to each shift: it cancels what is given, and writes the
\* replacements where nothing was.
Exchanged(o, source, target, by, to) ==
    /\ shift[Given(o)] = NoShift /\ shift[Returned(o)] = NoShift
    /\ shift'[source] = [shift[source] EXCEPT !.status = "CANCELLED"]
    /\ target # None => shift'[target] = [shift[target] EXCEPT !.status = "CANCELLED"]
    /\ shift'[Given(o)] = Publish(to, shift[source].at)
    /\ shift'[Returned(o)] =
          IF target = None THEN NoShift ELSE Publish(by, shift[target].at)
    /\ \A s \in ShiftId :
          s \notin {source, target, Given(o), Returned(o)} => shift'[s] = shift[s]

\* What an exchange writes: the shifts change hands, or new ones replace them.
LEMMA ExchangeRows ==
    ASSUME IInv, NEW o \in Offer, NEW source, NEW target, NEW by, NEW to,
           Ready(o, source, target, by, to), Exchange(o, source, target, by, to)
    PROVE  Exchanged(o, source, target, by, to)
<1>1. shift[Given(o)] = NoShift /\ shift[Returned(o)] = NoShift
  BY DEF Ready, Active, IInv, IdsFollow
<1>2. /\ Given(o) \in ShiftId /\ Returned(o) \in ShiftId /\ Given(o) # Returned(o)
      /\ None \notin ShiftId
  BY Ids, IdAssumption DEF IdAssumption
<1>3. source \in ShiftId /\ target # None => target \in ShiftId
  BY DEF Ready
<1>4. /\ Given(o) \notin {source, target} /\ Returned(o) \notin {source, target}
  BY <1>1, <1>2 DEF Ready, Published, NoShift
<1>5. shift' = [s \in ShiftId |->
          IF s \in {source, target} THEN [shift[s] EXCEPT !.status = "CANCELLED"]
          ELSE IF s \notin Replacements(o, target) THEN shift[s]
          ELSE IF s = Given(o) THEN Publish(to, shift[source].at)
          ELSE Publish(by, shift[target].at)]
  BY DEF Exchange
<1>6. shift'[source] = [shift[source] EXCEPT !.status = "CANCELLED"]
  BY <1>5 DEF Ready
<1>7. target # None => shift'[target] = [shift[target] EXCEPT !.status = "CANCELLED"]
  BY <1>5 DEF Ready
<1>8. shift'[Given(o)] = Publish(to, shift[source].at)
  BY <1>2, <1>4, <1>5 DEF Replacements
<1>9. shift'[Returned(o)] =
         IF target = None THEN NoShift ELSE Publish(by, shift[target].at)
  BY <1>1, <1>2, <1>4, <1>5 DEF Replacements
<1>10. \A s \in ShiftId :
          s \notin {source, target, Given(o), Returned(o)} => shift'[s] = shift[s]
  BY <1>5 DEF Replacements
<1>11. QED
  BY <1>1, <1>6, <1>7, <1>8, <1>9, <1>10 DEF Exchanged

\* The rows after an exchange, by what they are read for.
LEMMA ExchangeReads ==
    ASSUME IInv, NEW o \in Offer, NEW source, NEW target, NEW by, NEW to,
           Ready(o, source, target, by, to), Exchanged(o, source, target, by, to)
    PROVE  /\ shift'[source] \in ShiftRow /\ shift'[source].status = "CANCELLED"
           /\ shift'[source].agent = shift[source].agent
           /\ shift'[source].at = shift[source].at
           /\ target # None =>
                 /\ shift'[target] \in ShiftRow /\ shift'[target].status = "CANCELLED"
                 /\ shift'[target].agent = shift[target].agent
                 /\ shift'[target].at = shift[target].at
           /\ shift[source].at \in Interval
           /\ target # None => shift[target].at \in Interval
           /\ shift'[Given(o)] \in ShiftRow
           /\ shift'[Given(o)].agent = to /\ shift'[Given(o)].at = shift[source].at
           /\ target = None => shift'[Returned(o)] = NoShift
           /\ target # None =>
                 /\ shift'[Returned(o)] \in ShiftRow
                 /\ shift'[Returned(o)].agent = by
                 /\ shift'[Returned(o)].at = shift[target].at
<1>1. /\ source \in ShiftId /\ Published(source) /\ by \in Agent /\ to \in Agent
      /\ target # None => target \in ShiftId /\ Published(target)
      /\ TypeOK
  BY DEF Ready, IInv
<1>2. /\ [shift[source] EXCEPT !.status = "CANCELLED"] \in ShiftRow
      /\ [shift[source] EXCEPT !.status = "CANCELLED"].status = "CANCELLED"
      /\ [shift[source] EXCEPT !.status = "CANCELLED"].agent = shift[source].agent
      /\ [shift[source] EXCEPT !.status = "CANCELLED"].at = shift[source].at
      /\ shift[source].at \in Interval
  BY <1>1, PublishedRow
<1>3. ASSUME target # None
      PROVE  /\ [shift[target] EXCEPT !.status = "CANCELLED"] \in ShiftRow
             /\ [shift[target] EXCEPT !.status = "CANCELLED"].status = "CANCELLED"
             /\ [shift[target] EXCEPT !.status = "CANCELLED"].agent = shift[target].agent
             /\ [shift[target] EXCEPT !.status = "CANCELLED"].at = shift[target].at
             /\ shift[target].at \in Interval
  BY <1>1, <1>3, PublishedRow
<1>4. /\ Publish(to, shift[source].at) \in ShiftRow
      /\ Publish(to, shift[source].at).agent = to
      /\ Publish(to, shift[source].at).at = shift[source].at
  BY <1>1, <1>2, PublishType
<1>5. ASSUME target # None
      PROVE  /\ Publish(by, shift[target].at) \in ShiftRow
             /\ Publish(by, shift[target].at).agent = by
             /\ Publish(by, shift[target].at).at = shift[target].at
  BY <1>1, <1>3, <1>5, PublishType
<1>6. QED
  BY <1>2, <1>3, <1>4, <1>5 DEF Exchanged

\* After an exchange, the types,
LEMMA ExchangeTypes ==
    ASSUME IInv, NEW o \in Offer, NEW source, NEW target, NEW by, NEW to,
           Ready(o, source, target, by, to), Exchange(o, source, target, by, to)
    PROVE  TypeOK'
<1>1. \A s \in ShiftId : shift'[s] \in ShiftRow \cup {NoShift}
  <2> SUFFICES ASSUME NEW s \in ShiftId
               PROVE  shift'[s] \in ShiftRow \cup {NoShift}
    OBVIOUS
  <2>1. Exchanged(o, source, target, by, to)
    BY ExchangeRows
  <2>2. CASE s \in {source, target}
    BY <2>1, <2>2, ExchangeReads, IdAssumption DEF IdAssumption
  <2>3. CASE s \in {Given(o), Returned(o)}
    BY <2>1, <2>3, ExchangeReads
  <2>4. CASE s \notin {source, target, Given(o), Returned(o)}
    BY <2>1, <2>4 DEF Exchanged, IInv, TypeOK
  <2>5. QED
    BY <2>2, <2>3, <2>4
<1>2. shift' = [s \in ShiftId |-> shift'[s]]
  BY DEF Exchange
<1>3. shift' \in [ShiftId -> ShiftRow \cup {NoShift}]
  BY <1>1, <1>2
<1>4. now \in Nat
  BY DEF IInv, TypeOK
<1>5. [status |-> "APPLIED", by |-> by, to |-> to, appliedAt |-> now] \in AppliedRow
  BY <1>4 DEF AppliedRow, Ready
<1>6. offer' \in [Offer -> OfferRow \cup AppliedRow \cup {NoOffer, Closed}]
  BY <1>5 DEF Exchange, IInv, TypeOK
<1>7. QED
  BY <1>3, <1>6 DEF Exchange, IInv, TypeOK

\* the rest between shifts,
LEMMA ExchangeRest ==
    ASSUME IInv, NEW o \in Offer, NEW source, NEW target, NEW by, NEW to,
           Ready(o, source, target, by, to), Exchange(o, source, target, by, to)
    PROVE  RestRespected'
<1> DEFINE fresh == {Given(o), Returned(o)}
<1>1. /\ Given(o) \in ShiftId /\ Returned(o) \in ShiftId /\ Given(o) # Returned(o)
      /\ source \in ShiftId /\ by # to /\ by \in Agent /\ to \in Agent
      /\ None \notin ShiftId
  BY Ids, IdAssumption DEF Ready, IdAssumption
<1>2. Exchanged(o, source, target, by, to)
  BY ExchangeRows
<1>3. /\ shift[source].at \in Interval
      /\ target # None => target \in ShiftId /\ shift[target].at \in Interval
  BY <1>2, ExchangeReads DEF Ready
<1>4. ~Published(source)' /\ (target # None => ~Published(target)')
  BY <1>2, ExchangeReads DEF Published
<1>5. \A t \in ShiftId \ fresh :
         Published(t)' => /\ t \notin {source, target} /\ shift'[t] = shift[t]
                          /\ Published(t)
  BY <1>1, <1>2, <1>4 DEF Published, Exchanged
<1>6. /\ shift'[Given(o)].agent = to /\ shift'[Given(o)].at = shift[source].at
  BY <1>2, ExchangeReads
<1>7. Published(Returned(o))' =>
         /\ target # None
         /\ shift'[Returned(o)].agent = by /\ shift'[Returned(o)].at = shift[target].at
  BY <1>2, ExchangeReads DEF Published, NoShift
<1>8. ASSUME NEW t \in ShiftId, Published(t)', t # Given(o),
             shift'[Given(o)].agent = shift'[t].agent
      PROVE  Apart(shift'[Given(o)].at, shift'[t].at)
  <2>1. t \notin fresh
    BY <1>1, <1>6, <1>7, <1>8
  <2>2. t \notin {source, target} /\ shift'[t] = shift[t] /\ Published(t)
    BY <1>5, <1>8, <2>1
  <2>3. shift[t].agent = to
    BY <1>6, <1>8, <2>2
  <2>4. CanTake(to, Given(o), shift[source].at, {target})
    BY DEF Exchange, Applicable
  <2>5. Apart(shift[source].at, shift[t].at)
    BY <1>1, <1>3, <1>8, <2>2, <2>3, <2>4, TakenApart DEF IInv
  <2>6. QED
    BY <1>6, <2>2, <2>5
<1>9. ASSUME NEW t \in ShiftId, Published(Returned(o))', Published(t)', t # Returned(o),
             shift'[Returned(o)].agent = shift'[t].agent
      PROVE  Apart(shift'[Returned(o)].at, shift'[t].at)
  <2>1. t \notin fresh
    BY <1>1, <1>6, <1>7, <1>9
  <2>2. t \notin {source, target} /\ shift'[t] = shift[t] /\ Published(t)
    BY <1>5, <1>9, <2>1
  <2>3. shift[t].agent = by
    BY <1>7, <1>9, <2>2
  <2>4. CanTake(by, Returned(o), shift[target].at, {source})
    BY <1>7, <1>9 DEF Exchange, Applicable, Ready
  <2>5. Apart(shift[target].at, shift[t].at)
    BY <1>1, <1>3, <1>7, <1>9, <2>2, <2>3, <2>4, TakenApart DEF IInv
  <2>6. QED
    BY <1>7, <1>9, <2>2, <2>5
<1>10. \A s \in ShiftId \ fresh : Published(s)' => Published(s) /\ shift'[s] = shift[s]
  BY <1>5
<1>11. \A s, t \in ShiftId :
          s \in fresh /\ Published(s)' /\ Published(t)' /\ s # t /\ shift'[s].agent = shift'[t].agent
             => Apart(shift'[s].at, shift'[t].at)
  BY <1>8, <1>9
<1>12. RestRespected
  BY DEF IInv
<1> HIDE DEF fresh
<1>13. QED
  BY <1>10, <1>11, <1>12, RestKept

\* (the exchanges of a month can be counted)
LEMMA ExchangesFinite ==
    ASSUME NEW a, NEW m
    PROVE  IsFiniteSet(Exchanges(a, m)) /\ Cardinality(Exchanges(a, m)) \in Nat
<1>1. Exchanges(a, m) \subseteq Offer /\ IsFiniteSet(Offer)
  BY ExchangeAssumption DEF Exchanges, ExchangeAssumption
<1>2. QED
  BY <1>1, FS_Subset, FS_CardinalityType

\* the limit of the month,
LEMMA ExchangeLimit ==
    ASSUME IInv, NEW o \in Offer, NEW source, NEW target, NEW by, NEW to,
           Ready(o, source, target, by, to), Exchange(o, source, target, by, to)
    PROVE  MonthlyLimit'
<1> DEFINE row == [status |-> "APPLIED", by |-> by, to |-> to, appliedAt |-> now]
<1>1. /\ offer'[o] = row
      /\ \A p \in Offer : p # o => offer'[p] = offer[p]
      /\ offer[o].status # "APPLIED"
  BY DEF Exchange, IInv, TypeOK, Ready, Active
<1> SUFFICES ASSUME NEW a \in Agent, NEW m \in 0 .. MaxTime \div Month
             PROVE  Cardinality(Exchanges(a, m)') <= MaxMonthly
  BY DEF MonthlyLimit
<1>2. Cardinality(Exchanges(a, m)) <= MaxMonthly /\ MaxMonthly \in Nat
  BY ExchangeAssumption DEF IInv, MonthlyLimit, ExchangeAssumption
<1>3. CASE a \in {by, to} /\ m = now \div Month
  <2>1. Exchanges(a, m)' = Exchanges(a, m) \cup {o} /\ o \notin Exchanges(a, m)
    BY <1>1, <1>3 DEF Exchanges
  <2>2. Cardinality(Exchanges(a, m)) < MaxMonthly
    BY <1>3 DEF Exchange, Applicable, Parties, MayExchange
  <2>3. Cardinality(Exchanges(a, m)') = Cardinality(Exchanges(a, m)) + 1
    BY <2>1, ExchangesFinite, FS_AddElement
  <2>4. QED
    BY <1>2, <2>2, <2>3, ExchangesFinite
<1>4. CASE ~(a \in {by, to} /\ m = now \div Month)
  <2>1. Exchanges(a, m)' = Exchanges(a, m)
    BY <1>1, <1>4 DEF Exchanges
  <2>2. QED
    BY <1>2, <2>1
<1>5. QED
  BY <1>3, <1>4

\* and the whole invariant.
LEMMA ExchangeKeeps ==
    ASSUME IInv, NEW o \in Offer, NEW source, NEW target, NEW by, NEW to,
           Ready(o, source, target, by, to), Exchange(o, source, target, by, to)
    PROVE  IInv'
<1>1. Exchanged(o, source, target, by, to)
  BY ExchangeRows
<1>2. /\ offer'[o].status = "APPLIED"
      /\ \A p \in Offer : p # o => offer'[p] = offer[p]
      /\ UNCHANGED <<now, slot, claim>>
  BY DEF Exchange, IInv, TypeOK
<1>3. \A p \in Offer : Active(p)' => p # o /\ Active(p)
  BY <1>2 DEF Active
<1>4. IdsFollow'
  <2>1. ASSUME NEW p \in Offer, p # o
        PROVE  \/ offer'[p].status = "APPLIED"
               \/ /\ shift'[Given(p)] = shift[Given(p)]
                  /\ shift'[Returned(p)] = shift[Returned(p)]
    <3>1. CASE shift[Given(p)] # NoShift \/ shift[Returned(p)] # NoShift
      BY <1>2, <2>1, <3>1 DEF IInv, IdsFollow
    <3>2. CASE shift[Given(p)] = NoShift /\ shift[Returned(p)] = NoShift
      <4>1. {Given(p), Returned(p)} \cap {source, target, Given(o), Returned(o)} = {}
        BY <2>1, <3>2, Ids, IdAssumption DEF Ready, Published, NoShift, IdAssumption
      <4>2. QED
        BY <4>1, <1>1, Ids DEF Exchanged
    <3>3. QED
      BY <3>1, <3>2
  <2>2. ASSUME NEW i \in Interval, NEW a \in Agent, shift[Extra(i, a)] = NoShift
        PROVE  shift'[Extra(i, a)] = NoShift
    <3>1. Extra(i, a) \notin {source, target, Given(o), Returned(o)}
      BY <2>2, Ids, IdAssumption DEF Ready, Published, NoShift, IdAssumption
    <3>2. QED
      BY <2>2, <3>1, <1>1, Ids DEF Exchanged
  <2>3. QED
    BY <2>1, <2>2, <1>2 DEF IInv, IdsFollow
<1>5. AsPlanned'
  <2> SUFFICES ASSUME NEW p \in Planned, shift'[p] # NoShift
               PROVE  shift'[p].agent = Owner[p] /\ shift'[p].at = Hours[p]
    BY DEF AsPlanned
  <2>1. p \in ShiftId /\ p \notin {Given(o), Returned(o)}
    BY Ids DEF ShiftId
  <2>2. CASE p \in {source, target}
    <3>1. /\ shift'[p].agent = shift[p].agent /\ shift'[p].at = shift[p].at
      BY <1>1, <2>1, <2>2, ExchangeReads, IdAssumption DEF IdAssumption
    <3>2. shift[p] # NoShift
      BY <2>1, <2>2, IdAssumption DEF Ready, Published, NoShift, IdAssumption
    <3>3. QED
      BY <3>1, <3>2 DEF IInv, AsPlanned
  <2>3. CASE p \notin {source, target}
    BY <1>1, <2>1, <2>3 DEF Exchanged, IInv, AsPlanned
  <2>4. QED
    BY <2>2, <2>3
<1>6. TermsOK'
  BY <1>2, <1>3 DEF IInv, TermsOK
<1>7. OfferStands'
  <2> SUFFICES ASSUME NEW p \in Offer, Active(p)'
               PROVE  /\ Published(offer[p].source)' /\ shift'[offer[p].source].agent = offer[p].by
                      /\ offer[p].target # None =>
                            /\ Published(offer[p].target)'
                            /\ shift'[offer[p].target].agent = offer[p].to
    BY <1>2, <1>3 DEF OfferStands
  <2>1. p # o /\ Active(p) /\ offer'[p] = offer[p]
    BY <1>2, <1>3
  <2>2. /\ offer[p].source \in ShiftId /\ offer[p].target \in ShiftId \cup {None}
        /\ None \notin ShiftId
    BY <2>1, ActiveRow, IdAssumption DEF IInv, IdAssumption
  <2>3. Names(p) \cap ({source, target} \ {None}) = {}
    BY <2>1, NegotiatedNames DEF Ready
  <2>4. ASSUME NEW s \in Names(p)
        PROVE  Published(s) /\ shift'[s] = shift[s]
    <3>1. s \in ShiftId /\ Published(s)
      BY <2>1, <2>2 DEF Names, IInv, OfferStands
    <3>2. s \notin {source, target}
      BY <2>2, <2>3, <3>1
    <3>3. s \notin {Given(o), Returned(o)}
      BY <1>1, <3>1 DEF Exchanged, Published, NoShift
    <3>4. QED
      BY <1>1, <3>1, <3>2, <3>3 DEF Exchanged
  <2>5. offer[p].source \in Names(p) /\ (offer[p].target # None => offer[p].target \in Names(p))
    BY <2>2 DEF Names
  <2>6. /\ shift[offer[p].source].agent = offer[p].by
        /\ offer[p].target # None => shift[offer[p].target].agent = offer[p].to
    BY <2>1 DEF IInv, OfferStands
  <2>7. QED
    BY <2>1, <2>4, <2>5, <2>6 DEF Published
<1>8. OneNegotiation'
  BY <1>2, <1>3 DEF IInv, OneNegotiation, Names
<1>9. SlotsAddUp'
  BY <1>2 DEF IInv, SlotsAddUp, Approved
<1>10. QED
  BY <1>4, <1>5, <1>6, <1>7, <1>8, <1>9, ExchangeTypes, ExchangeRest, ExchangeLimit DEF IInv

-----------------------------------------------------------------------------
(* The invariant.                                                            *)

\* An offer is accepted.
LEMMA AcceptOfferKeeps ==
    ASSUME IInv, NEW o \in Offer, NEW a \in Agent,
           NEW target \in PublishedShifts \cup {None}, AcceptOffer(o, a, target)
    PROVE  IInv'
<1>1. CASE Automatic(o)
  <2>1. Exchange(o, offer[o].source, target, offer[o].by, a)
    BY <1>1 DEF AcceptOffer
  <2>2. QED
    BY <2>1, AcceptReady, ExchangeKeeps
<1>2. CASE ~Automatic(o)
  BY <1>2, AcceptPendingKeeps
<1>3. QED
  BY <1>1, <1>2

\* A manager decides an offer.
LEMMA DecideOfferKeeps ==
    ASSUME IInv, NEW o \in Offer, DecideOffer(o)
    PROVE  IInv'
<1>1. Decidable(o) /\ Active(o)
  BY DEF DecideOffer, Decidable, Active
<1>2. CASE Exchange(o, offer[o].source, offer[o].target, offer[o].by, offer[o].to)
  BY <1>1, <1>2, DecideReady, ExchangeKeeps
<1>3. CASE Close(o)
  BY <1>1, <1>3, CloseKeeps
<1>4. QED
  BY <1>2, <1>3 DEF DecideOffer

\* Time passes.
LEMMA TickKeeps ==
    ASSUME IInv, UNCHANGED <<shift, slot, claim, offer>>, now' \in Nat
    PROVE  IInv'
<1> USE DEF IInv
<1>1. TypeOK' /\ IdsFollow' /\ AsPlanned'
  BY DEF TypeOK, IdsFollow, AsPlanned
<1>2. TermsOK' /\ OfferStands' /\ OneNegotiation'
  BY DEF TermsOK, OfferStands, OneNegotiation, Active, Names, Published
<1>3. RestRespected' /\ SlotsAddUp' /\ MonthlyLimit'
  BY DEF RestRespected, PublishedShifts, Published, SlotsAddUp, Approved, MonthlyLimit, Exchanges
<1>4. QED
  BY <1>1, <1>2, <1>3

\* The invariant holds at first,
LEMMA InitIInv == Init => IInv
<1> SUFFICES ASSUME Init PROVE IInv
  OBVIOUS
<1>1. TypeOK
  BY DEF Init, TypeOK
<1>2. \A s \in ShiftId : shift[s] = NoShift /\ ~Published(s)
  BY DEF Init, Published, NoShift
<1>3. \A o \in Offer : ~Active(o) /\ offer[o].status # "APPLIED"
  BY DEF Init, Active, NoOffer
<1>4. IdsFollow
  BY <1>2, Ids DEF IdsFollow
<1>5. AsPlanned
  BY <1>2 DEF AsPlanned, ShiftId
<1>6. TermsOK /\ OfferStands /\ OneNegotiation
  BY <1>3 DEF TermsOK, OfferStands, OneNegotiation
<1>7. RestRespected
  BY <1>2 DEF RestRespected, PublishedShifts
<1>8. SlotsAddUp
  <2>1. \A i \in Interval : Approved(i) = {} /\ slot[i] = "NONE"
    BY DEF Init, Approved
  <2>2. QED
    BY <2>1, FS_EmptySet, AgentsFinite DEF SlotsAddUp
<1>9. MonthlyLimit
  <2>1. \A a \in Agent, m \in 0 .. MaxTime \div Month : Exchanges(a, m) = {}
    BY <1>3 DEF Exchanges
  <2>2. MaxMonthly \in Nat
    BY ExchangeAssumption DEF ExchangeAssumption
  <2>3. QED
    BY <2>1, <2>2, FS_EmptySet DEF MonthlyLimit
<1>10. QED
  BY <1>1, <1>4, <1>5, <1>6, <1>7, <1>8, <1>9 DEF IInv

\* is kept by every step,
LEMMA StepIInv == IInv /\ [Next]_vars => IInv'
<1> SUFFICES ASSUME IInv, [Next]_vars PROVE IInv'
  OBVIOUS
<1>1. ASSUME NEW first \in Days, NEW last \in Days,
             Materialize({d \in Days : first <= d /\ d <= last})
      PROVE  IInv'
  BY <1>1, MaterializeKeeps
<1>2. ASSUME NEW i \in Interval, CreateSlot(i)
      PROVE  IInv'
  BY <1>2, CreateSlotKeeps
<1>3. ASSUME NEW i \in Interval, NEW a \in Agent, ClaimSlot(i, a) \/ DecideClaim(i, a)
      PROVE  IInv'
  BY <1>3, ClaimSlotKeeps, DecideClaimKeeps
<1>4. ASSUME NEW o \in Offer, NEW source \in PublishedShifts,
             NEW target \in PublishedShifts \cup {None}, NEW type \in {"SWAP", "OFFER"},
             NEW to \in Agent \cup {None}, NEW expires \in {now + 1, MaxTime + 1},
             CreateOffer(o, type, source, target, to, expires)
      PROVE  IInv'
  <2>1. expires \in Nat
    BY ExchangeAssumption DEF IInv, TypeOK, ExchangeAssumption
  <2>2. QED
    BY <1>4, <2>1, CreateOfferKeeps
<1>5. ASSUME NEW o \in Offer, NEW a \in Agent, NEW target \in PublishedShifts \cup {None},
             AcceptOffer(o, a, target)
      PROVE  IInv'
  BY <1>5, AcceptOfferKeeps
<1>6. ASSUME NEW o \in Offer, DecideOffer(o)
      PROVE  IInv'
  BY <1>6, DecideOfferKeeps
<1>7. ASSUME NEW o \in Offer, CancelOffer(o)
      PROVE  IInv'
  BY <1>7, CloseKeeps DEF CancelOffer
<1>8. CASE Tick
  BY <1>8, TickKeeps DEF Tick, IInv, TypeOK
<1>9. CASE UNCHANGED vars
  BY <1>9, TickKeeps DEF vars, IInv, TypeOK
<1>10. QED
  BY <1>1, <1>2, <1>3, <1>4, <1>5, <1>6, <1>7, <1>8, <1>9 DEF Next

\* and so holds in every state.
LEMMA InvariantHolds == Spec => []IInv
  BY InitIInv, StepIInv, PTL DEF Spec

-----------------------------------------------------------------------------
(* Theorems.                                                                 *)

\* Every reachable state of the shifts, slots, claims and offers is well typed.
THEOREM TypeCorrect == Spec => []TypeOK
<1>1. IInv => TypeOK
  BY DEF IInv
<1>2. QED
  BY <1>1, InvariantHolds, PTL

\* No two active offers name the same shift, on whichever side, though an
\* acceptance may change the counterpart.
THEOREM NegotiationsDoNotCross == Spec => []OneNegotiation
<1>1. IInv => OneNegotiation
  BY DEF IInv
<1>2. QED
  BY <1>1, InvariantHolds, PTL

\* As long as an offer is active, both sides still hold the shifts it names.
THEOREM OffersStand == Spec => []OfferStands
<1>1. IInv => OfferStands
  BY DEF IInv
<1>2. QED
  BY <1>1, InvariantHolds, PTL

\* No sequence of materialisations, extra shifts and exchanges leaves an agent
\* with overlapping shifts or without the rest between them.
THEOREM AgentsRest == Spec => []RestRespected
<1>1. IInv => RestRespected
  BY DEF IInv
<1>2. QED
  BY <1>1, InvariantHolds, PTL

\* An extra slot is filled exactly when its last place is taken.
THEOREM SlotsFill == Spec => []SlotsAddUp
<1>1. IInv => SlotsAddUp
  BY DEF IInv
<1>2. QED
  BY <1>1, InvariantHolds, PTL

\* Nobody takes part in more exchanges in a month than the rule allows.
THEOREM ExchangesLimited == Spec => []MonthlyLimit
<1>1. IInv => MonthlyLimit
  BY DEF IInv
<1>2. QED
  BY <1>1, InvariantHolds, PTL

\* What a step does to the shifts it does not give away: it leaves those that
\* are cancelled alone.
LEMMA ExchangeLeavesCancelled ==
    ASSUME IInv, NEW o \in Offer, NEW source, NEW target, NEW by, NEW to,
           Ready(o, source, target, by, to), Exchange(o, source, target, by, to),
           NEW s \in ShiftId, shift[s].status = "CANCELLED"
    PROVE  shift'[s] = shift[s]
<1>1. Exchanged(o, source, target, by, to)
  BY ExchangeRows
<1>2. shift[s] # NoShift /\ ~Published(s)
  BY DEF NoShift, Published
<1>3. s \notin {source, target, Given(o), Returned(o)}
  BY <1>1, <1>2, IdAssumption DEF Exchanged, Ready, IdAssumption
<1>4. QED
  BY <1>1, <1>3 DEF Exchanged

\* An approval does not bring a cancelled shift back.
LEMMA ApproveLeavesCancelled ==
    ASSUME IInv, NEW i \in Interval, NEW a \in Agent, ApproveClaim(i, a),
           claim[<<i, a>>] # "APPROVED",
           NEW s \in ShiftId, shift[s].status = "CANCELLED"
    PROVE  shift'[s] = shift[s]
<1>1. shift[Extra(i, a)] = NoShift
  BY DEF IInv, IdsFollow
<1>2. s # Extra(i, a)
  BY <1>1 DEF NoShift
<1>3. QED
  BY <1>2 DEF ApproveClaim, IInv, TypeOK

\* A shift that was exchanged away never comes back: an id is written only where
\* no row is, and a cancelled shift is not published, so no exchange takes it.
THEOREM ExchangesStand == Spec => ExchangedAwayForGood
<1>1. ASSUME IInv, [Next]_vars, NEW s \in ShiftId, shift[s].status = "CANCELLED"
      PROVE  shift'[s] = shift[s]
  <2> USE <1>1
  <2>1. ASSUME NEW first \in Days, NEW last \in Days,
               Materialize({d \in Days : first <= d /\ d <= last})
        PROVE  shift'[s] = shift[s]
    <3>1. s \notin Missing({d \in Days : first <= d /\ d <= last})
      BY MissingFacts DEF NoShift
    <3>2. QED
      BY <2>1, <3>1, MaterializeStep
  <2>2. ASSUME NEW i \in Interval, NEW a \in Agent, ClaimSlot(i, a)
        PROVE  shift'[s] = shift[s]
    BY <2>2, ApproveLeavesCancelled DEF ClaimSlot
  <2>3. ASSUME NEW i \in Interval, NEW a \in Agent, DecideClaim(i, a)
        PROVE  shift'[s] = shift[s]
    BY <2>3, ApproveLeavesCancelled DEF DecideClaim
  <2>4. ASSUME NEW o \in Offer, NEW a \in Agent, NEW target \in PublishedShifts \cup {None},
               AcceptOffer(o, a, target)
        PROVE  shift'[s] = shift[s]
    <3>1. Ready(o, offer[o].source, target, offer[o].by, a)
      BY <2>4, AcceptReady
    <3>2. QED
      BY <2>4, <3>1, ExchangeLeavesCancelled DEF AcceptOffer
  <2>5. ASSUME NEW o \in Offer, DecideOffer(o)
        PROVE  shift'[s] = shift[s]
    <3>1. Ready(o, offer[o].source, offer[o].target, offer[o].by, offer[o].to)
      BY <2>5, DecideReady DEF DecideOffer
    <3>2. QED
      BY <2>5, <3>1, ExchangeLeavesCancelled DEF DecideOffer, Close
  <2>6. ASSUME UNCHANGED shift
        PROVE  shift'[s] = shift[s]
    BY <2>6
  <2>7. ASSUME NEW i \in Interval, CreateSlot(i)
        PROVE  UNCHANGED shift
    BY <2>7 DEF CreateSlot
  <2>8. ASSUME NEW o \in Offer, NEW source, NEW target, NEW type, NEW to, NEW expires,
               CreateOffer(o, type, source, target, to, expires)
        PROVE  UNCHANGED shift
    BY <2>8 DEF CreateOffer
  <2>9. ASSUME NEW o \in Offer, CancelOffer(o)
        PROVE  UNCHANGED shift
    BY <2>9 DEF CancelOffer, Close
  <2>10. Tick \/ UNCHANGED vars => UNCHANGED shift
    BY DEF Tick, vars
  <2>11. QED
    BY <2>1, <2>2, <2>3, <2>4, <2>5, <2>6, <2>7, <2>8, <2>9, <2>10 DEF Next
<1>2. IInv /\ [Next]_vars =>
         [\A s \in ShiftId : shift[s].status = "CANCELLED" => shift'[s] = shift[s]]_vars
  BY <1>1
<1>3. QED
  BY <1>2, InvariantHolds, PTL DEF Spec, ExchangedAwayForGood

\* What is under negotiation is promised once, and there to be exchanged.
THEOREM OffersHold == Spec => []OffersAreSound
  BY NegotiationsDoNotCross, OffersStand, PTL DEF OffersAreSound

\* Nobody exchanges, and no slot takes, more than the rule allows.
THEOREM RuleLimits == Spec => []LimitsHold
  BY ExchangesLimited, SlotsFill, PTL DEF LimitsHold

-----------------------------------------------------------------------------
(* Coverage.                                                                 *)

\* The agents on shift can be counted.
LEMMA OnShiftFinite ==
    ASSUME NEW i
    PROVE  IsFiniteSet(OnShift(i)) /\ IsFiniteSet(OnShift(i)')
<1>1. OnShift(i) \subseteq Agent /\ OnShift(i)' \subseteq Agent
  BY DEF OnShift
<1>2. QED
  BY <1>1, AgentsFinite, FS_Subset

\* A set that loses one member at most, and has a new one for it, has not shrunk.
LEMMA OneForOne ==
    ASSUME NEW S, NEW T, IsFiniteSet(S), IsFiniteSet(T), NEW x, NEW y,
           S \ {x} \subseteq T, y \in T, x \in S => y \notin S \/ x \in T
    PROVE  Cardinality(T) >= Cardinality(S)
<1>1. Cardinality(S) \in Nat /\ Cardinality(T) \in Nat
  BY FS_CardinalityType
<1>2. CASE S \subseteq T
  BY <1>1, <1>2, FS_Subset
<1>3. CASE x \in S /\ x \notin T
  <2> DEFINE R == S \ {x}
  <2>1. IsFiniteSet(R) /\ Cardinality(R) = Cardinality(S) - 1
    BY <1>3, FS_RemoveElement
  <2>2. Cardinality(R \cup {y}) = Cardinality(R) + 1
    BY <1>3, <2>1, FS_AddElement
  <2>3. Cardinality(R \cup {y}) <= Cardinality(T)
    BY FS_Subset
  <2> HIDE DEF R
  <2>4. QED
    BY <1>1, <2>1, <2>2, <2>3
<1>4. QED
  BY <1>2, <1>3

\* A shift that stands keeps its agent on its interval.
LEMMA StandingCovers ==
    ASSUME NEW s \in ShiftId, Published(s), shift'[s] = shift[s],
           NEW a \in Agent, shift[s].agent = a, NEW i, shift[s].at = i
    PROVE  a \in OnShift(i)'
  BY DEF OnShift, PublishedShifts, Published

\* Where every shift stands, no coverage is lost.
LEMMA NothingLost ==
    ASSUME TypeOK, \A s \in ShiftId : Published(s) => shift'[s] = shift[s], NEW i
    PROVE  Cardinality(OnShift(i)') >= Cardinality(OnShift(i))
<1>1. OnShift(i) \subseteq OnShift(i)'
  BY DEF OnShift, PublishedShifts, Published
<1>2. Cardinality(OnShift(i)) \in Nat /\ Cardinality(OnShift(i)') \in Nat
  BY OnShiftFinite, FS_CardinalityType
<1>3. QED
  BY <1>1, <1>2, OnShiftFinite, FS_Subset

\* Who can take an interval is not on it, other than with what is given for it.
LEMMA TakerIsFree ==
    ASSUME TypeOK, NEW a \in Agent, NEW s \in ShiftId, NEW i \in Interval, NEW except,
           CanTake(a, s, i, except), shift[s] = NoShift,
           a \in OnShift(i)
    PROVE  \E t \in except : t \in ShiftId /\ Published(t) /\ shift[t].agent = a /\ shift[t].at = i
<1>1. PICK t \in ShiftId : Published(t) /\ shift[t].agent = a /\ shift[t].at = i
  BY DEF OnShift, PublishedShifts
<1>2. t # s
  BY <1>1, PublishedRow
<1>3. t \notin except => Apart(i, i)
  BY <1>1, <1>2, TakenApart
<1>4. ~Apart(i, i)
  BY IntervalBounds, ExchangeAssumption DEF Apart, ExchangeAssumption
<1>5. QED
  BY <1>1, <1>3, <1>4

\* An exchange gives an interval an agent for the one it loses.
LEMMA ExchangeCovers ==
    ASSUME IInv, NEW o \in Offer, NEW source, NEW target, NEW by, NEW to,
           Ready(o, source, target, by, to), Exchange(o, source, target, by, to),
           NEW i \in Interval
    PROVE  Cardinality(OnShift(i)') >= Cardinality(OnShift(i))
<1>1. Exchanged(o, source, target, by, to) /\ TypeOK
  BY ExchangeRows DEF IInv
<1>2. /\ Given(o) \in ShiftId /\ Returned(o) \in ShiftId
      /\ source \in ShiftId /\ Published(source) /\ shift[source].agent = by
      /\ by # to /\ by \in Agent /\ to \in Agent /\ None \notin ShiftId
      /\ target # None => target \in ShiftId /\ Published(target) /\ shift[target].agent = to
  BY Ids, IdAssumption DEF Ready, IdAssumption
<1>3. /\ shift[source].at \in Interval
      /\ target # None => shift[target].at \in Interval
  BY <1>1, ExchangeReads
<1>4. \A s \in ShiftId : Published(s) /\ s \notin {source, target} => shift'[s] = shift[s]
  BY <1>1, PublishedRow DEF Exchanged
<1>5. PICK p \in Interval : p = shift[source].at
  BY <1>3
<1>6. PICK q : target # None => q \in Interval /\ q = shift[target].at
  BY <1>3
<1>7. to \in OnShift(p)'
  <2>1. /\ shift'[Given(o)].status = "PUBLISHED"
        /\ shift'[Given(o)].agent = to /\ shift'[Given(o)].at = p
    <3>1. /\ Publish(to, p).status = "PUBLISHED"
          /\ Publish(to, p).agent = to
          /\ Publish(to, p).at = p
      BY <1>2, <1>5, <1>6, PublishType
    <3>2. shift'[Given(o)] = Publish(to, p)
      BY <1>1, <1>5 DEF Exchanged
    <3>3. QED
      BY <3>1, <3>2
  <2>2. QED
    BY <1>2, <2>1 DEF OnShift, PublishedShifts, Published
<1>8. target # None => by \in OnShift(q)'
  <2>1. ASSUME target # None
        PROVE  /\ shift'[Returned(o)].status = "PUBLISHED"
               /\ shift'[Returned(o)].agent = by /\ shift'[Returned(o)].at = q
    <3>1. /\ Publish(by, q).status = "PUBLISHED"
          /\ Publish(by, q).agent = by
          /\ Publish(by, q).at = q
      BY <1>2, <1>5, <1>6, <2>1, PublishType
    <3>2. shift'[Returned(o)] = Publish(by, q)
      BY <1>1, <1>6, <2>1 DEF Exchanged
    <3>3. QED
      BY <3>1, <3>2
  <2>2. QED
    BY <1>2, <2>1 DEF OnShift, PublishedShifts, Published
<1>9. ASSUME NEW a \in OnShift(i), a \notin OnShift(i)'
      PROVE  \/ a = by /\ i = p
             \/ target # None /\ a = to /\ i = q
  <2>1. PICK s \in ShiftId : Published(s) /\ shift[s].agent = a /\ shift[s].at = i
    BY <1>9 DEF OnShift, PublishedShifts
  <2>2. a \in Agent
    BY <1>9 DEF OnShift
  <2>3. s \in {source, target}
    BY <1>4, <1>9, <2>1, <2>2, StandingCovers
  <2>4. QED
    BY <1>2, <1>5, <1>6, <2>1, <2>3
<1>10. shift[Given(o)] = NoShift /\ shift[Returned(o)] = NoShift
  BY <1>1 DEF Exchanged
<1>11. to \in OnShift(p) => target # None /\ q = p
  <2> SUFFICES ASSUME to \in OnShift(p)
               PROVE  target # None /\ q = p
    OBVIOUS
  <2>1. CanTake(to, Given(o), p, {target})
    BY <1>5 DEF Exchange, Applicable
  <2>2. \E t \in {target} : t \in ShiftId /\ Published(t) /\ shift[t].agent = to
                            /\ shift[t].at = p
    BY <1>1, <1>2, <1>5, <1>6, <1>10, <2>1, TakerIsFree
  <2>3. QED
    BY <1>2, <1>6, <2>2
<1>12. ASSUME target # None, by \in OnShift(q)
       PROVE  p = q
  <2>1. CanTake(by, Returned(o), q, {source})
    BY <1>6, <1>12 DEF Exchange, Applicable, Ready
  <2>2. \E t \in {source} : t \in ShiftId /\ Published(t) /\ shift[t].agent = by
                            /\ shift[t].at = q
    BY <1>1, <1>2, <1>5, <1>6, <1>10, <1>12, <2>1, TakerIsFree
  <2>3. QED
    BY <1>5, <2>2
<1>13. CASE i = p /\ ~(target # None /\ q = i)
  <2>1. OnShift(i) \ {by} \subseteq OnShift(i)'
    BY <1>9, <1>13
  <2>2. /\ to \in OnShift(i)'
        /\ by \in OnShift(i) => to \notin OnShift(i) \/ by \in OnShift(i)'
    BY <1>7, <1>11, <1>13
  <2>3. IsFiniteSet(OnShift(i)) /\ IsFiniteSet(OnShift(i)')
    BY OnShiftFinite
  <2>4. QED
    BY <2>1, <2>2, <2>3, OneForOne
<1>14. CASE i # p /\ target # None /\ q = i
  <2>1. OnShift(i) \ {to} \subseteq OnShift(i)'
    BY <1>9, <1>14
  <2>2. /\ by \in OnShift(i)'
        /\ to \in OnShift(i) => by \notin OnShift(i) \/ to \in OnShift(i)'
    BY <1>8, <1>12, <1>14
  <2>3. IsFiniteSet(OnShift(i)) /\ IsFiniteSet(OnShift(i)')
    BY OnShiftFinite
  <2>4. QED
    BY <2>1, <2>2, <2>3, OneForOne
<1>15. CASE \/ i = p /\ target # None /\ q = i
            \/ i # p /\ ~(target # None /\ q = i)
  <2>1. OnShift(i) \subseteq OnShift(i)'
    BY <1>7, <1>8, <1>9, <1>15
  <2>2. Cardinality(OnShift(i)) \in Nat /\ Cardinality(OnShift(i)') \in Nat
    BY OnShiftFinite, FS_CardinalityType
  <2>3. QED
    BY <2>1, <2>2, OnShiftFinite, FS_Subset
<1>16. QED
  BY <1>13, <1>14, <1>15

\* An approval adds a shift where none was.
LEMMA ApproveCovers ==
    ASSUME IInv, NEW i \in Interval, NEW a \in Agent, ApproveClaim(i, a),
           claim[<<i, a>>] # "APPROVED"
    PROVE  \A s \in ShiftId : Published(s) => shift'[s] = shift[s]
<1>1. shift[Extra(i, a)] = NoShift
  BY DEF IInv, IdsFollow
<1>2. \A s \in ShiftId : Published(s) => s # Extra(i, a)
  BY <1>1 DEF NoShift, Published
<1>3. QED
  BY <1>2 DEF ApproveClaim, IInv, TypeOK

\* However shifts change hands, no interval ever has fewer agents on shift: who
\* takes a shift was not on it, unless with the shift given for it.
THEOREM CoverageIsKept == Spec => CoverageStands
<1>1. ASSUME IInv, [Next]_vars, NEW i \in Interval
      PROVE  Cardinality(OnShift(i)') >= Cardinality(OnShift(i))
  <2> USE <1>1
  <2>1. ASSUME \A s \in ShiftId : Published(s) => shift'[s] = shift[s]
        PROVE  Cardinality(OnShift(i)') >= Cardinality(OnShift(i))
    BY <2>1, NothingLost DEF IInv
  <2>2. ASSUME NEW days, Materialize(days)
        PROVE  \A s \in ShiftId : Published(s) => shift'[s] = shift[s]
    <3>1. \A s \in ShiftId : Published(s) => s \notin Missing(days)
      BY MissingFacts DEF NoShift, Published
    <3>2. QED
      BY <2>2, <3>1, MaterializeStep
  <2>3. ASSUME NEW j \in Interval, NEW a \in Agent, ClaimSlot(j, a) \/ DecideClaim(j, a)
        PROVE  \A s \in ShiftId : Published(s) => shift'[s] = shift[s]
    BY <2>3, ApproveCovers DEF ClaimSlot, DecideClaim
  <2>4. ASSUME NEW o \in Offer, NEW a \in Agent, NEW target \in PublishedShifts \cup {None},
               AcceptOffer(o, a, target)
        PROVE  Cardinality(OnShift(i)') >= Cardinality(OnShift(i))
    <3>1. Ready(o, offer[o].source, target, offer[o].by, a)
      BY <2>4, AcceptReady
    <3>2. CASE Exchange(o, offer[o].source, target, offer[o].by, a)
      BY <3>1, <3>2, ExchangeCovers
    <3>3. QED
      BY <2>1, <2>4, <3>2 DEF AcceptOffer
  <2>5. ASSUME NEW o \in Offer, DecideOffer(o)
        PROVE  Cardinality(OnShift(i)') >= Cardinality(OnShift(i))
    <3>1. Ready(o, offer[o].source, offer[o].target, offer[o].by, offer[o].to)
      BY <2>5, DecideReady DEF DecideOffer
    <3>2. CASE Exchange(o, offer[o].source, offer[o].target, offer[o].by, offer[o].to)
      BY <3>1, <3>2, ExchangeCovers
    <3>3. QED
      BY <2>1, <2>5, <3>2 DEF DecideOffer, Close
  <2>6. ASSUME NEW j \in Interval, CreateSlot(j)
        PROVE  UNCHANGED shift
    BY <2>6 DEF CreateSlot
  <2>7. ASSUME NEW o \in Offer, NEW source, NEW target, NEW type, NEW to, NEW expires,
               CreateOffer(o, type, source, target, to, expires)
        PROVE  UNCHANGED shift
    BY <2>7 DEF CreateOffer
  <2>8. ASSUME NEW o \in Offer, CancelOffer(o)
        PROVE  UNCHANGED shift
    BY <2>8 DEF CancelOffer, Close
  <2>9. Tick \/ UNCHANGED vars => UNCHANGED shift
    BY DEF Tick, vars
  <2>10. QED
    BY <2>1, <2>2, <2>3, <2>4, <2>5, <2>6, <2>7, <2>8, <2>9 DEF Next
<1>2. IInv /\ [Next]_vars =>
         [\A i \in Interval : Cardinality(OnShift(i)') >= Cardinality(OnShift(i))]_vars
  BY <1>1
<1>3. QED
  BY <1>2, InvariantHolds, PTL DEF Spec, CoverageStands

\* An exchange takes no agent off an interval, and no shift is exchanged twice.
THEOREM ExchangesStayFinal == Spec => ExchangesAreFinal
<1>1. CoverageStands /\ ExchangedAwayForGood => ExchangesAreFinal
  BY DEF ExchangesAreFinal
<1>2. QED
  BY <1>1, CoverageIsKept, ExchangesStand

-----------------------------------------------------------------------------
(* Adding minutes up: what Minutes sums over a set of shifts is how many     *)
(* minutes the shifts have, so it can be compared from set to set.           *)

\* The shifts of a day.
OfDay(load, d) == {s \in DOMAIN load : load[s].day = d}

\* Minutes is the value of a recursive function g: it takes the shifts of D one
\* by one, in an order that CHOOSE fixes.
Adds(g, load, D) ==
    g = [S \in SUBSET D |->
            IF S = {} THEN 0
            ELSE LET x == CHOOSE y \in S : TRUE
                 IN  (load[x].to - load[x].from) + g[S \ {x}]]

Total(load, D) == CHOOSE g : Adds(g, load, D)

\* Minutes takes the shifts of the day one by one.
LEMMA MinutesAdd ==
    ASSUME NEW load, NEW d
    PROVE  Minutes(load, d) = Total(load, OfDay(load, d))[OfDay(load, d)]
  BY DEF Minutes, Total, Adds, OfDay, MapThenSumSet, MapThenFoldSet

\* The minutes of shifts, one by one.
Work(load, D) ==
    {c \in D \X Nat : load[c[1]].from < c[2] /\ c[2] <= load[c[1]].to}

\* A finite load, of shifts that end after they begin.
IsLoad(load) ==
    /\ IsFiniteSet(DOMAIN load)
    /\ \A s \in DOMAIN load : load[s] \in Interval

\* The minutes of one shift are as many as the shift is long.
LEMMA WorkOfOne ==
    ASSUME NEW load, IsLoad(load), NEW s \in DOMAIN load
    PROVE  /\ IsFiniteSet(Work(load, {s}))
           /\ Cardinality(Work(load, {s})) = load[s].to - load[s].from
<1> DEFINE from == load[s].from
           to == load[s].to
           minutes == (from + 1) .. to
           named == [k \in minutes |-> <<s, k>>]
<1>1. from \in Nat /\ to \in Nat /\ from < to
  BY IntervalBounds DEF IsLoad
<1>2. Work(load, {s}) = {<<s, k>> : k \in minutes}
  <2>1. \A c \in Work(load, {s}) : c[1] = s /\ c[2] \in minutes /\ c = <<s, c[2]>>
    BY <1>1 DEF Work
  <2>2. \A k \in minutes : <<s, k>> \in Work(load, {s})
    BY <1>1 DEF Work
  <2>3. QED
    BY <2>1, <2>2
<1>3. IsFiniteSet(minutes) /\ Cardinality(minutes) = to - from
  <2>1. from + 1 \in Int /\ to \in Int
    BY <1>1
  <2>2. /\ IsFiniteSet(minutes)
        /\ Cardinality(minutes) = IF from + 1 > to THEN 0 ELSE to - (from + 1) + 1
    BY <2>1, FS_Interval
  <2>3. QED
    BY <1>1, <2>2
<1> HIDE DEF minutes, from, to
<1>4. named \in Bijection(minutes, Work(load, {s}))
  <2>1. named \in [minutes -> Work(load, {s})]
    BY <1>2
  <2>2. \A j, k \in minutes : named[j] = named[k] => j = k
    OBVIOUS
  <2>3. \A c \in Work(load, {s}) : \E k \in minutes : named[k] = c
    BY <1>2
  <2>4. QED
    BY <2>1, <2>2, <2>3 DEF Bijection, Injection, IsInjective, Surjection
<1>5. /\ IsFiniteSet(Work(load, {s}))
      /\ Cardinality(Work(load, {s})) = Cardinality(minutes)
  <2>1. ExistsBijection(minutes, Work(load, {s}))
    BY <1>4 DEF ExistsBijection
  <2>2. QED
    BY <1>3, <2>1, FS_Bijection
<1>6. QED
  BY <1>3, <1>5 DEF from, to

\* The minutes of finitely many shifts can be counted.
LEMMA WorkFinite ==
    ASSUME NEW load, IsLoad(load), NEW D \in SUBSET DOMAIN load
    PROVE  IsFiniteSet(Work(load, D)) /\ Cardinality(Work(load, D)) \in Nat
<1> DEFINE each == {Work(load, {s}) : s \in D}
<1>1. IsFiniteSet(each)
  <2>1. IsFiniteSet(D)
    BY FS_Subset DEF IsLoad
  <2>2. [s \in D |-> Work(load, {s})] \in Surjection(D, each)
    BY DEF Surjection
  <2> HIDE DEF each
  <2>3. QED
    BY <2>1, <2>2, FS_Surjection
<1>2. \A W \in each : IsFiniteSet(W)
  BY WorkOfOne
<1>3. Work(load, D) = UNION each
  BY DEF Work
<1> HIDE DEF each
<1>4. IsFiniteSet(Work(load, D))
  BY <1>1, <1>2, <1>3, FS_UNION
<1>5. QED
  BY <1>4, FS_CardinalityType

\* Another shift adds its own minutes.
LEMMA WorkAdds ==
    ASSUME NEW load, IsLoad(load), NEW D \in SUBSET DOMAIN load, NEW s \in D
    PROVE  Cardinality(Work(load, D))
              = (load[s].to - load[s].from) + Cardinality(Work(load, D \ {s}))
<1>1. /\ Work(load, D) = Work(load, {s}) \cup Work(load, D \ {s})
      /\ Work(load, {s}) \cap Work(load, D \ {s}) = {}
  BY DEF Work
<1>2. /\ IsFiniteSet(Work(load, {s}))
      /\ Cardinality(Work(load, {s})) = load[s].to - load[s].from
  BY WorkOfOne
<1>3. IsFiniteSet(Work(load, D \ {s})) /\ Cardinality(Work(load, D \ {s})) \in Nat
  BY WorkFinite
<1>4. load[s].from \in Nat /\ load[s].to \in Nat
  BY IntervalBounds DEF IsLoad
<1>5. Cardinality(Work(load, D))
         = Cardinality(Work(load, {s})) + Cardinality(Work(load, D \ {s})) - Cardinality({})
  BY <1>1, <1>2, <1>3, FS_Union
<1>6. QED
  BY <1>2, <1>3, <1>4, <1>5, FS_EmptySet

\* Adding up shift after shift, in whichever order, counts their minutes: a
\* smallest set of shifts that adds up to anything else would have one to leave.
LEMMA SumCounts ==
    ASSUME NEW load, IsLoad(load), NEW D \in SUBSET DOMAIN load, NEW g, Adds(g, load, D),
           NEW S \in SUBSET D
    PROVE  g[S] = Cardinality(Work(load, S))
<1> DEFINE Wrong == {T \in SUBSET D : g[T] # Cardinality(Work(load, T))}
<1> SUFFICES ASSUME Wrong # {} PROVE FALSE
  OBVIOUS
<1>1. IsFiniteSet(D)
  BY FS_Subset DEF IsLoad
<1>2. PICK T \in Wrong : \A U \in Wrong : ~(<<U, T>> \in StrictSubsetOrdering(D))
  <2>1. IsWellFoundedOn(StrictSubsetOrdering(D), FiniteSubsetsOf(D))
    BY FS_StrictSubsetOrderingWellFounded
  <2>2. Wrong \subseteq FiniteSubsetsOf(D)
    BY <1>1, FS_FiniteSubsetsOfFinite
  <2> HIDE DEF Wrong
  <2>3. QED
    BY <2>1, <2>2, WFMin
<1>3. CASE T = {}
  <2>1. g[{}] = 0
    BY DEF Adds
  <2>2. Work(load, {}) = {}
    BY DEF Work
  <2>3. QED
    BY <1>3, <2>1, <2>2, FS_EmptySet
<1>4. CASE T # {}
  <2>1. PICK x : x = CHOOSE y \in T : TRUE
    OBVIOUS
  <2>2. x \in T
    BY <1>4, <2>1
  <2>3. g[T] = (load[x].to - load[x].from) + g[T \ {x}]
    BY <1>4, <2>1 DEF Adds
  <2>4. g[T \ {x}] = Cardinality(Work(load, T \ {x}))
    <3>1. <<T \ {x}, T>> \in StrictSubsetOrdering(D)
      BY <2>2 DEF StrictSubsetOrdering
    <3>2. T \ {x} \in SUBSET D
      OBVIOUS
    <3>3. QED
      BY <1>2, <3>1, <3>2
  <2>5. T \in SUBSET DOMAIN load
    OBVIOUS
  <2>6. QED
    BY <2>2, <2>3, <2>4, <2>5, WorkAdds
<1>5. QED
  BY <1>3, <1>4

\* There is such a sum: the count itself adds up.
LEMMA SumExists ==
    ASSUME NEW load, IsLoad(load), NEW D \in SUBSET DOMAIN load
    PROVE  Adds([S \in SUBSET D |-> Cardinality(Work(load, S))], load, D)
<1> DEFINE count == [S \in SUBSET D |-> Cardinality(Work(load, S))]
<1>1. ASSUME NEW S \in SUBSET D
      PROVE  count[S] = IF S = {} THEN 0
                        ELSE LET x == CHOOSE y \in S : TRUE
                             IN  (load[x].to - load[x].from) + count[S \ {x}]
  <2>1. CASE S = {}
    <3>1. Work(load, {}) = {}
      BY DEF Work
    <3>2. QED
      BY <2>1, <3>1, FS_EmptySet
  <2>2. CASE S # {}
    <3>1. PICK x : x = CHOOSE y \in S : TRUE
      OBVIOUS
    <3>2. x \in S /\ S \in SUBSET DOMAIN load
      BY <2>2, <3>1
    <3>3. /\ count[S] = Cardinality(Work(load, S))
          /\ count[S \ {x}] = Cardinality(Work(load, S \ {x}))
      OBVIOUS
    <3>4. count[S] = (load[x].to - load[x].from) + count[S \ {x}]
      BY <3>2, <3>3, WorkAdds
    <3> HIDE DEF count
    <3>5. QED
      BY <2>2, <3>1, <3>4
  <2>3. QED
    BY <2>1, <2>2
<1>2. count = [S \in SUBSET D |-> count[S]]
  OBVIOUS
<1> HIDE DEF count
<1>3. Adds(count, load, D)
  BY <1>1, <1>2 DEF Adds
<1>4. QED
  BY <1>3 DEF count

\* So Minutes is the number of minutes worked on the day.
LEMMA MinutesCount ==
    ASSUME NEW load, IsLoad(load), NEW d
    PROVE  Minutes(load, d) = Cardinality(Work(load, OfDay(load, d)))
<1>1. OfDay(load, d) \in SUBSET DOMAIN load
  BY DEF OfDay
<1>2. PICK D : D = OfDay(load, d)
  OBVIOUS
<1>3. Adds(Total(load, D), load, D)
  BY <1>1, <1>2, SumExists DEF Total
<1>4. Total(load, D)[D] = Cardinality(Work(load, D))
  BY <1>1, <1>2, <1>3, SumCounts
<1>5. QED
  BY <1>2, <1>4, MinutesAdd

-----------------------------------------------------------------------------
(* No agent works too long a day.                                            *)

\* A load is a part of another one.
PartOf(part, load) ==
    /\ DOMAIN part \subseteq DOMAIN load
    /\ \A s \in DOMAIN part : part[s] = load[s]

\* A load has a number of minutes on each day.
LEMMA MinutesType ==
    ASSUME NEW load, IsLoad(load), NEW d
    PROVE  Minutes(load, d) \in Nat
<1>1. OfDay(load, d) \in SUBSET DOMAIN load
  BY DEF OfDay
<1>2. QED
  BY <1>1, MinutesCount, WorkFinite

\* A part of a load is a load with no longer days.
LEMMA PartIsShorter ==
    ASSUME NEW load, IsLoad(load), NEW part, PartOf(part, load), NEW d,
           Minutes(load, d) <= MaxDaily
    PROVE  Minutes(part, d) <= MaxDaily
<1>1. IsLoad(part)
  BY FS_Subset DEF IsLoad, PartOf
<1>2. Work(part, OfDay(part, d)) \subseteq Work(load, OfDay(load, d))
  BY DEF Work, OfDay, PartOf
<1>3. IsFiniteSet(Work(load, OfDay(load, d)))
  <2>1. OfDay(load, d) \in SUBSET DOMAIN load
    BY DEF OfDay
  <2>2. QED
    BY <2>1, WorkFinite
<1>4. Cardinality(Work(part, OfDay(part, d))) <= Cardinality(Work(load, OfDay(load, d)))
  BY <1>2, <1>3, FS_Subset
<1>5. Minutes(part, d) <= Minutes(load, d)
  BY <1>1, <1>4, MinutesCount
<1>6. Minutes(part, d) \in Nat /\ Minutes(load, d) \in Nat
  BY <1>1, MinutesType
<1>7. MaxDaily \in Nat
  BY ExchangeAssumption DEF ExchangeAssumption
<1>8. QED
  BY <1>5, <1>6, <1>7

\* A workable load respects the limit on every day, and so does a part of it.
LEMMA PartIsWorkable ==
    ASSUME NEW load, IsLoad(load), Workable(load), NEW part, PartOf(part, load), NEW d
    PROVE  Minutes(part, d) <= MaxDaily
<1>1. Minutes(load, d) <= MaxDaily
  <2>1. CASE \E s \in DOMAIN load : load[s].day = d
    BY <2>1 DEF Workable
  <2>2. CASE ~ \E s \in DOMAIN load : load[s].day = d
    <3>1. Work(load, OfDay(load, d)) = {}
      BY <2>2 DEF Work, OfDay
    <3>2. Minutes(load, d) = 0
      BY <3>1, MinutesCount, FS_EmptySet
    <3>3. MaxDaily \in Nat
      BY ExchangeAssumption DEF ExchangeAssumption
    <3>4. QED
      BY <3>2, <3>3
  <2>3. QED
    BY <2>1, <2>2
<1>2. QED
  BY <1>1, PartIsShorter

\* What an agent holds by some rows of shifts, of which finitely many are
\* published; Held says it of the rows that stand.
HeldIn(rows, a) ==
    [s \in {t \in ShiftId : rows[t].status = "PUBLISHED" /\ rows[t].agent = a} |-> rows[s].at]

Countable(rows) ==
    /\ rows \in [ShiftId -> ShiftRow \cup {NoShift}]
    /\ IsFiniteSet({s \in ShiftId : rows[s].status = "PUBLISHED"})

NoLongDay(rows) ==
    \A a \in Agent, d \in Days : Minutes(HeldIn(rows, a), d) <= MaxDaily

\* The inductive invariant, with what it takes to add minutes up.
DailyInv == IInv /\ Countable(shift) /\ NoLongDay(shift)

LEMMA HeldLoad ==
    ASSUME NEW rows, Countable(rows), NEW a
    PROVE  IsLoad(HeldIn(rows, a))
<1>1. IsFiniteSet(DOMAIN HeldIn(rows, a))
  <2>1. DOMAIN HeldIn(rows, a) \subseteq {s \in ShiftId : rows[s].status = "PUBLISHED"}
    BY DEF HeldIn
  <2>2. QED
    BY <2>1, FS_Subset DEF Countable
<1>2. ASSUME NEW s \in DOMAIN HeldIn(rows, a)
      PROVE  HeldIn(rows, a)[s] \in Interval
  <2>1. rows[s] \in ShiftRow \cup {NoShift} /\ rows[s].status = "PUBLISHED"
    BY DEF HeldIn, Countable
  <2>2. rows[s] \in ShiftRow
    BY <2>1 DEF NoShift
  <2>3. QED
    BY <2>2 DEF HeldIn, ShiftRow
<1>3. QED
  BY <1>1, <1>2 DEF IsLoad

\* After a step, an agent's days are as long as they may be when what the agent
\* then holds was held before,
LEMMA NothingNew ==
    ASSUME NoLongDay(shift), Countable(shift), NEW a \in Agent, NEW d \in Days,
           \A s \in ShiftId : Published(s)' /\ shift'[s].agent = a =>
              Published(s) /\ shift[s].agent = a /\ shift[s].at = shift'[s].at
    PROVE  Minutes(HeldIn(shift', a), d) <= MaxDaily
<1>1. Minutes(HeldIn(shift, a), d) <= MaxDaily
  BY DEF NoLongDay
<1>2. PartOf(HeldIn(shift', a), HeldIn(shift, a))
  BY DEF PartOf, HeldIn, Published
<1>3. IsLoad(HeldIn(shift, a))
  BY HeldLoad
<1>4. QED
  BY <1>1, <1>2, <1>3, PartIsShorter

\* or belongs to a load that was found workable.
LEMMA CheckedBefore ==
    ASSUME NEW a \in Agent, NEW d \in Days,
           NEW load, IsLoad(load), Workable(load),
           \A s \in ShiftId : Published(s)' /\ shift'[s].agent = a =>
              s \in DOMAIN load /\ load[s] = shift'[s].at
    PROVE  Minutes(HeldIn(shift', a), d) <= MaxDaily
<1>1. PartOf(HeldIn(shift', a), load)
  BY DEF PartOf, HeldIn, Published
<1>2. QED
  BY <1>1, PartIsWorkable

\* A step publishes finitely many shifts.
LEMMA StaysCountable ==
    ASSUME TypeOK', Countable(shift), NEW Fresh, IsFiniteSet(Fresh),
           \A s \in ShiftId : Published(s)' => Published(s) \/ s \in Fresh
    PROVE  Countable(shift')
<1> DEFINE before == {s \in ShiftId : shift[s].status = "PUBLISHED"}
           after  == {s \in ShiftId : shift'[s].status = "PUBLISHED"}
<1>1. IsFiniteSet(before \cup Fresh)
  BY FS_Union DEF Countable
<1>2. after \subseteq before \cup Fresh
  BY DEF Published
<1>3. IsFiniteSet(after)
  BY <1>1, <1>2, FS_Subset
<1>4. QED
  BY <1>3 DEF Countable, TypeOK

\* Who can take an interval has a workable load with it.
LEMMA TakenLoad ==
    ASSUME Countable(shift), NEW a \in Agent, NEW s \in ShiftId, NEW i \in Interval,
           NEW except, CanTake(a, s, i, except)
    PROVE  \E load :
              /\ IsLoad(load) /\ Workable(load)
              /\ s \in DOMAIN load /\ load[s] = i
              /\ \A t \in ShiftId \ except :
                    t # s /\ Published(t) /\ shift[t].agent = a
                       => t \in DOMAIN load /\ load[t] = shift[t].at
<1> DEFINE held == Held(a, except)
           load == [t \in DOMAIN held \cup {s} |-> IF t = s THEN i ELSE held[t]]
<1>1. PartOf(held, HeldIn(shift, a))
  BY DEF PartOf, Held, HeldIn, PublishedShifts, Published
<1>2. IsLoad(held)
  BY <1>1, HeldLoad, FS_Subset DEF PartOf, IsLoad
<1>3. \A t \in ShiftId \ except :
         Published(t) /\ shift[t].agent = a => t \in DOMAIN held /\ held[t] = shift[t].at
  BY DEF Held, PublishedShifts
<1>4. Workable(load)
  BY DEF CanTake
<1> HIDE DEF held
<1>5. IsFiniteSet(DOMAIN load)
  BY <1>2, FS_AddElement DEF IsLoad
<1>6. IsLoad(load)
  BY <1>2, <1>5 DEF IsLoad
<1>7. QED
  BY <1>3, <1>4, <1>6

\* An agent whose plan fits has a workable load with it.
LEMMA PlanLoad ==
    ASSUME Countable(shift), AsPlanned, NEW a \in Agent, NEW days, PlanFits(a, days)
    PROVE  \E load :
              /\ IsLoad(load) /\ Workable(load)
              /\ \A p \in Candidates(a, days) : p \in DOMAIN load /\ load[p] = Hours[p]
              /\ \A t \in ShiftId :
                    Published(t) /\ shift[t].agent = a
                       => t \in DOMAIN load /\ load[t] = shift[t].at
<1> DEFINE held == Held(a, {})
           plan == Candidates(a, days)
           load == [s \in DOMAIN held \cup plan |-> IF s \in plan THEN Hours[s] ELSE held[s]]
<1>1. held = HeldIn(shift, a)
  BY DEF Held, HeldIn, PublishedShifts, Published
<1>2. IsLoad(held)
  BY <1>1, HeldLoad
<1>3. \A t \in ShiftId :
         Published(t) /\ shift[t].agent = a => t \in DOMAIN held /\ held[t] = shift[t].at
  BY DEF Held, PublishedShifts
<1>4. \A p \in plan : Published(p) => shift[p].at = Hours[p]
  BY DEF Candidates, AsPlanned, Published, NoShift
<1>5. IsFiniteSet(plan) /\ \A p \in plan : Hours[p] \in Interval
  BY ExchangeAssumption, FS_Subset DEF Candidates, ExchangeAssumption
<1>6. Workable(load)
  BY DEF PlanFits
<1> HIDE DEF held, plan
<1>7. IsFiniteSet(DOMAIN load)
  BY <1>2, <1>5, FS_Union DEF IsLoad
<1>8. IsLoad(load)
  BY <1>2, <1>5, <1>7 DEF IsLoad
<1>9. /\ \A p \in plan : p \in DOMAIN load /\ load[p] = Hours[p]
      /\ \A t \in ShiftId :
            Published(t) /\ shift[t].agent = a => t \in DOMAIN load /\ load[t] = shift[t].at
  BY <1>3, <1>4
<1> HIDE DEF load
<1>10. QED
  BY <1>6, <1>8, <1>9 DEF plan

\* The plan is published for agents it fits.
LEMMA MaterializeDays ==
    ASSUME DailyInv, TypeOK', NEW days, Materialize(days)
    PROVE  Countable(shift') /\ NoLongDay(shift')
<1>1. Countable(shift')
  <2>1. IsFiniteSet(Missing(days))
    BY ExchangeAssumption, FS_Subset DEF Missing, ExchangeAssumption
  <2>2. \A s \in ShiftId : Published(s)' => Published(s) \/ s \in Missing(days)
    BY MaterializeStep DEF Published
  <2>3. QED
    BY <2>1, <2>2, StaysCountable DEF DailyInv
<1>2. ASSUME NEW a \in Agent, NEW d \in Days
      PROVE  Minutes(HeldIn(shift', a), d) <= MaxDaily
  <2>1. ASSUME NEW s \in ShiftId, Published(s)', shift'[s].agent = a, s \notin Missing(days)
        PROVE  Published(s) /\ shift[s].agent = a /\ shift[s].at = shift'[s].at
    BY <2>1, MaterializeStep DEF Published
  <2>2. ASSUME NEW s \in Missing(days), shift'[s].agent = a
        PROVE  s \in Candidates(a, days) /\ PlanFits(a, days) /\ shift'[s].at = Hours[s]
    <3>1. shift'[s] = Publish(Owner[s], Hours[s])
      BY MaterializeStep, MissingFacts
    <3>2. Owner[s] = a /\ shift'[s].at = Hours[s]
      BY <2>2, <3>1, MissingFacts, PublishType
    <3>3. QED
      BY <3>2, MissingFacts
  <2>3. CASE \E s \in Missing(days) : shift'[s].agent = a
    <3>1. PICK load :
             /\ IsLoad(load) /\ Workable(load)
             /\ \A p \in Candidates(a, days) : p \in DOMAIN load /\ load[p] = Hours[p]
             /\ \A t \in ShiftId :
                   Published(t) /\ shift[t].agent = a
                      => t \in DOMAIN load /\ load[t] = shift[t].at
      BY <2>2, <2>3, PlanLoad DEF DailyInv, IInv
    <3>2. \A s \in ShiftId : Published(s)' /\ shift'[s].agent = a
             => s \in DOMAIN load /\ load[s] = shift'[s].at
      BY <2>1, <2>2, <3>1
    <3>3. QED
      BY <3>1, <3>2, CheckedBefore
  <2>4. CASE ~ \E s \in Missing(days) : shift'[s].agent = a
    BY <2>1, <2>4, NothingNew DEF DailyInv
  <2>5. QED
    BY <2>3, <2>4
<1>3. QED
  BY <1>1, <1>2 DEF NoLongDay

\* An extra shift is published for an agent who can take it.
LEMMA ApproveDays ==
    ASSUME DailyInv, TypeOK', NEW i \in Interval, NEW a \in Agent, ApproveClaim(i, a)
    PROVE  Countable(shift') /\ NoLongDay(shift')
<1> DEFINE e == Extra(i, a)
<1>1. e \in ShiftId
  BY Ids
<1> HIDE DEF e
<1>2. /\ shift'[e].agent = a /\ shift'[e].at = i
      /\ \A s \in ShiftId : s # e => shift'[s] = shift[s]
  <2>1. shift' = [shift EXCEPT ![e] = Publish(a, i)]
    BY DEF ApproveClaim, e
  <2>2. QED
    BY <1>1, <2>1, PublishType DEF DailyInv, IInv, TypeOK
<1>3. Countable(shift')
  <2>1. IsFiniteSet({e})
    BY FS_Singleton
  <2>2. \A s \in ShiftId : Published(s)' => Published(s) \/ s \in {e}
    BY <1>2 DEF Published
  <2>3. QED
    BY <2>1, <2>2, StaysCountable DEF DailyInv
<1>4. ASSUME NEW b \in Agent, NEW d \in Days
      PROVE  Minutes(HeldIn(shift', b), d) <= MaxDaily
  <2>1. CASE b = a
    <3>1. CanTake(a, e, i, {})
      BY DEF ApproveClaim, e
    <3>2. PICK load :
             /\ IsLoad(load) /\ Workable(load)
             /\ e \in DOMAIN load /\ load[e] = i
             /\ \A t \in ShiftId \ {} :
                   t # e /\ Published(t) /\ shift[t].agent = a
                      => t \in DOMAIN load /\ load[t] = shift[t].at
      BY <1>1, <3>1, TakenLoad DEF DailyInv
    <3>3. \A s \in ShiftId : Published(s)' /\ shift'[s].agent = b
             => s \in DOMAIN load /\ load[s] = shift'[s].at
      BY <1>2, <2>1, <3>2 DEF Published
    <3>4. QED
      BY <3>2, <3>3, CheckedBefore
  <2>2. CASE b # a
    <3>1. \A s \in ShiftId : Published(s)' /\ shift'[s].agent = b =>
             Published(s) /\ shift[s].agent = b /\ shift[s].at = shift'[s].at
      BY <1>2, <2>2 DEF Published
    <3>2. QED
      BY <3>1, NothingNew DEF DailyInv
  <2>3. QED
    BY <2>1, <2>2
<1>5. QED
  BY <1>3, <1>4 DEF NoLongDay

\* An exchange gives each side a shift it can take without the one it gives.
LEMMA ExchangeDays ==
    ASSUME DailyInv, TypeOK', NEW o \in Offer, NEW source, NEW target, NEW by, NEW to,
           Ready(o, source, target, by, to), Exchange(o, source, target, by, to)
    PROVE  Countable(shift') /\ NoLongDay(shift')
<1> DEFINE given == Given(o)
           returned == Returned(o)
<1>1. /\ given \in ShiftId /\ returned \in ShiftId /\ given # returned
      /\ source \in ShiftId /\ by # to /\ by \in Agent /\ to \in Agent
      /\ None \notin ShiftId
  BY Ids, IdAssumption DEF Ready, IdAssumption
<1>2. IInv /\ Exchanged(o, source, target, by, to)
  BY ExchangeRows DEF DailyInv
<1>3. /\ shift[source].at \in Interval
      /\ target # None => target \in ShiftId /\ shift[target].at \in Interval
  BY <1>2, ExchangeReads DEF Ready
<1>4. ~Published(source)' /\ (target # None => ~Published(target)')
  BY <1>2, ExchangeReads DEF Published
<1>5. \A s \in ShiftId : Published(s)' /\ s # given /\ s # returned =>
         /\ s \notin {source, target} /\ shift'[s] = shift[s] /\ Published(s)
  BY <1>1, <1>2, <1>4 DEF Published, Exchanged
<1>6. /\ shift'[given].agent = to /\ shift'[given].at = shift[source].at
      /\ Published(returned)' =>
            /\ target # None
            /\ shift'[returned].agent = by /\ shift'[returned].at = shift[target].at
  BY <1>2, ExchangeReads DEF Published, NoShift
<1>7. /\ CanTake(to, given, shift[source].at, {target})
      /\ target # None => CanTake(by, returned, shift[target].at, {source})
  BY DEF Exchange, Applicable, Ready
<1> HIDE DEF given, returned
<1>8. Countable(shift')
  <2>1. IsFiniteSet({given, returned})
    <3>1. IsFiniteSet({given}) /\ IsFiniteSet({returned})
      BY FS_Singleton
    <3>2. IsFiniteSet({given} \cup {returned})
      BY <3>1, FS_Union
    <3>3. {given} \cup {returned} = {given, returned}
      OBVIOUS
    <3>4. QED
      BY <3>2, <3>3
  <2>2. QED
    BY <1>5, <2>1, StaysCountable DEF DailyInv
<1>9. ASSUME NEW a \in Agent, NEW d \in Days
      PROVE  Minutes(HeldIn(shift', a), d) <= MaxDaily
  <2>1. CASE a = to
    <3>1. PICK load :
             /\ IsLoad(load) /\ Workable(load)
             /\ given \in DOMAIN load /\ load[given] = shift[source].at
             /\ \A t \in ShiftId \ {target} :
                   t # given /\ Published(t) /\ shift[t].agent = to
                      => t \in DOMAIN load /\ load[t] = shift[t].at
      BY <1>1, <1>3, <1>7, TakenLoad DEF DailyInv
    <3>2. ASSUME NEW s \in ShiftId, Published(s)', shift'[s].agent = a
          PROVE  s \in DOMAIN load /\ load[s] = shift'[s].at
      <4>1. s # returned
        BY <1>1, <1>6, <2>1, <3>2
      <4>2. CASE s = given
        BY <1>6, <3>1, <4>2
      <4>3. CASE s # given
        BY <1>5, <2>1, <3>1, <3>2, <4>1, <4>3
      <4>4. QED
        BY <4>2, <4>3
    <3>3. QED
      BY <3>1, <3>2, CheckedBefore
  <2>2. CASE a = by /\ Published(returned)'
    <3>1. PICK load :
             /\ IsLoad(load) /\ Workable(load)
             /\ returned \in DOMAIN load /\ load[returned] = shift[target].at
             /\ \A t \in ShiftId \ {source} :
                   t # returned /\ Published(t) /\ shift[t].agent = by
                      => t \in DOMAIN load /\ load[t] = shift[t].at
      BY <1>1, <1>3, <1>6, <1>7, <2>2, TakenLoad DEF DailyInv
    <3>2. ASSUME NEW s \in ShiftId, Published(s)', shift'[s].agent = a
          PROVE  s \in DOMAIN load /\ load[s] = shift'[s].at
      <4>1. s # given
        BY <1>1, <1>6, <2>2, <3>2
      <4>2. CASE s = returned
        BY <1>6, <2>2, <3>1, <4>2
      <4>3. CASE s # returned
        BY <1>5, <2>2, <3>1, <3>2, <4>1, <4>3
      <4>4. QED
        BY <4>2, <4>3
    <3>3. QED
      BY <3>1, <3>2, CheckedBefore
  <2>3. CASE a # to /\ ~(a = by /\ Published(returned)')
    <3>1. \A s \in ShiftId : Published(s)' /\ shift'[s].agent = a =>
             Published(s) /\ shift[s].agent = a /\ shift[s].at = shift'[s].at
      BY <1>5, <1>6, <2>3
    <3>2. QED
      BY <3>1, NothingNew DEF DailyInv
  <2>4. QED
    BY <2>1, <2>2, <2>3
<1>10. QED
  BY <1>8, <1>9 DEF NoLongDay

\* Nothing is held at first,
LEMMA InitDays == Init => DailyInv
<1> SUFFICES ASSUME Init PROVE DailyInv
  OBVIOUS
<1>1. IInv
  BY InitIInv
<1>2. \A s \in ShiftId : shift[s].status # "PUBLISHED"
  BY DEF Init, NoShift
<1>3. Countable(shift)
  <2>1. {s \in ShiftId : shift[s].status = "PUBLISHED"} = {}
    BY <1>2
  <2>2. QED
    BY <1>1, <2>1, FS_EmptySet DEF Countable, IInv, TypeOK
<1>4. ASSUME NEW a \in Agent, NEW d \in Days
      PROVE  Minutes(HeldIn(shift, a), d) <= MaxDaily
  <2>1. Work(HeldIn(shift, a), OfDay(HeldIn(shift, a), d)) = {}
    BY <1>2 DEF Work, OfDay, HeldIn
  <2>2. Minutes(HeldIn(shift, a), d) = 0
    BY <1>3, <2>1, HeldLoad, MinutesCount, FS_EmptySet
  <2>3. MaxDaily \in Nat
    BY ExchangeAssumption DEF ExchangeAssumption
  <2>4. QED
    BY <2>2, <2>3
<1>5. QED
  BY <1>1, <1>3, <1>4 DEF DailyInv, NoLongDay

\* and no step makes a day too long.
LEMMA StepDays == DailyInv /\ [Next]_vars => DailyInv'
<1> SUFFICES ASSUME DailyInv, [Next]_vars PROVE DailyInv'
  OBVIOUS
<1>1. IInv' /\ TypeOK'
  BY StepIInv DEF DailyInv, IInv
<1>2. ASSUME UNCHANGED shift
      PROVE  Countable(shift') /\ NoLongDay(shift')
  BY <1>2 DEF DailyInv
<1>3. ASSUME NEW days, Materialize(days)
      PROVE  Countable(shift') /\ NoLongDay(shift')
  BY <1>1, <1>3, MaterializeDays
<1>4. ASSUME NEW i \in Interval, NEW a \in Agent, ClaimSlot(i, a) \/ DecideClaim(i, a)
      PROVE  Countable(shift') /\ NoLongDay(shift')
  <2>1. CASE ApproveClaim(i, a)
    BY <1>1, <2>1, ApproveDays
  <2>2. CASE ~ApproveClaim(i, a)
    BY <1>2, <1>4, <2>2 DEF ClaimSlot, DecideClaim
  <2>3. QED
    BY <2>1, <2>2
<1>5. ASSUME NEW o \in Offer, NEW a \in Agent, NEW target \in PublishedShifts \cup {None},
             AcceptOffer(o, a, target)
      PROVE  Countable(shift') /\ NoLongDay(shift')
  <2>1. Ready(o, offer[o].source, target, offer[o].by, a)
    BY <1>5, AcceptReady DEF DailyInv
  <2>2. CASE Exchange(o, offer[o].source, target, offer[o].by, a)
    BY <1>1, <2>1, <2>2, ExchangeDays
  <2>3. QED
    BY <1>2, <1>5, <2>2 DEF AcceptOffer
<1>6. ASSUME NEW o \in Offer, DecideOffer(o)
      PROVE  Countable(shift') /\ NoLongDay(shift')
  <2>1. Ready(o, offer[o].source, offer[o].target, offer[o].by, offer[o].to)
    BY <1>6, DecideReady DEF DecideOffer, DailyInv
  <2>2. CASE Exchange(o, offer[o].source, offer[o].target, offer[o].by, offer[o].to)
    BY <1>1, <2>1, <2>2, ExchangeDays
  <2>3. QED
    BY <1>2, <1>6, <2>2 DEF DecideOffer, Close
<1>7. ASSUME NEW i \in Interval, CreateSlot(i)
      PROVE  UNCHANGED shift
  BY <1>7 DEF CreateSlot
<1>8. ASSUME NEW o \in Offer, NEW source, NEW target, NEW type, NEW to, NEW expires,
             CreateOffer(o, type, source, target, to, expires)
      PROVE  UNCHANGED shift
  BY <1>8 DEF CreateOffer
<1>9. ASSUME NEW o \in Offer, CancelOffer(o)
      PROVE  UNCHANGED shift
  BY <1>9 DEF CancelOffer, Close
<1>10. Tick \/ UNCHANGED vars => UNCHANGED shift
  BY DEF Tick, vars
<1>11. Countable(shift') /\ NoLongDay(shift')
  BY <1>2, <1>3, <1>4, <1>5, <1>6, <1>7, <1>8, <1>9, <1>10 DEF Next
<1>12. QED
  BY <1>1, <1>11 DEF DailyInv

\* However plans, extra shifts and exchanges follow each other, no agent is left
\* with overlapping shifts, too little rest or too long a day.
THEOREM WorkloadsHold == Spec => []WorkloadRespected
<1>1. Spec => []DailyInv
  BY InitDays, StepDays, PTL DEF Spec
<1>2. DailyInv => WorkloadRespected
  <2> SUFFICES ASSUME DailyInv PROVE WorkloadRespected
    OBVIOUS
  <2>1. \A a \in Agent : Held(a, {}) = HeldIn(shift, a)
    BY DEF HeldIn, Held, PublishedShifts, Published
  <2>2. QED
    BY <2>1 DEF DailyInv, IInv, NoLongDay, WorkloadRespected
<1>3. QED
  BY <1>1, <1>2, PTL
=============================================================================
