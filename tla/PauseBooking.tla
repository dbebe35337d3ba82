----------------------------- MODULE PauseBooking -----------------------------
(***************************************************************************)
(* Pauses of one support team on one day                                   *)
(* (services/api/src/core/support-operations/support-operations.service.ts):*)
(* agents book slots, move and cancel their bookings and swap them with    *)
(* each other, while the schedule under the bookings changes               *)
(* (core/support-scheduling).  Every operation is one serializable         *)
(* transaction, so one step; what interleaves is the agents, the managers, *)
(* the schedule and the clock.  Calls that change nothing (refusals and    *)
(* idempotent repeats) are stuttering steps and left out.                  *)
(*                                                                         *)
(* A slot is named by its start; all slots of a policy have its duration.  *)
(* Permissions only narrow who may call an operation: every call is        *)
(* allowed to someone.                                                     *)
(***************************************************************************)
EXTENDS Naturals, FiniteSets

CONSTANTS
    User,           \* active SAC agents of the team
    Slot,           \* pause slots, by start
    Duration,       \* pauseDurationMinutes of the policy
    Capacity,       \* bookings a slot takes
    MinCoverage,    \* minimumCoverage of the policy
    Window,         \* intervals a published shift may have
    Booking,        \* SupportPauseBooking ids
    Swap,           \* SupportPauseSwap ids
    Unlinked,       \* shiftOccurrenceId = null
    NoSwap,         \* no lock
    SwapLife,       \* time a proposal stays open
    MaxTime         \* bound: the clock stops here

ASSUME PauseAssumption ==
    /\ IsFiniteSet(User) /\ IsFiniteSet(Booking)
    /\ Slot \subseteq Nat
    /\ Duration \in Nat \ {0}
    /\ Capacity \in Nat \ {0}
    /\ MinCoverage \in Nat \ {0}
    /\ Window \subseteq [from : Nat, to : Nat]
    /\ Unlinked \notin [user : User, window : Window]
    /\ NoSwap \notin Swap
    /\ SwapLife \in Nat \ {0}
    /\ MaxTime \in Nat

VARIABLES
    now,        \* the clock
    roster,     \* the PUBLISHED shift occurrences of the day
    booking,    \* SupportPauseBooking rows
    swap,       \* SupportPauseSwap rows
    lock        \* SupportPauseSwapBookingLock rows, by booking

vars == <<now, roster, booking, swap, lock>>

Occurrence == [user : User, window : Window]

BookingRow ==
    [status : {"BOOKED", "CANCELLED", "RESCHEDULED"}, slot : Slot, user : User,
     shift : Occurrence \cup {Unlinked}, flagged : BOOLEAN]
NoBooking == [status |-> "NONE"]

\* A proposal; `slots' is an observation of what the two agents saw.
SwapRow ==
    [status : {"PENDING", "ACCEPTED", "DECLINED", "CANCELLED", "EXPIRED"},
     requester : Booking, target : Booking, expires : Nat, slots : Slot \X Slot]
NoProposal == [status |-> "NONE"]

TypeOK ==
    /\ now \in Nat
    /\ roster \in SUBSET Occurrence
    /\ booking \in [Booking -> BookingRow \cup {NoBooking}]
    /\ swap \in [Swap -> SwapRow \cup {NoProposal}]
    /\ lock \in [Booking -> Swap \cup {NoSwap}]

Init ==
    /\ now = 0
    /\ roster = {}
    /\ booking = [b \in Booking |-> NoBooking]
    /\ swap = [x \in Swap |-> NoProposal]
    /\ lock = [b \in Booking |-> NoSwap]

-----------------------------------------------------------------------------
(* The schedule.                                                             *)

Fits(s, w)   == w.from <= s /\ s + Duration <= w.to
Disjoint(v, w) == v.to <= w.from \/ w.to <= v.from

\* findPublishedOccurrenceCoveringInterval, as a set
Covering(u, s) == {o \in roster : o.user = u /\ Fits(s, o.window)}
Scheduled(s)   == {u \in User : Covering(u, s) # {}}

\* effectiveShiftForPause: once the team has a schedule that day, the agent
\* needs a shift around the pause.
ScheduleMode == roster # {}
MayPause(u, s) == ScheduleMode => Covering(u, s) # {}
\* Mutant of ShiftOf: the booking keeps the interval instead of the occurrence.
IntervalOf(u, s) ==
    IF Covering(u, s) = {} THEN Unlinked ELSE (CHOOSE o \in Covering(u, s) : TRUE).window

ShiftOf(u, s) ==
    IF Covering(u, s) = {} THEN Unlinked ELSE CHOOSE o \in Covering(u, s) : TRUE

\* validateUserWorkload: no agent works two shifts at once.
Free(u, w, except) ==
    \A o \in roster \ except : o.user = u => Disjoint(o.window, w)

\* Materialisation of the plan, or an approved extra shift.
PublishShift(u, w) ==
    /\ Free(u, w, {})
    /\ roster' = roster \cup {[user |-> u, window |-> w]}
    /\ UNCHANGED <<now, booking, swap, lock>>

\* Mutant of ChangeHands: the bookings are forgotten.
ChangeHandsSilently(given, taken) ==
    /\ roster' = (roster \ given) \cup taken
    /\ UNCHANGED <<now, booking, swap, lock>>

\* applyShiftOffer: the occurrences `given' change hands (one when it is given
\* away, two when they are swapped) and the bookings that hang on them are
\* flagged for rescheduling.
ChangeHands(given, taken) ==
    /\ roster' = (roster \ given) \cup taken
    /\ booking' = [b \in Booking |->
                     IF /\ booking[b].status = "BOOKED"
                        /\ booking[b].shift \in given
                     THEN [booking[b] EXCEPT !.flagged = TRUE]
                     ELSE booking[b]]
    /\ UNCHANGED <<now, swap, lock>>

GiveShift(o, v) ==
    /\ o \in roster /\ o.window.from > now
    /\ o.user # v /\ Free(v, o.window, {})
    /\ ChangeHands({o}, {[user |-> v, window |-> o.window]})

SwapShifts(o, p) ==
    /\ o \in roster /\ p \in roster
    /\ o.user # p.user /\ o.window.from > now /\ p.window.from > now
    /\ Free(p.user, o.window, {p}) /\ Free(o.user, p.window, {o})
    /\ ChangeHands({o, p}, {[user |-> p.user, window |-> o.window],
                            [user |-> o.user, window |-> p.window]})

-----------------------------------------------------------------------------
(* Bookings.                                                                 *)

Overlap(s, t) == s < t + Duration /\ t < s + Duration

Exists(b)  == booking[b].status # "NONE"
Booked     == {b \in Booking : booking[b].status = "BOOKED"}
InSlot(s)  == {b \in Booked : booking[b].slot = s}
RowsOf(u, s) == {b \in Booking : Exists(b) /\ booking[b].user = u /\ booking[b].slot = s}

\* The row an operation writes: the one the unique key (slot, user) names, or a
\* new one.
RowFor(b, u, s) == b \in RowsOf(u, s) \/ (~Exists(b) /\ RowsOf(u, s) = {})

\* Mutant of Unoccupied: only the slot itself is looked at.
SlotUnoccupied(u, s, except) ==
    \A b \in Booked \ except : booking[b].user = u => booking[b].slot # s

\* No other booked pause of the agent overlaps the slot.
Unoccupied(u, s, except) ==
    \A b \in Booked \ except : booking[b].user = u => ~Overlap(booking[b].slot, s)

Agents(s) == IF ScheduleMode THEN Scheduled(s) ELSE User
Paused(s, except) ==
    {booking[b].user : b \in {c \in Booked \ except : Overlap(booking[c].slot, s)}}

\* activeAgents - pausedUsers.size >= minimumCoverage, with u paused too
Covered(u, s, except) ==
    Cardinality(Agents(s)) >= MinCoverage + Cardinality(Paused(s, except) \cup {u})

\* Mutant of Full: off by one.
FullBeyond(s) == Cardinality(InSlot(s)) > Capacity

Full(s) == Cardinality(InSlot(s)) >= Capacity

Reserve(u, s) ==
    [status |-> "BOOKED", slot |-> s, user |-> u, shift |-> ShiftOf(u, s),
     flagged |-> FALSE]

\* Booking again what is booked is idempotent, unless the shift below it changed.
UpToDate(b) ==
    /\ booking[b].status = "BOOKED" /\ ~booking[b].flagged
    /\ ScheduleMode =>
         booking[b].shift = ShiftOf(booking[b].user, booking[b].slot)

\* bookSupportPauseSlot; an override is a manager's and must be needed.
Book(b, u, s, override) ==
    /\ s > now
    /\ RowFor(b, u, s)
    /\ MayPause(u, s)
    /\ booking[b].status # "RESCHEDULED"
    /\ ~UpToDate(b)
    /\ Unoccupied(u, s, {b})
    /\ override <=> Full(s) \/ ~Covered(u, s, {})
    /\ booking' = [booking EXCEPT ![b] = Reserve(u, s)]
    /\ UNCHANGED <<now, roster, swap, lock>>

-----------------------------------------------------------------------------
(* Proposals to swap two bookings.                                           *)

Involves(x, b) == swap[x].status # "NONE" /\ b \in {swap[x].requester, swap[x].target}
Pending(x)     == swap[x].status = "PENDING"

\* Mutant of PendingOn: proposals made to the booking are not looked for.
PendingBy(B) == {x \in Swap : Pending(x) /\ swap[x].requester \in B}

PendingOn(B)   == {x \in Swap : Pending(x) /\ \E b \in B : Involves(x, b)}

\* Proposals X become `status' and let go of their bookings.
Close(X, status) ==
    /\ swap' = [x \in Swap |-> IF x \in X THEN [swap[x] EXCEPT !.status = status]
                                          ELSE swap[x]]
    /\ lock' = [b \in Booking |-> IF lock[b] \in X THEN NoSwap ELSE lock[b]]

Cancel(b) ==
    /\ booking[b].status \in {"BOOKED", "CANCELLED"}
    /\ booking[b].slot > now
    /\ Close(PendingOn({b}), "CANCELLED")
    /\ booking' = [booking EXCEPT ![b].status = "CANCELLED"]
    /\ UNCHANGED <<now, roster>>

Moved(b) ==
    [status |-> "RESCHEDULED", slot |-> booking[b].slot, user |-> booking[b].user,
     shift |-> booking[b].shift, flagged |-> FALSE]

\* rescheduleSupportPauseBooking: b moves to slot s as row c.
Reschedule(b, c, s) ==
    LET u == booking[b].user
    IN /\ booking[b].status = "BOOKED"
       /\ booking[b].slot # s /\ s > now
       /\ RowFor(c, u, s)
       /\ booking[c].status # "BOOKED"
       /\ MayPause(u, s)
       /\ ~Full(s)
       /\ Unoccupied(u, s, {b})
       /\ Covered(u, s, {b})
       /\ booking' = [booking EXCEPT ![c] = Reserve(u, s), ![b] = Moved(b)]
       /\ Close(PendingOn({b}), "CANCELLED")
       /\ UNCHANGED <<now, roster>>

Expired(x) == swap[x].expires <= now

Earliest(S) == CHOOSE t \in S : \A u \in S : t <= u

\* requestSupportPauseSwap: proposals that ran out are expired on the way.
RequestSwap(x, r, t) ==
    LET stale   == {y \in PendingOn({r, t}) : Expired(y)}
        expires == Earliest({now + SwapLife, booking[r].slot, booking[t].slot})
    IN /\ {r, t} \subseteq Booked
       /\ booking[r].user # booking[t].user
       /\ PendingOn({r, t}) \subseteq stale
       /\ expires > now
       /\ swap[x].status = "NONE"
       /\ swap' = [y \in Swap |->
                     IF y = x THEN [status |-> "PENDING", requester |-> r, target |-> t,
                                    expires |-> expires,
                                    slots |-> <<booking[r].slot, booking[t].slot>>]
                     ELSE IF y \in stale THEN [swap[y] EXCEPT !.status = "EXPIRED"]
                     ELSE swap[y]]
       /\ lock' = [b \in Booking |-> IF b \in {r, t} THEN x
                                     ELSE IF lock[b] \in stale THEN NoSwap ELSE lock[b]]
       /\ UNCHANGED <<now, roster, booking>>

CancelSwap(x) ==
    /\ Pending(x)
    /\ Close({x}, "CANCELLED")
    /\ UNCHANGED <<now, roster, booking>>

\* listSupportPauses expires the run-out proposals of its list, which may be out
\* of date by the time of the update.
ExpireListed(X) ==
    /\ X # {} /\ \A x \in X : Pending(x) /\ Expired(x)
    /\ Close(X, "EXPIRED")
    /\ UNCHANGED <<now, roster, booking>>

\* decideSupportPauseSwap: what both decisions ask for.
Decidable(x) ==
    /\ Pending(x)
    /\ ~Expired(x)
    /\ {swap[x].requester, swap[x].target} \subseteq Booked

Decline(x) ==
    /\ Decidable(x)
    /\ Close({x}, "DECLINED")
    /\ UNCHANGED <<now, roster, booking>>

\* The two bookings exchange their slots.  A cancelled booking in the way is
\* deleted, which the database refuses if a proposal still names it; a
\* rescheduled one in the way makes the update fail.
Accept(x) ==
    LET r  == swap[x].requester
        t  == swap[x].target
        u  == booking[r].user
        v  == booking[t].user
        in_the_way == (RowsOf(u, booking[t].slot) \cup RowsOf(v, booking[r].slot)) \ {r, t}
    IN /\ Decidable(x)
       /\ Covering(u, booking[t].slot) # {} /\ Covering(v, booking[r].slot) # {}
       /\ Unoccupied(u, booking[t].slot, {r}) /\ Unoccupied(v, booking[r].slot, {t})
       /\ \A b \in in_the_way : /\ booking[b].status = "CANCELLED"
                                /\ \A y \in Swap : ~Involves(y, b)
       /\ booking' = [b \in Booking |->
                        IF b = r THEN Reserve(u, booking[t].slot)
                        ELSE IF b = t THEN Reserve(v, booking[r].slot)
                        ELSE IF b \in in_the_way THEN NoBooking
                        ELSE booking[b]]
       /\ Close({x}, "ACCEPTED")
       /\ UNCHANGED <<now, roster>>

\* What listSupportPauses shows of a booking: flagged, or not inside the shift it
\* was made under (the mutant forgets the bookings made under none).
LinkedRequiresReschedule(b) ==
    \/ booking[b].flagged
    \/ /\ ScheduleMode /\ booking[b].shift # Unlinked
       /\ ~(booking[b].shift \in roster /\ Fits(booking[b].slot, booking[b].shift.window))

RequiresReschedule(b) ==
    \/ booking[b].flagged
    \/ /\ ScheduleMode
       /\ \/ booking[b].shift = Unlinked
          \/ ~(booking[b].shift \in roster /\ Fits(booking[b].slot, booking[b].shift.window))

Tick ==
    /\ now < MaxTime
    /\ now' = now + 1
    /\ UNCHANGED <<roster, booking, swap, lock>>

Next ==
    \/ \E u \in User, w \in Window : PublishShift(u, w)
    \/ \E o \in roster, v \in User : GiveShift(o, v)
    \/ \E o, p \in roster : SwapShifts(o, p)
    \/ \E b \in Booking :
         \/ Cancel(b)
         \/ \E s \in Slot : \/ \E u \in User, override \in BOOLEAN : Book(b, u, s, override)
                            \/ \E c \in Booking : Reschedule(b, c, s)
    \/ \E x \in Swap :
         \/ \E r, t \in Booking : RequestSwap(x, r, t)
         \/ CancelSwap(x) \/ Decline(x) \/ Accept(x)
    \/ \E X \in SUBSET Swap : ExpireListed(X)
    \/ Tick

Spec == Init /\ [][Next]_vars

-----------------------------------------------------------------------------
(* Properties.                                                               *)

\* "Cada booking participa de no maximo um swap de Pausa pendente" (RUNBOOK-007):
\* a booking's lock names the one pending proposal about it, and every way out of
\* PENDING (accept, decline, cancel, expiry, a cancelled or moved booking) frees
\* both bookings.
LocksFollowProposals ==
    \A b \in Booking : {x \in Swap : lock[b] = x} = PendingOn({b})

\* A pending proposal is still about the slots the two agents saw when it was
\* made, and about bookings that stand: nobody accepts what he was not offered.
ProposalStands ==
    \A x \in Swap : Pending(x) =>
        LET r == swap[x].requester
            t == swap[x].target
        IN /\ {r, t} \subseteq Booked
           /\ <<booking[r].slot, booking[t].slot>> = swap[x].slots

\* A proposal keeps what it is about, and its locks, until it is decided.
ProposalsAreSound == LocksFollowProposals /\ ProposalStands

\* Nobody is on two pauses at once, through any mix of bookings, reactivations,
\* moves and accepted swaps.
NoDoublePause ==
    \A b, c \in Booked :
        /\ b # c
        /\ booking[b].user = booking[c].user
        => ~Overlap(booking[b].slot, booking[c].slot)

\* "Mudanca de escala nunca move pausa silenciosamente" (RUNBOOK-007): a booking
\* made under a shift is inside a shift its agent still has, or is flagged for
\* rescheduling.
LinkedFitsOrFlagged ==
    \A b \in Booked :
        booking[b].shift # Unlinked /\ ~booking[b].flagged
        => /\ booking[b].shift \in roster
           /\ booking[b].shift \in Covering(booking[b].user, booking[b].slot)

\* "Booking incompativel recebe estado de remarcacao" (ADR-006, item 7): once the
\* day has a schedule, a booking outside its agent's shifts is shown as one to
\* reschedule, whether it was made before the schedule, moved, swapped, or its
\* shift given away.
IncompatibleIsShown ==
    \A b \in Booked :
        ScheduleMode /\ Covering(booking[b].user, booking[b].slot) = {}
        => RequiresReschedule(b)

\* No change of the schedule leaves a pause outside a shift unnoticed.
ShiftChangesShow == LinkedFitsOrFlagged /\ IncompatibleIsShown

\* Only an override fills a slot beyond its capacity: moves and swaps never do.
Overrides == \E b \in Booking, u \in User, s \in Slot : Book(b, u, s, TRUE)

OverfullOnlyByOverride ==
    [][\A s \in Slot :
         Cardinality(InSlot(s)') > Cardinality(InSlot(s)) /\ Cardinality(InSlot(s)') > Capacity
         => Overrides]_vars

\* The agents of an instant that are not on pause, as ADR-006 counts them.
PausedAt(t)  == {b \in Booked : booking[b].slot <= t /\ t < booking[b].slot + Duration}
AgentsAt(t)  == IF ScheduleMode
                THEN {o.user : o \in {p \in roster : p.window.from <= t /\ t < p.window.to}}
                ELSE User
Horizon      == UNION {s..(s + Duration - 1) : s \in Slot}

\* While the schedule stands, only an override lowers the coverage of an instant
\* below the minimum: the check per slot is enough for every instant of it, and
\* a swap, which checks nothing, costs nothing.
ThinOnlyByOverride ==
    [][roster' = roster => \A t \in Horizon :
         /\ Cardinality(PausedAt(t)') > Cardinality(PausedAt(t))
         /\ Cardinality(AgentsAt(t)) < MinCoverage + Cardinality(PausedAt(t)')
         => Overrides]_vars

\* The limits of a slot and of the coverage give way to overrides only.
LimitsGiveWayToOverrides == OverfullOnlyByOverride /\ ThinOnlyByOverride

\* "a reserva anterior permanece no historico" (RUNBOOK-007): a booking that was
\* moved stays in the history as moved.
HistoryKept ==
    [][\A b \in Booking : booking[b].status = "RESCHEDULED"
                          => booking'[b].status = "RESCHEDULED"]_vars
=============================================================================
