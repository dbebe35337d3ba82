-------------------------- MODULE PauseBookingProofs --------------------------
(***************************************************************************)
(* For any number of agents, slots, bookings and proposals: locks follow   *)
(* the pending proposals, a pending proposal still stands for what was     *)
(* offered, nobody is on two pauses at once, a booking made under a shift  *)
(* is inside it or flagged, and only an override exceeds the limits of a   *)
(* slot or of the coverage.                                                *)
(***************************************************************************)
EXTENDS PauseBooking, FiniteSetTheorems, TLAPS

\* The two sides of a pending proposal belong to different agents.
PartiesDiffer ==
    \A x \in Swap : Pending(x) =>
        booking[swap[x].requester].user # booking[swap[x].target].user

\* The inductive invariant.
IInv ==
    /\ TypeOK
    /\ LocksFollowProposals
    /\ ProposalStands
    /\ PartiesDiffer
    /\ NoDoublePause
    /\ LinkedFitsOrFlagged

\* The statuses of a request that is settled.
Closed == {"ACCEPTED", "DECLINED", "CANCELLED", "EXPIRED"}

-----------------------------------------------------------------------------
(* What the types say of one row.                                            *)

\* A booked row is a full row.
LEMMA BookedRow ==
    ASSUME TypeOK, NEW b \in Booked
    PROVE  /\ b \in Booking /\ booking[b] \in BookingRow
           /\ booking[b].slot \in Slot /\ booking[b].slot \in Nat
           /\ booking[b].user \in User
           /\ booking[b].shift \in Occurrence \cup {Unlinked}
<1>1. b \in Booking /\ booking[b].status = "BOOKED"
  BY DEF Booked
<1>2. booking[b] \in BookingRow
  BY <1>1 DEF TypeOK, NoBooking
<1>3. QED
  BY <1>1, <1>2, PauseAssumption DEF BookingRow

\* A pending proposal is a full row.
LEMMA PendingRow ==
    ASSUME TypeOK, NEW x \in Swap, Pending(x)
    PROVE  /\ swap[x] \in SwapRow
           /\ swap[x].requester \in Booking /\ swap[x].target \in Booking
<1>1. swap[x] \in SwapRow
  BY DEF TypeOK, Pending, NoProposal
<1>2. QED
  BY <1>1 DEF SwapRow

\* A lock names a proposal exactly when that proposal is pending on the booking.
LEMMA LockNames ==
    ASSUME LocksFollowProposals, NEW b \in Booking, NEW x \in Swap
    PROVE  lock[b] = x <=> Pending(x) /\ b \in {swap[x].requester, swap[x].target}
  BY DEF LocksFollowProposals, PendingOn, Involves, Pending

\* A reservation is a full row.
LEMMA ReserveRow ==
    ASSUME TypeOK, NEW u \in User, NEW s \in Slot
    PROVE  /\ Reserve(u, s) \in BookingRow
           /\ Reserve(u, s).shift # Unlinked =>
                /\ Reserve(u, s).shift \in roster
                /\ Reserve(u, s).shift \in Covering(u, s)
<1>1. ShiftOf(u, s) = Unlinked \/ ShiftOf(u, s) \in Covering(u, s)
  BY DEF ShiftOf
<1>2. Covering(u, s) \subseteq roster
  BY DEF Covering
<1>3. ShiftOf(u, s) \in Occurrence \cup {Unlinked}
  BY <1>1, <1>2 DEF TypeOK
<1>4. Reserve(u, s) \in BookingRow
  BY <1>3 DEF Reserve, BookingRow
<1>5. Reserve(u, s).shift = ShiftOf(u, s)
  BY DEF Reserve
<1>6. QED
  BY <1>1, <1>2, <1>4, <1>5

-----------------------------------------------------------------------------
(* Closing proposals.                                                        *)

\* Closing pending proposals frees exactly their bookings and touches no other.
LEMMA CloseKeepsLocks ==
    ASSUME TypeOK, LocksFollowProposals, NEW X \in SUBSET Swap, NEW s \in Closed,
           \A x \in X : Pending(x), Close(X, s)
    PROVE  /\ swap' \in [Swap -> SwapRow \cup {NoProposal}]
           /\ lock' \in [Booking -> Swap \cup {NoSwap}]
           /\ LocksFollowProposals'
           /\ \A x \in Swap : Pending(x)' => x \notin X /\ Pending(x) /\ swap'[x] = swap[x]
<1>1. ASSUME NEW x \in X PROVE swap'[x] \in SwapRow /\ swap'[x].status = s
  <2>1. swap[x] \in SwapRow
    BY PendingRow
  <2>2. swap'[x] = [swap[x] EXCEPT !.status = s]
    BY DEF Close
  <2>3. QED
    BY <2>1, <2>2 DEF SwapRow, Closed
<1>2. ASSUME NEW x \in Swap, x \notin X PROVE swap'[x] = swap[x]
  BY <1>2 DEF Close
<1>3. swap' \in [Swap -> SwapRow \cup {NoProposal}]
  <2>1. \A x \in Swap : swap'[x] \in SwapRow \cup {NoProposal}
    BY <1>1, <1>2 DEF TypeOK
  <2>2. QED
    BY <2>1 DEF Close
<1>4. \A x \in Swap : Pending(x)' <=> x \notin X /\ Pending(x)
  BY <1>1, <1>2 DEF Pending, Closed
<1>5. lock' \in [Booking -> Swap \cup {NoSwap}]
  BY DEF Close, TypeOK
<1>6. LocksFollowProposals'
  <2>1. ASSUME NEW b \in Booking, NEW x \in Swap
        PROVE  lock'[b] = x <=> Pending(x)' /\ b \in {swap'[x].requester, swap'[x].target}
    <3>1. lock'[b] = IF lock[b] \in X THEN NoSwap ELSE lock[b]
      BY DEF Close
    <3>2. NoSwap # x
      BY PauseAssumption
    <3>3. lock[b] = x <=> Pending(x) /\ b \in {swap[x].requester, swap[x].target}
      BY LockNames
    <3>4. CASE x \in X
      BY <1>4, <3>1, <3>2, <3>4
    <3>5. CASE x \notin X
      BY <1>2, <1>4, <3>1, <3>2, <3>3, <3>5
    <3>6. QED
      BY <3>4, <3>5
  <2>2. QED
    BY <2>1 DEF LocksFollowProposals, PendingOn, Involves, Pending
<1>7. QED
  BY <1>2, <1>3, <1>4, <1>5, <1>6

\* Proposals stand as long as no booking of a proposal still pending moves.
LEMMA ProposalsStillStand ==
    ASSUME TypeOK, ProposalStands, PartiesDiffer,
           NEW B \in SUBSET Booking,
           \A b \in Booking \ B : booking[b].status = "BOOKED" =>
               /\ booking'[b].status = "BOOKED"
               /\ booking'[b].slot = booking[b].slot
               /\ booking'[b].user = booking[b].user,
           \A x \in Swap : Pending(x)' =>
               /\ Pending(x) /\ swap'[x] = swap[x]
               /\ swap[x].requester \notin B /\ swap[x].target \notin B
    PROVE  ProposalStands' /\ PartiesDiffer'
<1>1. SUFFICES ASSUME NEW x \in Swap, Pending(x)'
               PROVE  LET r == swap'[x].requester
                          t == swap'[x].target
                      IN /\ {r, t} \subseteq Booked'
                         /\ <<booking'[r].slot, booking'[t].slot>> = swap'[x].slots
                         /\ booking'[r].user # booking'[t].user
  BY DEF ProposalStands, PartiesDiffer
<1> DEFINE r == swap[x].requester
           t == swap[x].target
<1>2. Pending(x) /\ swap'[x] = swap[x] /\ r \notin B /\ t \notin B
  BY <1>1
<1>3. /\ r \in Booked /\ t \in Booked
      /\ <<booking[r].slot, booking[t].slot>> = swap[x].slots
      /\ booking[r].user # booking[t].user
  BY <1>2 DEF ProposalStands, PartiesDiffer
<1>4. /\ r \in Booked' /\ t \in Booked'
      /\ booking'[r].slot = booking[r].slot /\ booking'[t].slot = booking[t].slot
      /\ booking'[r].user = booking[r].user /\ booking'[t].user = booking[t].user
  BY <1>2, <1>3 DEF Booked
<1>5. QED
  BY <1>2, <1>3, <1>4

\* Bookings that stay as they are, or are reserved where their agent has no other
\* pause, leave nobody on two pauses and every link sound.
LEMMA PlacesStayApart ==
    ASSUME IInv, roster' = roster, booking' \in [Booking -> BookingRow \cup {NoBooking}],
           \A b \in Booking : booking'[b].status = "BOOKED" =>
              \/ booking'[b] = booking[b]
              \/ \E u \in User, s \in Slot :
                    /\ booking'[b] = Reserve(u, s)
                    /\ \A c \in Booking \ {b} :
                          /\ booking'[c].status = "BOOKED"
                          /\ booking'[c].user = u
                          => ~Overlap(booking'[c].slot, s)
    PROVE  NoDoublePause' /\ LinkedFitsOrFlagged'
<1> USE DEF IInv
<1>1. NoDoublePause'
  <2>1. SUFFICES ASSUME NEW b \in Booking, NEW c \in Booking, b # c,
                        booking'[b].status = "BOOKED", booking'[c].status = "BOOKED",
                        booking'[b].user = booking'[c].user
                 PROVE  ~Overlap(booking'[b].slot, booking'[c].slot)
    BY DEF NoDoublePause, Booked
  <2>2. /\ booking'[b].slot \in Nat /\ booking'[c].slot \in Nat
    <3>1. booking'[b] \in BookingRow /\ booking'[c] \in BookingRow
      BY <2>1 DEF NoBooking
    <3>2. QED
      BY <3>1, PauseAssumption DEF BookingRow
  <2>3. CASE booking'[b] = booking[b] /\ booking'[c] = booking[c]
    <3>1. b \in Booked /\ c \in Booked
      BY <2>1, <2>3 DEF Booked
    <3>2. QED
      BY <2>1, <2>3, <3>1 DEF NoDoublePause
  <2>4. CASE booking'[b] # booking[b]
    <3>1. PICK u \in User, s \in Slot :
             /\ booking'[b] = Reserve(u, s)
             /\ \A d \in Booking \ {b} :
                   booking'[d].status = "BOOKED" /\ booking'[d].user = u
                   => ~Overlap(booking'[d].slot, s)
      BY <2>1, <2>4
    <3>2. booking'[b].user = u /\ booking'[b].slot = s
      BY <3>1 DEF Reserve
    <3>3. ~Overlap(booking'[c].slot, booking'[b].slot)
      BY <2>1, <3>1, <3>2
    <3>4. QED
      BY <2>2, <3>3, PauseAssumption DEF Overlap
  <2>5. CASE booking'[c] # booking[c]
    <3>1. PICK u \in User, s \in Slot :
             /\ booking'[c] = Reserve(u, s)
             /\ \A d \in Booking \ {c} :
                   booking'[d].status = "BOOKED" /\ booking'[d].user = u
                   => ~Overlap(booking'[d].slot, s)
      BY <2>1, <2>5
    <3>2. booking'[c].user = u /\ booking'[c].slot = s
      BY <3>1 DEF Reserve
    <3>3. QED
      BY <2>1, <3>1, <3>2
  <2>6. QED
    BY <2>3, <2>4, <2>5
<1>2. LinkedFitsOrFlagged'
  <2>1. SUFFICES ASSUME NEW b \in Booking, booking'[b].status = "BOOKED",
                        booking'[b].shift # Unlinked, ~booking'[b].flagged
                 PROVE  /\ booking'[b].shift \in roster
                        /\ booking'[b].shift \in Covering(booking'[b].user, booking'[b].slot)
    BY DEF LinkedFitsOrFlagged, Booked, Covering
  <2>2. CASE booking'[b] = booking[b]
    BY <2>1, <2>2 DEF LinkedFitsOrFlagged, Booked
  <2>3. CASE \E u \in User, s \in Slot : booking'[b] = Reserve(u, s)
    <3>1. PICK u \in User, s \in Slot : booking'[b] = Reserve(u, s)
      BY <2>3
    <3>2. booking'[b].user = u /\ booking'[b].slot = s
      BY <3>1 DEF Reserve
    <3>3. QED
      BY <2>1, <3>1, <3>2, ReserveRow
  <2>4. QED
    BY <2>1, <2>2, <2>3
<1>3. QED
  BY <1>1, <1>2

-----------------------------------------------------------------------------
(* The steps.                                                                *)

\* The initial state satisfies the invariant.
LEMMA InitIInv == Init => IInv
<1> SUFFICES ASSUME Init PROVE IInv
  OBVIOUS
<1>1. Booked = {} /\ \A x \in Swap : ~Pending(x)
  BY DEF Init, Booked, NoBooking, Pending, NoProposal
<1>2. TypeOK
  BY DEF Init, TypeOK
<1>3. LocksFollowProposals
  BY <1>1, PauseAssumption DEF Init, LocksFollowProposals, PendingOn
<1>4. QED
  BY <1>1, <1>2, <1>3
  DEF IInv, ProposalStands, PartiesDiffer, NoDoublePause, LinkedFitsOrFlagged

\* A change of the schedule moves no booking; it flags what hung on it.
LEMMA ChangeHandsStep ==
    ASSUME IInv, NEW given \in SUBSET Occurrence, NEW taken \in SUBSET Occurrence,
           ChangeHands(given, taken)
    PROVE  IInv'
<1> USE DEF IInv
<1>1. ASSUME NEW b \in Booking
      PROVE  /\ booking'[b] \in BookingRow \cup {NoBooking}
             /\ booking'[b].status = booking[b].status
             /\ booking'[b].status = "BOOKED" =>
                  /\ booking'[b].slot = booking[b].slot
                  /\ booking'[b].user = booking[b].user
                  /\ booking'[b].shift = booking[b].shift
                  /\ ~booking'[b].flagged => ~booking[b].flagged /\ booking[b].shift \notin given
  <2>1. CASE booking[b].status = "BOOKED" /\ booking[b].shift \in given
    <3>1. booking'[b] = [booking[b] EXCEPT !.flagged = TRUE]
      BY <2>1 DEF ChangeHands
    <3>2. booking[b] \in BookingRow
      BY <2>1, BookedRow DEF Booked
    <3>3. QED
      BY <3>1, <3>2 DEF BookingRow
  <2>2. CASE ~(booking[b].status = "BOOKED" /\ booking[b].shift \in given)
    <3>1. booking'[b] = booking[b]
      BY <2>2 DEF ChangeHands
    <3>2. QED
      BY <2>2, <3>1 DEF TypeOK
  <2>3. QED
    BY <2>1, <2>2
<1>2. TypeOK'
  <2>1. booking' \in [Booking -> BookingRow \cup {NoBooking}]
    BY <1>1 DEF ChangeHands
  <2>2. roster' \in SUBSET Occurrence
    BY DEF ChangeHands, TypeOK
  <2>3. QED
    BY <2>1, <2>2 DEF ChangeHands, TypeOK
<1>3. swap' = swap /\ lock' = lock
  BY DEF ChangeHands
<1>4. LocksFollowProposals'
  BY <1>3 DEF LocksFollowProposals, PendingOn, Involves, Pending
<1>5. ProposalStands' /\ PartiesDiffer'
  <2>1. \A x \in Swap : Pending(x)' =>
           /\ Pending(x) /\ swap'[x] = swap[x]
           /\ swap[x].requester \notin {} /\ swap[x].target \notin {}
    BY <1>3 DEF Pending
  <2>2. \A b \in Booking \ {} : booking[b].status = "BOOKED" =>
           /\ booking'[b].status = "BOOKED"
           /\ booking'[b].slot = booking[b].slot
           /\ booking'[b].user = booking[b].user
    BY <1>1
  <2>3. {} \in SUBSET Booking
    OBVIOUS
  <2>4. QED
    BY <2>1, <2>2, <2>3, ProposalsStillStand
<1>6. NoDoublePause'
  BY <1>1 DEF NoDoublePause, Booked
<1>7. LinkedFitsOrFlagged'
  <2>1. SUFFICES ASSUME NEW b \in Booking, booking'[b].status = "BOOKED",
                        booking'[b].shift # Unlinked, ~booking'[b].flagged
                 PROVE  /\ booking'[b].shift \in roster'
                        /\ booking'[b].shift.user = booking'[b].user
                        /\ Fits(booking'[b].slot, booking'[b].shift.window)
    BY DEF LinkedFitsOrFlagged, Booked, Covering
  <2>2. /\ booking[b].shift \in roster \ given
        /\ booking[b].shift \in Covering(booking[b].user, booking[b].slot)
    BY <1>1, <2>1 DEF LinkedFitsOrFlagged, Booked
  <2>3. booking[b].shift \in roster'
    BY <2>2 DEF ChangeHands
  <2>4. QED
    BY <1>1, <2>1, <2>2, <2>3 DEF Covering
<1>8. QED
  BY <1>2, <1>4, <1>5, <1>6, <1>7

\* A new shift takes none away.
LEMMA PublishShiftStep ==
    ASSUME IInv, NEW u \in User, NEW w \in Window, PublishShift(u, w)
    PROVE  IInv'
<1> DEFINE o == [user |-> u, window |-> w]
<1>1. o \in Occurrence
  BY DEF Occurrence
<1>2. roster' = roster \cup {o} /\ UNCHANGED <<now, booking, swap, lock>>
  BY DEF PublishShift
<1>3. TypeOK'
  BY <1>1, <1>2 DEF IInv, TypeOK
<1>4. LinkedFitsOrFlagged'
  BY <1>2 DEF IInv, LinkedFitsOrFlagged, Booked, Covering
<1>5. LocksFollowProposals' /\ ProposalStands' /\ PartiesDiffer' /\ NoDoublePause'
  BY <1>2 DEF IInv, LocksFollowProposals, PendingOn, Involves, Pending, ProposalStands,
              PartiesDiffer, NoDoublePause, Booked
<1>6. QED
  BY <1>3, <1>4, <1>5 DEF IInv

\* Shifts change hands.
LEMMA GiveShiftStep ==
    ASSUME IInv, NEW o \in roster, NEW v \in User, GiveShift(o, v)
    PROVE  IInv'
<1>1. o \in Occurrence
  BY DEF IInv, TypeOK
<1>2. [user |-> v, window |-> o.window] \in Occurrence
  BY <1>1 DEF Occurrence
<1>3. {o} \in SUBSET Occurrence /\ {[user |-> v, window |-> o.window]} \in SUBSET Occurrence
  BY <1>1, <1>2
<1>4. ChangeHands({o}, {[user |-> v, window |-> o.window]})
  BY DEF GiveShift
<1>5. QED
  BY <1>3, <1>4, ChangeHandsStep

\* Two agents exchange their shifts: the pauses of both are checked against the new ones.
LEMMA SwapShiftsStep ==
    ASSUME IInv, NEW o \in roster, NEW p \in roster, SwapShifts(o, p)
    PROVE  IInv'
<1> DEFINE taken == {[user |-> p.user, window |-> o.window], [user |-> o.user, window |-> p.window]}
<1>1. o \in Occurrence /\ p \in Occurrence
  BY DEF IInv, TypeOK
<1>2. /\ [user |-> p.user, window |-> o.window] \in Occurrence
      /\ [user |-> o.user, window |-> p.window] \in Occurrence
  BY <1>1 DEF Occurrence
<1>3. {o, p} \in SUBSET Occurrence /\ taken \in SUBSET Occurrence
  BY <1>1, <1>2
<1>4. ChangeHands({o, p}, taken)
  BY DEF SwapShifts
<1>5. QED
  BY <1>3, <1>4, ChangeHandsStep

\* A booking goes where its agent has no other pause; it was in no proposal, or
\* stays where it is.
LEMMA BookStep ==
    ASSUME IInv, NEW b \in Booking, NEW u \in User, NEW s \in Slot, NEW override \in BOOLEAN,
           Book(b, u, s, override)
    PROVE  IInv'
<1> USE DEF IInv
<1>1. /\ Unoccupied(u, s, {b}) /\ RowFor(b, u, s)
      /\ booking' = [booking EXCEPT ![b] = Reserve(u, s)]
      /\ roster' = roster /\ swap' = swap /\ lock' = lock /\ now' = now
  BY DEF Book
<1>2. /\ booking \in [Booking -> BookingRow \cup {NoBooking}]
      /\ Reserve(u, s) \in BookingRow
  BY ReserveRow DEF TypeOK
<1>3. booking'[b] = Reserve(u, s) /\ \A c \in Booking \ {b} : booking'[c] = booking[c]
  BY <1>1, <1>2
<1>4. TypeOK'
  BY <1>1, <1>2 DEF TypeOK
<1>5. LocksFollowProposals'
  BY <1>1 DEF LocksFollowProposals, PendingOn, Involves, Pending
<1>6. /\ booking'[b].status = "BOOKED" /\ booking'[b].slot = s /\ booking'[b].user = u
  BY <1>3 DEF Reserve
<1>7. ProposalStands' /\ PartiesDiffer'
  <2>1. \A x \in Swap : Pending(x)' =>
           /\ Pending(x) /\ swap'[x] = swap[x]
           /\ swap[x].requester \notin {} /\ swap[x].target \notin {}
    BY <1>1 DEF Pending
  <2>2. \A c \in Booking \ {} : booking[c].status = "BOOKED" =>
           /\ booking'[c].status = "BOOKED"
           /\ booking'[c].slot = booking[c].slot
           /\ booking'[c].user = booking[c].user
    <3>1. booking[b].status = "BOOKED" => booking[b].slot = s /\ booking[b].user = u
      BY <1>1 DEF RowFor, RowsOf, Exists
    <3>2. QED
      BY <1>3, <1>6, <3>1
  <2>3. {} \in SUBSET Booking
    OBVIOUS
  <2>4. QED
    BY <2>1, <2>2, <2>3, ProposalsStillStand
<1>8. NoDoublePause' /\ LinkedFitsOrFlagged'
  <2>1. \A c \in Booking \ {b} :
           booking'[c].status = "BOOKED" /\ booking'[c].user = u => ~Overlap(booking'[c].slot, s)
    BY <1>1, <1>3 DEF Unoccupied, Booked
  <2>2. \A c \in Booking : booking'[c].status = "BOOKED" =>
           \/ booking'[c] = booking[c]
           \/ \E v \in User, t \in Slot :
                 /\ booking'[c] = Reserve(v, t)
                 /\ \A d \in Booking \ {c} :
                       booking'[d].status = "BOOKED" /\ booking'[d].user = v
                       => ~Overlap(booking'[d].slot, t)
    <3>1. SUFFICES ASSUME NEW c \in Booking, booking'[c] # booking[c]
                   PROVE  \E v \in User, t \in Slot :
                            /\ booking'[c] = Reserve(v, t)
                            /\ \A d \in Booking \ {c} :
                                  booking'[d].status = "BOOKED" /\ booking'[d].user = v
                                  => ~Overlap(booking'[d].slot, t)
      OBVIOUS
    <3>2. c = b
      BY <1>3, <3>1
    <3>3. QED
      BY <1>3, <2>1, <3>2
  <2>3. booking' \in [Booking -> BookingRow \cup {NoBooking}]
    BY <1>4 DEF TypeOK
  <2>4. QED
    BY <1>1, <2>2, <2>3, PlacesStayApart
<1>9. QED
  BY <1>4, <1>5, <1>7, <1>8

\* The proposals on a booking are pending.
LEMMA PendingOnFacts ==
    ASSUME TypeOK, NEW b \in Booking
    PROVE  /\ PendingOn({b}) \in SUBSET Swap
           /\ \A x \in PendingOn({b}) : Pending(x)
           /\ \A x \in Swap : Pending(x) /\ x \notin PendingOn({b})
                             => swap[x].requester # b /\ swap[x].target # b
  BY DEF PendingOn, Involves, Pending

\* Cancelling a booking cancels its proposals.
LEMMA CancelStep ==
    ASSUME IInv, NEW b \in Booking, Cancel(b)
    PROVE  IInv'
<1> USE DEF IInv
<1>1. /\ Close(PendingOn({b}), "CANCELLED")
      /\ booking' = [booking EXCEPT ![b].status = "CANCELLED"]
      /\ booking[b].status \in {"BOOKED", "CANCELLED"}
      /\ now' = now /\ roster' = roster
  BY DEF Cancel
<1>2. booking \in [Booking -> BookingRow \cup {NoBooking}]
  BY DEF TypeOK
<1>3. \A c \in Booking \ {b} : booking'[c] = booking[c]
  BY <1>1, <1>2
<1>4. booking'[b] \in BookingRow /\ booking'[b].status = "CANCELLED"
  <2>1. booking[b] \in BookingRow
    BY <1>1, <1>2 DEF NoBooking
  <2>2. booking'[b] = [booking[b] EXCEPT !.status = "CANCELLED"]
    BY <1>1, <1>2
  <2>3. QED
    BY <2>1, <2>2 DEF BookingRow
<1>5. booking' \in [Booking -> BookingRow \cup {NoBooking}]
  <2>1. \A c \in Booking : booking'[c] \in BookingRow \cup {NoBooking}
    BY <1>2, <1>3, <1>4
  <2>2. QED
    BY <1>1, <1>2, <2>1
<1>6. /\ swap' \in [Swap -> SwapRow \cup {NoProposal}]
      /\ lock' \in [Booking -> Swap \cup {NoSwap}]
      /\ LocksFollowProposals'
      /\ \A x \in Swap : Pending(x)' =>
            x \notin PendingOn({b}) /\ Pending(x) /\ swap'[x] = swap[x]
  BY <1>1, PendingOnFacts, CloseKeepsLocks DEF Closed
<1>7. ProposalStands' /\ PartiesDiffer'
  <2>1. \A c \in Booking \ {b} : booking[c].status = "BOOKED" =>
           /\ booking'[c].status = "BOOKED"
           /\ booking'[c].slot = booking[c].slot
           /\ booking'[c].user = booking[c].user
    BY <1>3
  <2>2. \A x \in Swap : Pending(x)' =>
           /\ Pending(x) /\ swap'[x] = swap[x]
           /\ swap[x].requester \notin {b} /\ swap[x].target \notin {b}
    BY <1>6, PendingOnFacts
  <2>3. {b} \in SUBSET Booking
    OBVIOUS
  <2>4. QED
    BY <2>1, <2>2, <2>3, ProposalsStillStand
<1>8. NoDoublePause' /\ LinkedFitsOrFlagged'
  BY <1>1, <1>3, <1>4, <1>5, PlacesStayApart
<1>9. TypeOK'
  BY <1>1, <1>5, <1>6 DEF TypeOK
<1>10. QED
  BY <1>6, <1>7, <1>8, <1>9

\* Moving a booking cancels its proposals, and the new place is free.
LEMMA RescheduleStep ==
    ASSUME IInv, NEW b \in Booking, NEW c \in Booking, NEW s \in Slot, Reschedule(b, c, s)
    PROVE  IInv'
<1> USE DEF IInv
<1> DEFINE u == booking[b].user
<1>1. /\ Close(PendingOn({b}), "CANCELLED")
      /\ booking' = [booking EXCEPT ![c] = Reserve(u, s), ![b] = Moved(b)]
      /\ booking[b].status = "BOOKED" /\ booking[c].status # "BOOKED"
      /\ Unoccupied(u, s, {b})
      /\ now' = now /\ roster' = roster
  BY DEF Reschedule
<1>2. booking \in [Booking -> BookingRow \cup {NoBooking}]
  BY DEF TypeOK
<1>3. b # c /\ u \in User
  BY <1>1, BookedRow DEF Booked
<1>4. /\ booking'[c] = Reserve(u, s)
      /\ booking'[b] = Moved(b)
      /\ \A d \in Booking \ {b, c} : booking'[d] = booking[d]
  BY <1>1, <1>2, <1>3
<1>5. Reserve(u, s) \in BookingRow
  BY <1>3, ReserveRow
<1>6. Moved(b) \in BookingRow /\ Moved(b).status = "RESCHEDULED"
  <2>1. booking[b] \in BookingRow
    BY <1>1, BookedRow DEF Booked
  <2>2. QED
    BY <2>1 DEF Moved, BookingRow
<1>7. booking' \in [Booking -> BookingRow \cup {NoBooking}]
  <2>1. \A d \in Booking : booking'[d] \in BookingRow \cup {NoBooking}
    BY <1>2, <1>4, <1>5, <1>6
  <2>2. QED
    BY <1>1, <1>2, <2>1
<1>8. /\ swap' \in [Swap -> SwapRow \cup {NoProposal}]
      /\ lock' \in [Booking -> Swap \cup {NoSwap}]
      /\ LocksFollowProposals'
      /\ \A x \in Swap : Pending(x)' =>
            x \notin PendingOn({b}) /\ Pending(x) /\ swap'[x] = swap[x]
  BY <1>1, PendingOnFacts, CloseKeepsLocks DEF Closed
<1>9. ProposalStands' /\ PartiesDiffer'
  <2>1. \A d \in Booking \ {b} : booking[d].status = "BOOKED" =>
           /\ booking'[d].status = "BOOKED"
           /\ booking'[d].slot = booking[d].slot
           /\ booking'[d].user = booking[d].user
    BY <1>1, <1>4
  <2>2. \A x \in Swap : Pending(x)' =>
           /\ Pending(x) /\ swap'[x] = swap[x]
           /\ swap[x].requester \notin {b} /\ swap[x].target \notin {b}
    BY <1>8, PendingOnFacts
  <2>3. {b} \in SUBSET Booking
    OBVIOUS
  <2>4. QED
    BY <2>1, <2>2, <2>3, ProposalsStillStand
<1>10. NoDoublePause' /\ LinkedFitsOrFlagged'
  <2>1. \A d \in Booking \ {c} :
           booking'[d].status = "BOOKED" /\ booking'[d].user = u => ~Overlap(booking'[d].slot, s)
    BY <1>1, <1>4, <1>6 DEF Unoccupied, Booked
  <2>2. \A d \in Booking : booking'[d].status = "BOOKED" =>
           \/ booking'[d] = booking[d]
           \/ \E v \in User, t \in Slot :
                 /\ booking'[d] = Reserve(v, t)
                 /\ \A e \in Booking \ {d} :
                       booking'[e].status = "BOOKED" /\ booking'[e].user = v
                       => ~Overlap(booking'[e].slot, t)
    <3>1. SUFFICES ASSUME NEW d \in Booking, booking'[d].status = "BOOKED",
                          booking'[d] # booking[d]
                   PROVE  \E v \in User, t \in Slot :
                            /\ booking'[d] = Reserve(v, t)
                            /\ \A e \in Booking \ {d} :
                                  booking'[e].status = "BOOKED" /\ booking'[e].user = v
                                  => ~Overlap(booking'[e].slot, t)
      OBVIOUS
    <3>2. d = c
      BY <1>4, <1>6, <3>1
    <3>3. QED
      BY <1>3, <1>4, <2>1, <3>2
  <2>3. QED
    BY <1>1, <1>7, <2>2, PlacesStayApart
<1>11. TypeOK'
  BY <1>1, <1>7, <1>8 DEF TypeOK
<1>12. QED
  BY <1>8, <1>9, <1>10, <1>11

\* Closing proposals (declined, cancelled, expired) touches no booking.
LEMMA CloseStep ==
    ASSUME IInv, NEW X \in SUBSET Swap, \A x \in X : Pending(x), NEW s \in Closed,
           Close(X, s),
           UNCHANGED <<now, roster, booking>>
    PROVE  IInv'
<1> USE DEF IInv
<1>1. /\ swap' \in [Swap -> SwapRow \cup {NoProposal}]
      /\ lock' \in [Booking -> Swap \cup {NoSwap}]
      /\ LocksFollowProposals'
      /\ \A y \in Swap : Pending(y)' => Pending(y) /\ swap'[y] = swap[y]
  BY CloseKeepsLocks
<1>2. ProposalStands' /\ PartiesDiffer'
  <2>1. \A b \in Booking \ {} : booking[b].status = "BOOKED" =>
           /\ booking'[b].status = "BOOKED"
           /\ booking'[b].slot = booking[b].slot
           /\ booking'[b].user = booking[b].user
    OBVIOUS
  <2>2. \A y \in Swap : Pending(y)' =>
           /\ Pending(y) /\ swap'[y] = swap[y]
           /\ swap[y].requester \notin {} /\ swap[y].target \notin {}
    BY <1>1
  <2>3. {} \in SUBSET Booking
    OBVIOUS
  <2>4. QED
    BY <2>1, <2>2, <2>3, ProposalsStillStand
<1>3. NoDoublePause' /\ LinkedFitsOrFlagged'
  BY DEF NoDoublePause, LinkedFitsOrFlagged, Booked, Covering
<1>4. TypeOK'
  BY <1>1 DEF TypeOK
<1>5. QED
  BY <1>1, <1>2, <1>3, <1>4

\* Three numbers have an earliest.
LEMMA EarliestOfThree ==
    ASSUME NEW i \in Nat, NEW j \in Nat, NEW k \in Nat
    PROVE  Earliest({i, j, k}) \in {i, j, k}
<1>1. \E t \in {i, j, k} : \A u \in {i, j, k} : t <= u
  <2>1. CASE i <= j /\ i <= k
    BY <2>1
  <2>2. CASE j <= i /\ j <= k
    BY <2>2
  <2>3. CASE k <= i /\ k <= j
    BY <2>3
  <2>4. QED
    BY <2>1, <2>2, <2>3
<1>2. QED
  BY <1>1 DEF Earliest

\* A new proposal takes the locks of two bookings no live proposal is about.
LEMMA RequestSwapStep ==
    ASSUME IInv, NEW x \in Swap, NEW r \in Booking, NEW t \in Booking, RequestSwap(x, r, t)
    PROVE  IInv'
<1> USE DEF IInv
<1> DEFINE stale   == {y \in PendingOn({r, t}) : Expired(y)}
           expires == Earliest({now + SwapLife, booking[r].slot, booking[t].slot})
           fresh   == [status |-> "PENDING", requester |-> r, target |-> t,
                       expires |-> expires,
                       slots |-> <<booking[r].slot, booking[t].slot>>]
<1>1. /\ r \in Booked /\ t \in Booked
      /\ booking[r].user # booking[t].user
      /\ PendingOn({r, t}) \subseteq stale
      /\ ~Pending(x)
      /\ UNCHANGED <<now, roster, booking>>
  BY DEF RequestSwap, Pending
<1>2. fresh \in SwapRow
  <2>1. /\ booking[r].slot \in Slot /\ booking[t].slot \in Slot
        /\ booking[r].slot \in Nat /\ booking[t].slot \in Nat
    BY <1>1, BookedRow
  <2>2. now + SwapLife \in Nat
    BY PauseAssumption DEF TypeOK
  <2>3. expires \in Nat
    BY <2>1, <2>2, EarliestOfThree
  <2>4. QED
    BY <2>1, <2>3 DEF SwapRow
<1>3. stale \in SUBSET Swap /\ x \notin stale /\ \A y \in stale : Pending(y)
  BY <1>1 DEF PendingOn
<1>4. swap'[x] = fresh
  BY DEF RequestSwap
<1>5. \A y \in stale : swap'[y] = [swap[y] EXCEPT !.status = "EXPIRED"]
  BY <1>3 DEF RequestSwap
<1>6. \A y \in Swap : y # x /\ y \notin stale => swap'[y] = swap[y]
  BY DEF RequestSwap
<1>7. \A b \in Booking : lock'[b] = IF b \in {r, t} THEN x
                                   ELSE IF lock[b] \in stale THEN NoSwap ELSE lock[b]
  BY DEF RequestSwap
<1>8. \A y \in stale : swap'[y] \in SwapRow /\ swap'[y].status = "EXPIRED"
  <2>1. SUFFICES ASSUME NEW y \in stale PROVE swap'[y] \in SwapRow /\ swap'[y].status = "EXPIRED"
    OBVIOUS
  <2>2. swap[y] \in SwapRow
    BY <1>3, PendingRow
  <2>3. swap'[y] = [swap[y] EXCEPT !.status = "EXPIRED"]
    BY <1>5
  <2>4. QED
    BY <2>2, <2>3 DEF SwapRow
<1>9. TypeOK'
  <2>1. swap' \in [Swap -> SwapRow \cup {NoProposal}]
    <3>1. \A y \in Swap : swap'[y] \in SwapRow \cup {NoProposal}
      BY <1>2, <1>4, <1>6, <1>8 DEF TypeOK
    <3>2. QED
      BY <3>1 DEF RequestSwap
  <2>2. lock' \in [Booking -> Swap \cup {NoSwap}]
    <3>1. \A b \in Booking : lock'[b] \in Swap \cup {NoSwap}
      BY <1>7 DEF TypeOK
    <3>2. QED
      BY <3>1 DEF RequestSwap
  <2>3. QED
    BY <1>1, <2>1, <2>2 DEF TypeOK
\* What is pending afterwards.
<1>10. \A y \in Swap : Pending(y)' <=> y = x \/ (y \notin stale /\ Pending(y))
  BY <1>3, <1>4, <1>6, <1>8 DEF Pending
<1>11. \A y \in Swap : y # x /\ Pending(y)' =>
          /\ Pending(y) /\ swap'[y] = swap[y] /\ y \notin stale
          /\ {r, t} \cap {swap[y].requester, swap[y].target} = {}
  <2>1. SUFFICES ASSUME NEW y \in Swap, y # x, Pending(y)'
                 PROVE  /\ Pending(y) /\ swap'[y] = swap[y] /\ y \notin stale
                        /\ {r, t} \cap {swap[y].requester, swap[y].target} = {}
    OBVIOUS
  <2>2. Pending(y) /\ y \notin stale
    BY <1>10, <2>1
  <2>3. y \notin PendingOn({r, t})
    BY <1>1, <2>2
  <2>4. QED
    BY <1>6, <2>1, <2>2, <2>3 DEF PendingOn, Involves, Pending
<1>12. LocksFollowProposals'
  <2>1. ASSUME NEW b \in Booking, NEW y \in Swap
        PROVE  lock'[b] = y <=> Pending(y)' /\ b \in {swap'[y].requester, swap'[y].target}
    <3>1. lock[b] = y <=> Pending(y) /\ b \in {swap[y].requester, swap[y].target}
      BY LockNames
    <3>2. y # NoSwap
      BY PauseAssumption
    <3>3. CASE y = x
      <4>1. lock'[b] = x <=> b \in {r, t}
        BY <1>1, <1>7, <3>1, <3>2, <3>3
      <4>2. QED
        BY <1>4, <1>10, <3>3, <4>1
    <3>4. CASE y # x /\ y \in stale
      BY <1>3, <1>7, <1>10, <3>2, <3>4
    <3>5. CASE y # x /\ y \notin stale
      BY <1>6, <1>7, <1>10, <1>11, <3>1, <3>2, <3>5
    <3>6. QED
      BY <3>3, <3>4, <3>5
  <2>2. QED
    BY <2>1 DEF LocksFollowProposals, PendingOn, Involves, Pending
<1>13. ProposalStands' /\ PartiesDiffer'
  <2>1. SUFFICES ASSUME NEW y \in Swap, Pending(y)'
                 PROVE  LET q == swap'[y].requester
                            p == swap'[y].target
                        IN /\ {q, p} \subseteq Booked
                           /\ <<booking[q].slot, booking[p].slot>> = swap'[y].slots
                           /\ booking[q].user # booking[p].user
    BY <1>1 DEF ProposalStands, PartiesDiffer, Booked
  <2>2. CASE y = x
    BY <1>1, <1>4, <2>2
  <2>3. CASE y # x
    <3>1. Pending(y) /\ swap'[y] = swap[y]
      BY <1>11, <2>1, <2>3
    <3>2. QED
      BY <3>1 DEF ProposalStands, PartiesDiffer
  <2>4. QED
    BY <2>2, <2>3
<1>14. NoDoublePause' /\ LinkedFitsOrFlagged'
  BY <1>1 DEF NoDoublePause, LinkedFitsOrFlagged, Booked, Covering
<1>15. QED
  BY <1>9, <1>12, <1>13, <1>14

\* Accepting a proposal exchanges two bookings nothing else is pending on.
LEMMA AcceptStep ==
    ASSUME IInv, NEW x \in Swap, Accept(x)
    PROVE  IInv'
<1> USE DEF IInv
<1> DEFINE r == swap[x].requester
           t == swap[x].target
           u == booking[r].user
           v == booking[t].user
           way == (RowsOf(u, booking[t].slot) \cup RowsOf(v, booking[r].slot)) \ {r, t}
<1>1. /\ Pending(x) /\ r \in Booked /\ t \in Booked
      /\ Unoccupied(u, booking[t].slot, {r}) /\ Unoccupied(v, booking[r].slot, {t})
      /\ \A b \in way : booking[b].status = "CANCELLED"
      /\ Close({x}, "ACCEPTED")
      /\ now' = now /\ roster' = roster
  BY DEF Accept, Decidable
<1>2. /\ r \in Booking /\ t \in Booking /\ u \in User /\ v \in User
      /\ booking[r].slot \in Slot /\ booking[t].slot \in Slot
  BY <1>1, BookedRow
<1>3. u # v /\ r # t
  BY <1>1 DEF PartiesDiffer
<1>4. /\ booking'[r] = Reserve(u, booking[t].slot)
      /\ booking'[t] = Reserve(v, booking[r].slot)
  BY <1>2, <1>3 DEF Accept
<1>5. \A b \in way : booking'[b] = NoBooking
  BY DEF Accept, RowsOf
<1>6. \A b \in Booking \ {r, t} : b \notin way => booking'[b] = booking[b]
  BY DEF Accept
<1>7. /\ Reserve(u, booking[t].slot) \in BookingRow
      /\ Reserve(v, booking[r].slot) \in BookingRow
  BY <1>2, ReserveRow
<1>8. booking' \in [Booking -> BookingRow \cup {NoBooking}]
  <2>1. \A b \in Booking : booking'[b] \in BookingRow \cup {NoBooking}
    BY <1>4, <1>5, <1>6, <1>7 DEF TypeOK
  <2>2. QED
    BY <2>1 DEF Accept
<1>9. /\ swap' \in [Swap -> SwapRow \cup {NoProposal}]
      /\ lock' \in [Booking -> Swap \cup {NoSwap}]
      /\ LocksFollowProposals'
      /\ \A y \in Swap : Pending(y)' => y \notin {x} /\ Pending(y) /\ swap'[y] = swap[y]
  <2>1. {x} \in SUBSET Swap /\ \A y \in {x} : Pending(y)
    BY <1>1
  <2>2. QED
    BY <1>1, <2>1, CloseKeepsLocks DEF Closed
\* A third booking that is booked stays as it is.
<1>10. \A b \in Booking \ {r, t} : booking[b].status = "BOOKED" => booking'[b] = booking[b]
  BY <1>1, <1>6
<1>11. \A b \in Booking \ {r, t} : booking'[b].status = "BOOKED" => booking'[b] = booking[b]
  BY <1>5, <1>6 DEF NoBooking
<1>12. ProposalStands' /\ PartiesDiffer'
  <2>1. \A b \in Booking \ {r, t} : booking[b].status = "BOOKED" =>
           /\ booking'[b].status = "BOOKED"
           /\ booking'[b].slot = booking[b].slot
           /\ booking'[b].user = booking[b].user
    BY <1>10
  <2>2. \A y \in Swap : Pending(y)' =>
           /\ Pending(y) /\ swap'[y] = swap[y]
           /\ swap[y].requester \notin {r, t} /\ swap[y].target \notin {r, t}
    <3>1. SUFFICES ASSUME NEW y \in Swap, Pending(y)'
                   PROVE  /\ Pending(y) /\ swap'[y] = swap[y]
                          /\ swap[y].requester \notin {r, t} /\ swap[y].target \notin {r, t}
      OBVIOUS
    <3>2. y # x /\ Pending(y) /\ swap'[y] = swap[y]
      BY <1>9, <3>1
    \* A lock names one proposal, and those of r and t name x.
    <3>3. lock[r] = x /\ lock[t] = x
      BY <1>1, <1>2, LockNames
    <3>4. swap[y].requester \in Booking /\ swap[y].target \in Booking
      BY <3>2, PendingRow
    <3>5. lock[swap[y].requester] = y /\ lock[swap[y].target] = y
      BY <3>2, <3>4, LockNames
    <3>6. QED
      BY <3>2, <3>3, <3>5
  <2>3. {r, t} \in SUBSET Booking
    BY <1>2
  <2>4. QED
    BY <2>1, <2>2, <2>3, ProposalsStillStand
<1>13. NoDoublePause' /\ LinkedFitsOrFlagged'
  <2>1. booking'[r].user = u /\ booking'[t].user = v
    BY <1>4 DEF Reserve
  <2>2. \A d \in Booking \ {r} :
           booking'[d].status = "BOOKED" /\ booking'[d].user = u
           => ~Overlap(booking'[d].slot, booking[t].slot)
    BY <1>1, <1>3, <1>11, <2>1 DEF Unoccupied, Booked
  <2>3. \A d \in Booking \ {t} :
           booking'[d].status = "BOOKED" /\ booking'[d].user = v
           => ~Overlap(booking'[d].slot, booking[r].slot)
    BY <1>1, <1>3, <1>11, <2>1 DEF Unoccupied, Booked
  <2>4. \A b \in Booking : booking'[b].status = "BOOKED" =>
           \/ booking'[b] = booking[b]
           \/ \E w \in User, s \in Slot :
                 /\ booking'[b] = Reserve(w, s)
                 /\ \A d \in Booking \ {b} :
                       booking'[d].status = "BOOKED" /\ booking'[d].user = w
                       => ~Overlap(booking'[d].slot, s)
    <3>1. SUFFICES ASSUME NEW b \in Booking, booking'[b].status = "BOOKED",
                          booking'[b] # booking[b]
                   PROVE  \E w \in User, s \in Slot :
                            /\ booking'[b] = Reserve(w, s)
                            /\ \A d \in Booking \ {b} :
                                  booking'[d].status = "BOOKED" /\ booking'[d].user = w
                                  => ~Overlap(booking'[d].slot, s)
      OBVIOUS
    <3>2. b = r \/ b = t
      BY <1>11, <3>1
    <3>3. CASE b = r
      BY <1>2, <1>4, <2>2, <3>3
    <3>4. CASE b = t
      BY <1>2, <1>4, <2>3, <3>4
    <3>5. QED
      BY <3>2, <3>3, <3>4
  <2>5. QED
    BY <1>1, <1>8, <2>4, PlacesStayApart
<1>14. TypeOK'
  BY <1>1, <1>8, <1>9 DEF TypeOK
<1>15. QED
  BY <1>9, <1>12, <1>13, <1>14

\* Every step keeps the invariant.
LEMMA NextIInv == IInv /\ [Next]_vars => IInv'
<1> SUFFICES ASSUME IInv, [Next]_vars PROVE IInv'
  OBVIOUS
<1>1. ASSUME NEW x \in Swap, CancelSwap(x) \/ Decline(x) PROVE IInv'
  <2>1. /\ {x} \in SUBSET Swap /\ \A y \in {x} : Pending(y)
        /\ \E s \in Closed : Close({x}, s)
        /\ UNCHANGED <<now, roster, booking>>
    BY <1>1 DEF CancelSwap, Decline, Decidable, Closed
  <2>2. QED
    BY <2>1, CloseStep
<1>2. ASSUME NEW X \in SUBSET Swap, ExpireListed(X) PROVE IInv'
  BY <1>2, CloseStep DEF ExpireListed, Closed
<1>3. ASSUME UNCHANGED <<roster, booking, swap, lock>>, now' \in Nat PROVE IInv'
  BY <1>3 DEF IInv, TypeOK, LocksFollowProposals, PendingOn, Involves, Pending,
              ProposalStands, PartiesDiffer, NoDoublePause, LinkedFitsOrFlagged, Booked, Covering
<1>4. CASE Tick
  BY <1>3, <1>4 DEF Tick, IInv, TypeOK
<1>5. CASE UNCHANGED vars
  BY <1>3, <1>5 DEF vars, IInv, TypeOK
<1>6. QED
  BY <1>1, <1>2, <1>4, <1>5, PublishShiftStep, GiveShiftStep, SwapShiftsStep, BookStep,
     CancelStep, RescheduleStep, RequestSwapStep, AcceptStep DEF Next

-----------------------------------------------------------------------------
\* The invariant holds throughout every behaviour.
THEOREM Invariance == Spec => []IInv
  BY InitIInv, NextIInv, PTL DEF Spec

\* Rows keep their types.
THEOREM TypeCorrect == Spec => []TypeOK
<1>1. IInv => TypeOK
  BY DEF IInv
<1>2. QED
  BY Invariance, <1>1, PTL

\* A booking is locked exactly while one proposal about it is pending.
THEOREM LocksAreExact == Spec => []LocksFollowProposals
<1>1. IInv => LocksFollowProposals
  BY DEF IInv
<1>2. QED
  BY Invariance, <1>1, PTL

\* Whoever accepts a proposal gets the slot he was offered.
THEOREM ProposalsStand == Spec => []ProposalStands
<1>1. IInv => ProposalStands
  BY DEF IInv
<1>2. QED
  BY Invariance, <1>1, PTL

\* Nobody is on two pauses at once.
THEOREM NobodyPausesTwice == Spec => []NoDoublePause
<1>1. IInv => NoDoublePause
  BY DEF IInv
<1>2. QED
  BY Invariance, <1>1, PTL

\* A booking made under a shift is inside it or flagged for rescheduling.
THEOREM NoPauseMovesSilently == Spec => []LinkedFitsOrFlagged
<1>1. IInv => LinkedFitsOrFlagged
  BY DEF IInv
<1>2. QED
  BY Invariance, <1>1, PTL

\* On a day with a schedule, a booking outside its agent's shifts is shown as one
\* to reschedule: what the flag misses, the missing or broken link tells.
THEOREM IncompatiblePausesShow == Spec => []IncompatibleIsShown
<1>1. LinkedFitsOrFlagged => IncompatibleIsShown
  BY DEF LinkedFitsOrFlagged, IncompatibleIsShown, RequiresReschedule
<1>2. QED
  BY NoPauseMovesSilently, <1>1, PTL

\* A proposal keeps what it is about, and its locks, until it is decided.
THEOREM ProposalsHold == Spec => []ProposalsAreSound
  BY LocksAreExact, ProposalsStand, PTL DEF ProposalsAreSound

\* No change of the schedule leaves a pause outside a shift unnoticed.
THEOREM ShiftsShow == Spec => []ShiftChangesShow
  BY NoPauseMovesSilently, IncompatiblePausesShow, PTL DEF ShiftChangesShow

-----------------------------------------------------------------------------
(* Limits.                                                                   *)

\* The bookings of some slots: InSlot and PausedAt are both of this form.
At(Z) == {b \in Booked : booking[b].slot \in Z}

\* The slots that an instant falls into.
SlotsAt(t) == {s \in Slot : s <= t /\ t < s + Duration}

\* A slot's bookings, and those on pause at an instant, as sets of this form.
LEMMA PlacesAreSlots ==
    ASSUME TypeOK, TypeOK'
    PROVE  /\ \A s \in Slot : InSlot(s) = At({s}) /\ InSlot(s)' = At({s})'
           /\ \A t \in Nat : PausedAt(t) = At(SlotsAt(t)) /\ PausedAt(t)' = At(SlotsAt(t))'
<1>1. \A s \in Slot : InSlot(s) = At({s}) /\ InSlot(s)' = At({s})'
  BY DEF InSlot, At
<1>2. \A b \in Booked : booking[b].slot \in Slot
  BY BookedRow
<1>3. \A b \in Booked' : booking'[b].slot \in Slot
  <2>1. SUFFICES ASSUME NEW b \in Booked' PROVE booking'[b].slot \in Slot
    OBVIOUS
  <2>2. booking'[b] \in BookingRow
    BY <2>1 DEF Booked, TypeOK, NoBooking
  <2>3. QED
    BY <2>2 DEF BookingRow
<1>4. \A t \in Nat : PausedAt(t) = At(SlotsAt(t)) /\ PausedAt(t)' = At(SlotsAt(t))'
  BY <1>2, <1>3 DEF PausedAt, At, SlotsAt
<1>5. QED
  BY <1>1, <1>4

\* Bookings can be counted.
LEMMA PlacesFinite ==
    ASSUME NEW Z
    PROVE  /\ IsFiniteSet(At(Z)) /\ Cardinality(At(Z)) \in Nat
           /\ IsFiniteSet(At(Z)') /\ Cardinality(At(Z)') \in Nat
<1>1. At(Z) \subseteq Booking /\ At(Z)' \subseteq Booking
  BY DEF At, Booked
<1>2. IsFiniteSet(Booking)
  BY PauseAssumption DEF PauseAssumption
<1>3. IsFiniteSet(At(Z)) /\ IsFiniteSet(At(Z)')
  BY <1>1, <1>2, FS_Subset
<1>4. QED
  BY <1>3, FS_CardinalityType

\* A booking that was booked before, and where it was.
Stays(b) == /\ booking[b].status = "BOOKED"
            /\ booking'[b].slot = booking[b].slot
            /\ booking'[b].user = booking[b].user

\* Where nothing is booked or moved, no place has more bookings.
LEMMA NothingEnters ==
    ASSUME \A b \in Booking : booking'[b].status = "BOOKED" => Stays(b), NEW Z
    PROVE  Cardinality(At(Z)') <= Cardinality(At(Z))
<1>1. At(Z)' \subseteq At(Z)
  BY DEF At, Booked, Stays
<1>2. QED
  BY <1>1, PlacesFinite, FS_Subset

\* One new reservation adds one booking to its place, and to no other.
LEMMA OneEnters ==
    ASSUME NEW c \in Booking, NEW s, booking'[c].slot = s,
           \A b \in Booking \ {c} : booking'[b].status = "BOOKED" => Stays(b), NEW Z
    PROVE  /\ Cardinality(At(Z)') <= Cardinality(At(Z)) + 1
           /\ s \notin Z => Cardinality(At(Z)') <= Cardinality(At(Z))
<1>1. At(Z)' \subseteq At(Z) \cup {c} /\ (s \notin Z => At(Z)' \subseteq At(Z))
  BY DEF At, Booked, Stays
<1>2. IsFiniteSet(At(Z) \cup {c}) /\ Cardinality(At(Z) \cup {c}) <= Cardinality(At(Z)) + 1
  BY PlacesFinite, FS_AddElement
<1>3. Cardinality(At(Z)') <= Cardinality(At(Z) \cup {c})
  BY <1>1, <1>2, FS_Subset
<1>4. s \notin Z => Cardinality(At(Z)') <= Cardinality(At(Z))
  BY <1>1, PlacesFinite, FS_Subset
<1>5. Cardinality(At(Z) \cup {c}) \in Nat
  BY <1>2, FS_CardinalityType
<1>6. QED
  BY <1>2, <1>3, <1>4, <1>5, PlacesFinite

\* Two bookings that exchange their slots leave every place as full as it was.
LEMMA TwoChangePlaces ==
    ASSUME NEW r \in Booked, NEW t \in Booked,
           booking'[r].slot = booking[t].slot, booking'[t].slot = booking[r].slot,
           \A b \in Booking \ {r, t} : booking'[b].status = "BOOKED" => Stays(b), NEW Z
    PROVE  Cardinality(At(Z)') <= Cardinality(At(Z))
<1> DEFINE f == [b \in At(Z)' |-> IF b = r THEN t ELSE IF b = t THEN r ELSE b]
<1>1. \A b \in At(Z)' : f[b] \in At(Z)
  BY DEF At, Booked, Stays
<1>2. \A b, c \in At(Z)' : f[b] = f[c] => b = c
  OBVIOUS
<1>3. f \in Injection(At(Z)', At(Z))
  BY <1>1, <1>2 DEF Injection, IsInjective
<1>4. QED
  BY <1>3, PlacesFinite, FS_Injection

-----------------------------------------------------------------------------
\* The agents of a slot are there at each of its instants.
LEMMA AgentsStay ==
    ASSUME TypeOK, NEW s \in Slot, NEW t \in Nat, s <= t, t < s + Duration
    PROVE  /\ IsFiniteSet(AgentsAt(t)) /\ Cardinality(AgentsAt(t)) \in Nat
           /\ Cardinality(Agents(s)) \in Nat
           /\ Cardinality(Agents(s)) <= Cardinality(AgentsAt(t))
<1>1. IsFiniteSet(User)
  BY PauseAssumption DEF PauseAssumption
<1>2. AgentsAt(t) \subseteq User
  BY DEF AgentsAt, TypeOK, Occurrence
<1>3. Agents(s) \subseteq AgentsAt(t)
  <2>1. CASE ~ScheduleMode
    BY <2>1 DEF Agents, AgentsAt
  <2>2. CASE ScheduleMode
    <3>1. SUFFICES ASSUME NEW u \in Scheduled(s)
                   PROVE  \E o \in roster : o.user = u /\ o.window.from <= t /\ t < o.window.to
      BY <2>2 DEF Agents, AgentsAt
    <3>2. PICK o \in roster : o.user = u /\ Fits(s, o.window)
      BY DEF Scheduled, Covering
    <3>3. o.window.from \in Nat /\ o.window.to \in Nat
      BY <3>2, PauseAssumption DEF TypeOK, Occurrence, PauseAssumption
    <3>4. o.window.from <= t /\ t < o.window.to
      BY <3>2, <3>3, PauseAssumption DEF Fits, PauseAssumption
    <3>5. QED
      BY <3>2, <3>4
  <2>3. QED
    BY <2>1, <2>2
<1>4. IsFiniteSet(AgentsAt(t)) /\ IsFiniteSet(Agents(s))
  BY <1>1, <1>2, <1>3, FS_Subset
<1>5. QED
  BY <1>3, <1>4, FS_Subset, FS_CardinalityType

\* A reservation that leaves the coverage of its slot leaves that of its every
\* instant: nobody is on two pauses, so the bookings of an instant are as many as
\* the agents that the check of the slot counted.
LEMMA CoveredThroughout ==
    ASSUME TypeOK, TypeOK', NoDoublePause',
           NEW c \in Booking, NEW u \in User, NEW s \in Slot, NEW E \in SUBSET Booking,
           booking'[c].slot = s, booking'[c].user = u,
           \A b \in Booking \ {c} : booking'[b].status = "BOOKED" => b \notin E /\ Stays(b),
           Covered(u, s, E),
           NEW t \in Nat, s <= t, t < s + Duration
    PROVE  Cardinality(AgentsAt(t)) >= MinCoverage + Cardinality(PausedAt(t)')
<1> DEFINE P == PausedAt(t)'
           Q == Paused(s, E) \cup {u}
           f == [b \in P |-> booking'[b].user]
<1>1. \A b \in P : /\ b \in Booking /\ booking'[b].status = "BOOKED"
                   /\ booking'[b].slot <= t /\ t < booking'[b].slot + Duration
                   /\ booking'[b].slot \in Nat
  <2>1. SUFFICES ASSUME NEW b \in P
                 PROVE  /\ b \in Booking /\ booking'[b].status = "BOOKED"
                        /\ booking'[b].slot <= t /\ t < booking'[b].slot + Duration
                        /\ booking'[b].slot \in Nat
    OBVIOUS
  <2>2. /\ b \in Booking /\ booking'[b].status = "BOOKED"
        /\ booking'[b].slot <= t /\ t < booking'[b].slot + Duration
    BY DEF PausedAt, Booked
  <2>3. booking'[b] \in BookingRow
    BY <2>2 DEF TypeOK, NoBooking
  <2>4. QED
    BY <2>2, <2>3, PauseAssumption DEF BookingRow, PauseAssumption
<1>2. s \in Nat /\ Duration \in Nat
  BY PauseAssumption DEF PauseAssumption
<1>3. \A b \in P : booking'[b].user \in Q
  <2>1. SUFFICES ASSUME NEW b \in P, b # c PROVE booking'[b].user \in Paused(s, E)
    OBVIOUS
  <2>2. b \in Booked \ E /\ booking[b].user = booking'[b].user
        /\ booking[b].slot = booking'[b].slot
    BY <1>1, <2>1 DEF Stays, Booked
  <2>3. Overlap(booking'[b].slot, s)
    BY <1>1, <1>2 DEF Overlap
  <2>4. QED
    BY <2>2, <2>3 DEF Paused
<1>4. \A b, d \in P : booking'[b].user = booking'[d].user => b = d
  <2>1. SUFFICES ASSUME NEW b \in P, NEW d \in P, booking'[b].user = booking'[d].user, b # d
                 PROVE  FALSE
    OBVIOUS
  <2>2. ~Overlap(booking'[b].slot, booking'[d].slot)
    BY <1>1, <2>1 DEF NoDoublePause, Booked
  <2>3. Overlap(booking'[b].slot, booking'[d].slot)
    BY <1>1, <1>2 DEF Overlap
  <2>4. QED
    BY <2>2, <2>3
<1>5. f \in Injection(P, Q)
  BY <1>3, <1>4 DEF Injection, IsInjective
<1>6. IsFiniteSet(Q)
  <2>1. IsFiniteSet(User)
    BY PauseAssumption DEF PauseAssumption
  <2>2. \A b \in Booked : booking[b].user \in User
    BY BookedRow
  <2>3. Q \subseteq User
    BY <2>2 DEF Paused
  <2>4. QED
    BY <2>1, <2>3, FS_Subset
<1>7. Cardinality(P) <= Cardinality(Q) /\ Cardinality(P) \in Nat /\ Cardinality(Q) \in Nat
  BY <1>5, <1>6, FS_Injection, FS_CardinalityType
<1>8. Cardinality(Agents(s)) >= MinCoverage + Cardinality(Q)
  BY DEF Covered
<1>9. MinCoverage \in Nat
  BY PauseAssumption DEF PauseAssumption
<1> HIDE DEF P, Q, f
<1>10. Cardinality(AgentsAt(t)) >= MinCoverage + Cardinality(P)
  BY <1>7, <1>8, <1>9, AgentsStay
<1>11. QED
  BY <1>10 DEF P

-----------------------------------------------------------------------------
\* What a step without an override leaves of the limits: a slot has no more
\* bookings or not too many, an instant no more pauses or agents enough.
WithinLimits ==
    /\ \A s \in Slot : \/ Cardinality(InSlot(s)') <= Cardinality(InSlot(s))
                       \/ Cardinality(InSlot(s)') <= Capacity
    /\ \A t \in Horizon : \/ Cardinality(PausedAt(t)') <= Cardinality(PausedAt(t))
                          \/ Cardinality(AgentsAt(t)) >= MinCoverage + Cardinality(PausedAt(t)')

\* The instants of the horizon are numbers.
LEMMA HorizonInNat == Horizon \subseteq Nat
<1>1. \A s \in Slot : s \in Nat /\ Duration \in Nat
  BY PauseAssumption DEF PauseAssumption
<1>2. \A s \in Slot : s..(s + Duration - 1) \subseteq Nat
  BY <1>1
<1>3. QED
  BY <1>2 DEF Horizon

\* A step that fills no place keeps the limits.
LEMMA NothingFills ==
    ASSUME TypeOK, TypeOK', \A Z : Cardinality(At(Z)') <= Cardinality(At(Z))
    PROVE  WithinLimits
<1>1. \A s \in Slot : Cardinality(InSlot(s)') <= Cardinality(InSlot(s))
  <2>1. SUFFICES ASSUME NEW s \in Slot PROVE Cardinality(InSlot(s)') <= Cardinality(InSlot(s))
    OBVIOUS
  <2>2. InSlot(s) = At({s}) /\ InSlot(s)' = At({s})'
    BY PlacesAreSlots
  <2>3. QED
    BY <2>2
<1>2. \A t \in Horizon : Cardinality(PausedAt(t)') <= Cardinality(PausedAt(t))
  <2>1. SUFFICES ASSUME NEW t \in Horizon
                 PROVE  Cardinality(PausedAt(t)') <= Cardinality(PausedAt(t))
    OBVIOUS
  <2>2. PausedAt(t) = At(SlotsAt(t)) /\ PausedAt(t)' = At(SlotsAt(t))'
    BY HorizonInNat, PlacesAreSlots
  <2>3. Cardinality(At(SlotsAt(t))') <= Cardinality(At(SlotsAt(t)))
    OBVIOUS
  <2>4. QED
    BY <2>2, <2>3
<1>3. QED
  BY <1>1, <1>2 DEF WithinLimits

\* A reservation that found room in its slot and agents enough keeps the limits.
LEMMA ReservationFits ==
    ASSUME TypeOK, TypeOK', NoDoublePause',
           NEW c \in Booking, NEW u \in User, NEW s \in Slot, NEW E \in SUBSET Booking,
           booking'[c].slot = s, booking'[c].user = u,
           \A b \in Booking \ {c} : booking'[b].status = "BOOKED" => b \notin E /\ Stays(b),
           Covered(u, s, E), ~Full(s)
    PROVE  WithinLimits
<1>1. \A b \in Booking \ {c} : booking'[b].status = "BOOKED" => Stays(b)
  OBVIOUS
<1>2. ASSUME NEW q \in Slot
      PROVE  \/ Cardinality(InSlot(q)') <= Cardinality(InSlot(q))
             \/ Cardinality(InSlot(q)') <= Capacity
  <2>1. InSlot(q) = At({q}) /\ InSlot(q)' = At({q})'
    BY PlacesAreSlots
  <2>2. CASE q # s
    <3>1. Cardinality(At({q})') <= Cardinality(At({q}))
      BY <1>1, <2>2, OneEnters
    <3>2. QED
      BY <2>1, <3>1
  <2>3. CASE q = s
    <3>1. Cardinality(At({q})') <= Cardinality(At({q})) + 1
      BY <1>1, OneEnters
    <3>2. Cardinality(At({q})) \in Nat /\ Cardinality(At({q})') \in Nat /\ Capacity \in Nat
      BY PlacesFinite, PauseAssumption DEF PauseAssumption
    <3>3. ~(Cardinality(At({q})) >= Capacity)
      BY <2>1, <2>3 DEF Full
    <3>4. Cardinality(At({q})') <= Capacity
      BY <3>1, <3>2, <3>3
    <3>5. QED
      BY <2>1, <3>4
  <2>4. QED
    BY <2>2, <2>3
<1>3. ASSUME NEW t \in Horizon
      PROVE  \/ Cardinality(PausedAt(t)') <= Cardinality(PausedAt(t))
             \/ Cardinality(AgentsAt(t)) >= MinCoverage + Cardinality(PausedAt(t)')
  <2>1. t \in Nat
    BY HorizonInNat
  <2>2. CASE s <= t /\ t < s + Duration
    BY <2>1, <2>2, CoveredThroughout
  <2>3. CASE s \notin SlotsAt(t)
    <3>1. Cardinality(At(SlotsAt(t))') <= Cardinality(At(SlotsAt(t)))
      BY <1>1, <2>3, OneEnters
    <3>2. PausedAt(t) = At(SlotsAt(t)) /\ PausedAt(t)' = At(SlotsAt(t))'
      BY <2>1, PlacesAreSlots
    <3>3. QED
      BY <3>1, <3>2
  <2>4. QED
    BY <2>2, <2>3 DEF SlotsAt
<1>4. QED
  BY <1>2, <1>3 DEF WithinLimits

\* An accepted proposal exchanges the slots of two bookings.
LEMMA AcceptFits ==
    ASSUME IInv, IInv', NEW x \in Swap, Accept(x)
    PROVE  WithinLimits
<1> DEFINE r == swap[x].requester
           t == swap[x].target
           u == booking[r].user
           v == booking[t].user
           way == (RowsOf(u, booking[t].slot) \cup RowsOf(v, booking[r].slot)) \ {r, t}
<1>1. r \in Booked /\ t \in Booked /\ Pending(x)
  BY DEF Accept, Decidable
<1>2. r # t /\ r \in Booking /\ t \in Booking
  BY <1>1 DEF IInv, PartiesDiffer, Booked
<1>3. /\ booking'[r] = Reserve(u, booking[t].slot)
      /\ booking'[t] = Reserve(v, booking[r].slot)
  BY <1>2 DEF Accept
<1>4. booking'[r].slot = booking[t].slot /\ booking'[t].slot = booking[r].slot
  BY <1>3 DEF Reserve
<1>5. \A b \in way : booking'[b] = NoBooking
  BY DEF Accept, RowsOf
<1>6. \A b \in Booking \ {r, t} : b \notin way => booking'[b] = booking[b]
  BY DEF Accept
<1>7. \A b \in Booking \ {r, t} : booking'[b].status = "BOOKED" => Stays(b)
  BY <1>5, <1>6 DEF NoBooking, Stays
<1>8. PICK p \in Booked, q \in Booked :
         /\ booking'[p].slot = booking[q].slot /\ booking'[q].slot = booking[p].slot
         /\ \A b \in Booking \ {p, q} : booking'[b].status = "BOOKED" => Stays(b)
  BY <1>1, <1>4, <1>7
<1>9. \A Z : Cardinality(At(Z)') <= Cardinality(At(Z))
  BY <1>8, TwoChangePlaces
<1>10. QED
  BY <1>9, NothingFills DEF IInv

\* Booking within the limits, or with an override.
LEMMA BookFits ==
    ASSUME IInv, IInv', NEW b \in Booking, NEW u \in User, NEW s \in Slot,
           NEW override \in BOOLEAN, Book(b, u, s, override)
    PROVE  WithinLimits \/ Overrides
<1>1. CASE override = TRUE
  BY <1>1 DEF Overrides
<1>2. CASE override = FALSE
  <2>1. ~Full(s) /\ Covered(u, s, {})
    BY <1>2 DEF Book
  <2>2. booking' = [booking EXCEPT ![b] = Reserve(u, s)]
    BY DEF Book
  <2>3. booking'[b].slot = s /\ booking'[b].user = u
    BY <2>2 DEF IInv, TypeOK, Reserve
  <2>4. \A c \in Booking \ {b} : booking'[c].status = "BOOKED" => c \notin {} /\ Stays(c)
    BY <2>2 DEF IInv, TypeOK, Stays
  <2>5. TypeOK /\ TypeOK' /\ NoDoublePause' /\ {} \in SUBSET Booking
    BY DEF IInv
  <2>6. WithinLimits
    BY <2>1, <2>3, <2>4, <2>5, ReservationFits
  <2>7. QED
    BY <2>6
<1>3. QED
  BY <1>1, <1>2

\* A booking is moved within the limits only.
LEMMA RescheduleFits ==
    ASSUME IInv, IInv', NEW b \in Booking, NEW c \in Booking, NEW s \in Slot,
           Reschedule(b, c, s)
    PROVE  WithinLimits
<1>1. /\ booking' = [booking EXCEPT ![c] = Reserve(booking[b].user, s), ![b] = Moved(b)]
      /\ booking[b].status = "BOOKED" /\ booking[c].status # "BOOKED"
      /\ ~Full(s) /\ Covered(booking[b].user, s, {b})
  BY DEF Reschedule
<1>2. b # c /\ b \in Booked /\ TypeOK
  BY <1>1 DEF Booked, IInv
<1>3. /\ booking'[c] = Reserve(booking[b].user, s)
      /\ booking'[b] = Moved(b)
      /\ \A d \in Booking \ {b, c} : booking'[d] = booking[d]
  BY <1>1, <1>2 DEF TypeOK
<1>4. PICK u \in User : u = booking[b].user
  BY <1>2, BookedRow
<1>5. booking'[c].slot = s /\ booking'[c].user = u
  BY <1>3, <1>4 DEF Reserve
<1>6. \A d \in Booking \ {c} : booking'[d].status = "BOOKED" => d \notin {b} /\ Stays(d)
  BY <1>3 DEF Moved, Stays
<1>7. TypeOK' /\ NoDoublePause' /\ {b} \in SUBSET Booking /\ Covered(u, s, {b}) /\ ~Full(s)
  BY <1>1, <1>4 DEF IInv
<1>8. QED
  BY <1>2, <1>5, <1>6, <1>7, ReservationFits

\* Every other step books nothing and moves nothing.
LEMMA OthersFit ==
    ASSUME IInv, IInv', \A b \in Booking : booking'[b].status = "BOOKED" => Stays(b)
    PROVE  WithinLimits
<1>1. \A Z : Cardinality(At(Z)') <= Cardinality(At(Z))
  BY NothingEnters
<1>2. QED
  BY <1>1, NothingFills DEF IInv

\* Every step without an override keeps the limits.
LEMMA NextFits == IInv /\ IInv' /\ [Next]_vars => WithinLimits \/ Overrides
<1> SUFFICES ASSUME IInv, IInv', [Next]_vars PROVE WithinLimits \/ Overrides
  OBVIOUS
<1>1. ASSUME UNCHANGED booking PROVE WithinLimits
  <2>1. \A b \in Booking : booking'[b].status = "BOOKED" => Stays(b)
    BY <1>1 DEF Stays
  <2>2. QED
    BY <2>1, OthersFit
<1>2. ASSUME NEW given, NEW taken, ChangeHands(given, taken) PROVE WithinLimits
  <2>1. \A b \in Booking : booking'[b].status = "BOOKED" => Stays(b)
    <3>1. SUFFICES ASSUME NEW b \in Booking, booking'[b].status = "BOOKED" PROVE Stays(b)
      OBVIOUS
    <3>2. CASE booking'[b] = booking[b]
      BY <3>1, <3>2 DEF Stays
    <3>3. CASE booking[b].status = "BOOKED" /\ booking'[b] = [booking[b] EXCEPT !.flagged = TRUE]
      <4>1. booking[b] \in BookingRow
        BY <3>3, BookedRow DEF IInv, Booked
      <4>2. QED
        BY <3>3, <4>1 DEF BookingRow, Stays
    <3>4. QED
      BY <1>2, <3>2, <3>3 DEF ChangeHands
  <2>2. QED
    BY <2>1, OthersFit
<1>3. ASSUME NEW o \in roster, NEW v \in User, GiveShift(o, v) PROVE WithinLimits
  BY <1>2, <1>3 DEF GiveShift
<1>4. ASSUME NEW o \in roster, NEW p \in roster, SwapShifts(o, p) PROVE WithinLimits
  BY <1>2, <1>4 DEF SwapShifts
<1>5. ASSUME NEW b \in Booking, Cancel(b) PROVE WithinLimits
  <2>1. \A c \in Booking : booking'[c].status = "BOOKED" => Stays(c)
    <3>1. SUFFICES ASSUME NEW c \in Booking, booking'[c].status = "BOOKED" PROVE Stays(c)
      OBVIOUS
    <3>2. booking[b] \in BookingRow
      BY <1>5 DEF Cancel, IInv, TypeOK, NoBooking
    <3>3. c # b
      BY <1>5, <3>1, <3>2 DEF Cancel, IInv, TypeOK, BookingRow
    <3>4. booking'[c] = booking[c]
      BY <1>5, <3>3 DEF Cancel, IInv, TypeOK
    <3>5. QED
      BY <3>1, <3>4 DEF Stays
  <2>2. QED
    BY <2>1, OthersFit
<1>6. ASSUME NEW u \in User, NEW w \in Window, PublishShift(u, w) PROVE WithinLimits
  BY <1>1, <1>6 DEF PublishShift
<1>7. ASSUME NEW x \in Swap, CancelSwap(x) \/ Decline(x) PROVE WithinLimits
  BY <1>1, <1>7 DEF CancelSwap, Decline
<1>8. ASSUME NEW x \in Swap, NEW r \in Booking, NEW t \in Booking, RequestSwap(x, r, t)
      PROVE  WithinLimits
  BY <1>1, <1>8 DEF RequestSwap
<1>9. ASSUME NEW X \in SUBSET Swap, ExpireListed(X) PROVE WithinLimits
  BY <1>1, <1>9 DEF ExpireListed
<1>10. Tick \/ UNCHANGED vars => WithinLimits
  BY <1>1 DEF Tick, vars
<1>11. QED
  BY <1>3, <1>4, <1>5, <1>6, <1>7, <1>8, <1>9, <1>10, BookFits, RescheduleFits, AcceptFits
  DEF Next

\* Moves and swaps never fill a slot beyond its capacity nor thin the coverage of
\* an instant, however slots overlap: for any agents, slots and limits.
THEOREM OnlyOverridesExceed == Spec => LimitsGiveWayToOverrides
<1>1. IInv /\ IInv' /\ [Next]_vars =>
         [\A s \in Slot :
            Cardinality(InSlot(s)') > Cardinality(InSlot(s)) /\ Cardinality(InSlot(s)') > Capacity
            => Overrides]_vars
  <2>1. SUFFICES ASSUME IInv, IInv', [Next]_vars, NEW s \in Slot, ~Overrides
                 PROVE  ~(/\ Cardinality(InSlot(s)') > Cardinality(InSlot(s))
                          /\ Cardinality(InSlot(s)') > Capacity)
    OBVIOUS
  <2>2. \/ Cardinality(InSlot(s)') <= Cardinality(InSlot(s))
        \/ Cardinality(InSlot(s)') <= Capacity
    BY <2>1, NextFits DEF WithinLimits
  <2>3. Cardinality(InSlot(s)) \in Nat /\ Cardinality(InSlot(s)') \in Nat /\ Capacity \in Nat
    BY <2>1, PlacesAreSlots, PlacesFinite, PauseAssumption DEF IInv, PauseAssumption
  <2>4. QED
    BY <2>2, <2>3
<1>2. IInv /\ IInv' /\ [Next]_vars =>
         [roster' = roster => \A t \in Horizon :
            /\ Cardinality(PausedAt(t)') > Cardinality(PausedAt(t))
            /\ Cardinality(AgentsAt(t)) < MinCoverage + Cardinality(PausedAt(t)')
            => Overrides]_vars
  <2>1. SUFFICES ASSUME IInv, IInv', [Next]_vars, NEW t \in Horizon, ~Overrides
                 PROVE  ~(/\ Cardinality(PausedAt(t)') > Cardinality(PausedAt(t))
                          /\ Cardinality(AgentsAt(t)) < MinCoverage + Cardinality(PausedAt(t)'))
    OBVIOUS
  <2>2. \/ Cardinality(PausedAt(t)') <= Cardinality(PausedAt(t))
        \/ Cardinality(AgentsAt(t)) >= MinCoverage + Cardinality(PausedAt(t)')
    BY <2>1, NextFits DEF WithinLimits
  <2>3. /\ Cardinality(PausedAt(t)) \in Nat /\ Cardinality(PausedAt(t)') \in Nat
        /\ MinCoverage \in Nat
    BY <2>1, HorizonInNat, PlacesAreSlots, PlacesFinite, PauseAssumption
    DEF IInv, PauseAssumption
  <2>4. Cardinality(AgentsAt(t)) \in Nat
    <3>1. PICK s \in Slot : t \in s..(s + Duration - 1)
      BY DEF Horizon
    <3>2. s \in Nat /\ Duration \in Nat
      BY PauseAssumption DEF PauseAssumption
    <3>3. t \in Nat /\ s <= t /\ t < s + Duration
      BY <3>1, <3>2
    <3>4. QED
      BY <2>1, <3>3, AgentsStay DEF IInv
  <2>5. QED
    BY <2>2, <2>3, <2>4
<1>3. QED
  BY Invariance, <1>1, <1>2, PTL
  DEF Spec, LimitsGiveWayToOverrides, OverfullOnlyByOverride, ThinOnlyByOverride
=============================================================================
