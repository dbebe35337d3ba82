-------------------------- MODULE DeliveryContract --------------------------
(***************************************************************************)
(* What the notification outbox promises of one licence notification,      *)
(* without workers, leases, messages or webhooks: a notification is tried  *)
(* at most MaxAttempts times, may be given up, and once the recipient is   *)
(* known to have it, it is never tried again.                              *)
(***************************************************************************)
EXTENDS Naturals

CONSTANTS Job, MaxAttempts

VARIABLES
    tries,      \* attempts begun, per notification
    confirmed   \* is the recipient known to have it?

contract == <<tries, confirmed>>

Init ==
    /\ tries = [j \in Job |-> 0]
    /\ confirmed = [j \in Job |-> FALSE]

Try(j) ==
    /\ ~confirmed[j]
    /\ tries[j] < MaxAttempts
    /\ tries' = [tries EXCEPT ![j] = @ + 1]
    /\ UNCHANGED confirmed

GiveUp(j) ==
    /\ ~confirmed[j]
    /\ tries[j] > 0
    /\ tries' = [tries EXCEPT ![j] = MaxAttempts]
    /\ UNCHANGED confirmed

\* Only a notification that was tried can be confirmed.
Confirm(j) ==
    /\ ~confirmed[j]
    /\ tries[j] > 0
    /\ confirmed' = [confirmed EXCEPT ![j] = TRUE]
    /\ UNCHANGED tries

Next == \E j \in Job : Try(j) \/ GiveUp(j) \/ Confirm(j)

Spec == Init /\ [][Next]_contract
=============================================================================
