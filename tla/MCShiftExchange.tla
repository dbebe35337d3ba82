---------------------------- MODULE MCShiftExchange ----------------------------
(* ShiftExchange for TLC: with a day of one hour and a rest of one hour, an   *)
(* evening shift goes neither with the early one (too long a day) nor with    *)
(* tomorrow's (too little rest), and those two go together.                   *)
EXTENDS ShiftExchange, TLC

CONSTANTS a1, a2, a3, p1, p2

Early    == [day |-> 1, from |-> 2, to |-> 3]
Evening  == [day |-> 1, from |-> 4, to |-> 5]
Tomorrow == [day |-> 2, from |-> 5, to |-> 6]

Intervals == {Early, Evening, Tomorrow}
Owners    == p1 :> a1 @@ p2 :> a2
Times     == p1 :> Early @@ p2 :> Tomorrow

Interchangeable == Permutations(Offer)
=============================================================================
