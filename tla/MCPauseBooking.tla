---------------------------- MODULE MCPauseBooking ----------------------------
(* PauseBooking for TLC: a shift around the first pause and a longer one.    *)
EXTENDS PauseBooking, TLC

Shifts == {[from |-> 1, to |-> 3], [from |-> 1, to |-> 5]}

Interchangeable == Permutations(Booking) \cup Permutations(Swap) \cup Permutations(User)
=============================================================================
