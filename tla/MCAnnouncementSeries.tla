-------------------------- MODULE MCAnnouncementSeries --------------------------
(* AnnouncementSeries for TLC: one rule, and the hour of its date.            *)
EXTENDS AnnouncementSeries

OneDay  == {[from |-> 1, to |-> 9, days |-> {1}, hour |-> 0]}
=============================================================================
