------------------------------- MODULE MCContent -------------------------------
(***************************************************************************)
(* What attendants see and follow, for TLC: a recurring announcement, a    *)
(* service flow edited and published, the sessions of a published flow,    *)
(* and the library of scripts.  The components share no state, so one of   *)
(* them moves in each behaviour; they share model values, so that one      *)
(* small set of permutations serves them all.                              *)
(***************************************************************************)
EXTENDS MCAnnouncementSeries, FlowPublishing, MCFlowSession, ScriptLibrary, TLC

VARIABLE part       \* the component that moves

\* Editors, tabs and curators; graphs, restarted sessions and titles.
Interchangeable == Permutations(Editor) \cup Permutations(Graph)

ContentInit ==
    /\ part \in {"series", "publishing", "session", "library"}
    /\ Init /\ FlowInit /\ SessionInit /\ LibraryInit

ContentNext ==
    /\ \/ /\ part = "series" /\ Next
          /\ UNCHANGED <<flowVars, sessionVars, libraryVars>>
       \/ /\ part = "publishing" /\ FlowNext
          /\ UNCHANGED <<vars, sessionVars, libraryVars>>
       \/ /\ part = "session" /\ SessionNext
          /\ UNCHANGED <<vars, flowVars, libraryVars>>
       \/ /\ part = "library" /\ LibraryNext
          /\ UNCHANGED <<vars, flowVars, sessionVars>>
    /\ UNCHANGED part

ContentSpec == ContentInit /\ [][ContentNext]_<<part, vars, flowVars, sessionVars, libraryVars>>
=============================================================================
