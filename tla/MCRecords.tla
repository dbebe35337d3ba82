------------------------------- MODULE MCRecords -------------------------------
(***************************************************************************)
(* Records that several requests write at once, for TLC: a licence with    *)
(* its documents, the sales documents, and the receipts of an              *)
(* announcement.  The components share no state, so one of them moves in   *)
(* each behaviour; they share model values, so that one set of             *)
(* permutations serves them all.                                           *)
(***************************************************************************)
EXTENDS LicenceDocuments, SalesDocuments, Acknowledgements, TLC

VARIABLE part       \* the component that moves

\* Documents; keys, clerks and editors; callers and readers.
Interchangeable == Permutations(Doc) \cup Permutations(Key) \cup Permutations(Caller)

RecordsInit ==
    /\ part \in {"licence", "sales", "receipts"}
    /\ LicenceInit /\ SalesInit /\ NoteInit
    \* Who is present at first matters to the receipts alone.
    /\ part # "receipts" => present = {} /\ posted.form \in Asking

RecordsNext ==
    /\ \/ /\ part = "licence" /\ LicenceNext
          /\ UNCHANGED <<salesVars, noteVars>>
       \/ /\ part = "sales" /\ SalesNext
          /\ UNCHANGED <<licenceVars, noteVars>>
       \/ /\ part = "receipts" /\ NoteNext
          /\ UNCHANGED <<licenceVars, salesVars>>
    /\ UNCHANGED part

RecordsSpec == RecordsInit /\ [][RecordsNext]_<<part, licenceVars, salesVars, noteVars>>
=============================================================================
