------------------------------ MODULE KpiEntries ------------------------------
(***************************************************************************)
(* The measurements of the support team                                    *)
(* (services/api/src/core/support-operations/support-operations.service.ts)*)
(* Managers enter one per observation (what is measured, of whom, when),   *)
(* submit it, and another approves or rejects it; approved ones feed the   *)
(* summaries and the campaigns.  What was reviewed is not edited: a        *)
(* correction is a new entry that supersedes it once approved.             *)
(*                                                                         *)
(* Entering, editing and submitting read first and write later, without a  *)
(* transaction; a review is one serializable transaction.                  *)
(***************************************************************************)
EXTENDS Naturals

CONSTANTS
    Entry,          \* bound: SupportKpiEntry rows
    NoEntry,        \* supersedesId = null
    Observation,    \* metric, dimensions, scope and period together
    NoKey,          \* dedupeKey = null
    Value,          \* what may be measured
    Reference,      \* rows of an external source
    NoReference,    \* externalReference = null
    Caller          \* bound: calls under way

ASSUME KpiAssumption ==
    /\ NoEntry \notin Entry
    /\ NoKey \notin Observation
    /\ NoReference \notin Reference

VARIABLES
    entry,          \* the rows
    request,        \* calls under way, with what they read
    stale           \* observation: entries written by a call that had read another
                    \* status

kpiVars == <<entry, request, stale>>

KpiStatus == {"DRAFT", "SUBMITTED", "APPROVED", "REJECTED", "SUPERSEDED"}
KpiContent ==
    [observation : Observation, value : Value, key : Observation \cup {NoKey},
     reference : Reference \cup {NoReference}]
KpiRow ==
    [status : KpiStatus, archived : BOOLEAN, content : KpiContent,
     supersedes : Entry \cup {NoEntry}]
NoRow == [status |-> "none"]

KpiRequest ==
    [at : {"creating"}, content : KpiContent]
    \cup [at : {"revising"}, of : Entry, content : KpiContent]
    \cup [at : {"editing"}, of : Entry, content : KpiContent, archive : BOOLEAN, read : KpiStatus]
    \cup [at : {"submitting"}, of : Entry]
NoRequest == [at |-> "idle"]

Rows == {e \in Entry : entry[e] # NoRow}
Live(e) == e \in Rows /\ ~entry[e].archived

-----------------------------------------------------------------------------

KpiInit ==
    /\ entry = [e \in Entry |-> NoRow]
    /\ request = [c \in Caller |-> NoRequest]
    /\ stale = {}

Asks(c, r) == request[c] = NoRequest /\ request' = [request EXCEPT ![c] = r]
Answered(c) == request' = [request EXCEPT ![c] = NoRequest]
Put(e, row) == entry' = [entry EXCEPT ![e] = row]

\* The search for a duplicate among the entries that still count, whatever key they have.
Duplicated(o, except) ==
    \E e \in Rows \ except :
        ~entry[e].archived /\ entry[e].status # "SUPERSEDED" /\ entry[e].content.observation = o

\* The unique keys of the table.
Unclaimed(content, except) ==
    \A e \in Rows \ except :
        /\ content.key # NoKey => entry[e].content.key # content.key
        /\ content.reference # NoReference => entry[e].content.reference # content.reference

\* An entry without external reference is known by its observation.
Keyed(o, v, ref) ==
    [observation |-> o, value |-> v, key |-> IF ref = NoReference THEN o ELSE NoKey,
     reference |-> ref]

\* createSupportKpiEntry
BeginCreate(c) ==
    \E o \in Observation, v \in Value, ref \in Reference \cup {NoReference} :
        /\ ref = NoReference => ~Duplicated(o, {})
        /\ Asks(c, [at |-> "creating", content |-> Keyed(o, v, ref)])
        /\ UNCHANGED <<entry, stale>>

Create(c) ==
    /\ request[c].at = "creating"
    /\ \/ /\ Unclaimed(request[c].content, {})
          /\ \E e \in Entry \ Rows :
                Put(e, [status |-> "DRAFT", archived |-> FALSE, content |-> request[c].content,
                        supersedes |-> NoEntry])
       \/ ~Unclaimed(request[c].content, {}) /\ UNCHANGED entry
    /\ Answered(c)
    /\ UNCHANGED stale

\* Mutant of Reviewed: an approved entry is edited as a draft is.
ReviewedIfRejected(e) == entry[e].status = "REJECTED"

\* createsRevision
Reviewed(e) == entry[e].status \in {"APPROVED", "REJECTED"}

\* updateSupportKpiEntry.  The search for a duplicate comes after the read;
\* taken together with it, as only refusals depend on what is in between.
BeginEdit(c, e) ==
    /\ Live(e) /\ entry[e].status \notin {"SUBMITTED", "SUPERSEDED"}
    /\ \E o \in Observation, v \in Value, ref \in Reference \cup {NoReference}, archive \in BOOLEAN :
            /\ archive => entry[e].status # "APPROVED"
            /\ IF Reviewed(e)
               THEN Asks(c, [at |-> "revising", of |-> e,
                             content |-> [observation |-> o, value |-> v, key |-> NoKey,
                                          reference |-> NoReference]])
               ELSE /\ ref = NoReference /\ ~archive => ~Duplicated(o, {e})
                    /\ Asks(c, [at |-> "editing", of |-> e, archive |-> archive, read |-> entry[e].status,
                                content |-> [observation |-> o, value |-> v, reference |-> ref,
                                             key |-> IF archive THEN NoKey ELSE Keyed(o, v, ref).key]])
    /\ UNCHANGED <<entry, stale>>

\* A correction of a correction still names the first entry.
Original(e) == IF entry[e].supersedes # NoEntry THEN entry[e].supersedes ELSE e

Revise(c) ==
    /\ request[c].at = "revising"
    /\ \E e \in Entry \ Rows :
            Put(e, [status |-> "DRAFT", archived |-> FALSE, content |-> request[c].content,
                    supersedes |-> Original(request[c].of)])
    /\ Answered(c)
    /\ UNCHANGED stale

\* The row is overwritten as it is now, its status left alone.
Edit(c) ==
    /\ request[c].at = "editing"
    /\ LET e == request[c].of
           old == entry[e]
       IN  IF Unclaimed(request[c].content, {e})
           THEN /\ Put(e, [status |-> old.status, archived |-> old.archived \/ request[c].archive,
                           content |-> request[c].content, supersedes |-> old.supersedes])
                /\ stale' = IF old.status = request[c].read THEN stale
                            ELSE stale \cup {e}
           ELSE UNCHANGED <<entry, stale>>
    /\ Answered(c)

\* submitSupportKpiEntry
BeginSubmit(c, e) ==
    /\ Live(e) /\ entry[e].status = "DRAFT"
    /\ Asks(c, [at |-> "submitting", of |-> e])
    /\ UNCHANGED <<entry, stale>>

Submit(c) ==
    /\ request[c].at = "submitting"
    /\ LET e == request[c].of
           old == entry[e]
       IN  /\ Put(e, [status |-> "SUBMITTED", archived |-> old.archived, content |-> old.content,
                      supersedes |-> old.supersedes])
           /\ stale' = IF old.status \in {"DRAFT", "SUBMITTED"} THEN stale ELSE stale \cup {e}
    /\ Answered(c)

\* Mutant of Superseded: an approval leaves the entry it corrects.
SupersededNever(e) == {}

\* The approved entry an approval of e replaces.
Superseded(e) == {s \in Rows : s = entry[e].supersedes /\ entry[s].status = "APPROVED"}

WithStatus(row, status) ==
    [status |-> status, archived |-> row.archived, content |-> row.content,
     supersedes |-> row.supersedes]

\* reviewSupportKpiEntry
ReviewEntry(e, decision) ==
    /\ Live(e) /\ entry[e].status = "SUBMITTED"
    /\ entry' = [x \in Entry |->
                    IF x = e THEN WithStatus(entry[x], decision)
                    ELSE IF decision = "APPROVED" /\ x \in Superseded(e)
                         THEN WithStatus(entry[x], "SUPERSEDED")
                    ELSE entry[x]]
    /\ UNCHANGED <<request, stale>>

KpiNext ==
    \/ \E c \in Caller :
        \/ BeginCreate(c) \/ Create(c)
        \/ \E e \in Entry : BeginEdit(c, e) \/ BeginSubmit(c, e)
        \/ Revise(c) \/ Edit(c) \/ Submit(c)
    \/ \E e \in Entry, decision \in {"APPROVED", "REJECTED"} : ReviewEntry(e, decision)

KpiSpec == KpiInit /\ [][KpiNext]_kpiVars

-----------------------------------------------------------------------------
(* Properties                                                              *)

\* Entered by hand, and neither a correction nor archived.
ByHand(e) ==
    /\ Live(e)
    /\ entry[e].supersedes = NoEntry
    /\ entry[e].content.reference = NoReference

\* The rows and the calls have the shape the code gives them, what an entry
\* corrects is an entry, and one entered by hand is known by its observation.
KpiTypeOK ==
    /\ entry \in [Entry -> KpiRow \cup {NoRow}]
    /\ request \in [Caller -> KpiRequest \cup {NoRequest}]
    /\ \A e \in Rows : entry[e].supersedes # NoEntry => entry[e].supersedes \in Rows
    /\ \A e \in Rows : ByHand(e) => entry[e].content.key = entry[e].content.observation
    /\ stale \subseteq Rows

\* However two managers race to enter or edit it, an observation is entered by
\* hand once: a second entry of it is a correction or names an external row, which
\* no other entry names.
EnteredOnce ==
    \A e, f \in Rows :
        \/ ByHand(e) /\ ByHand(f) /\ entry[e].content.observation = entry[f].content.observation
        \/ entry[e].content.reference \in Reference /\ entry[e].content.reference = entry[f].content.reference
        => e = f

\* "superseding the previous version": an approved correction and the entry it
\* corrects never both count, but for an entry a stale call submitted again.
RevisionGivesWay ==
    \A e \in Rows :
        /\ entry[e].status = "APPROVED"
        /\ entry[e].supersedes \in Rows \ stale
        => entry[entry[e].supersedes].status # "APPROVED"

\* What the summaries count, they count once.
CountedOnce == EnteredOnce /\ RevisionGivesWay

\* What was approved is overwritten by no edit, but for one that read it as a draft;
\* it leaves that status only to be superseded.
ApprovedContentStands ==
    [][\A e \in Rows \ stale' :
            entry[e].status = "APPROVED" =>
                /\ entry'[e].content = entry[e].content
                /\ entry'[e].status \in {"APPROVED", "SUPERSEDED"}]_kpiVars

\* "approves it atomically while superseding the previous version": of an entry
\* and its corrections one counts.  The code keeps this for one correction only.
OneApprovedVersion ==
    \A e, f \in Rows \ stale :
        /\ entry[e].status = "APPROVED" /\ entry[f].status = "APPROVED"
        /\ Original(e) = Original(f)
        => e = f
=============================================================================
