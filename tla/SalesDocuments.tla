---------------------------- MODULE SalesDocuments ----------------------------
(***************************************************************************)
(* Sales notes of one organization (services/api/src/core/sales-documents/ *)
(* sales-documents.service.ts): they are uploaded, extracted, analysed     *)
(* again, corrected and reviewed.  Every operation reads the document,     *)
(* looks for another one with the same access key, and writes in a         *)
(* transaction of its own, with awaits between: the steps of concurrent    *)
(* calls interleave, and a call may die with its process.                  *)
(*                                                                         *)
(* A document's items are abstracted to whether it has any, its reviewer   *)
(* to whether it has one.  Permissions only narrow who may call.           *)
(***************************************************************************)
EXTENDS Naturals

CONSTANTS
    Doc,        \* SalesDocument ids
    Key,        \* access keys of invoices
    NoKey,      \* accessKey = null
    Caller      \* bound: API requests in flight

ASSUME SalesAssumption == NoKey \notin Key

VARIABLES
    doc,        \* SalesDocument rows with their SalesItem rows
    call        \* requests in flight

salesVars == <<doc, call>>

AccessKey == Key \cup {NoKey}
SalesStatus == {"UPLOADED", "EXTRACTING", "PENDING_REVIEW", "APPROVED", "REJECTED", "DUPLICATE"}
Verdict == {"APPROVED", "REJECTED", "DUPLICATE"}
NoDoc == [status |-> "NONE", key |-> NoKey, items |-> FALSE, reviewed |-> FALSE]
DocRow == [status : SalesStatus, key : AccessKey, items : BOOLEAN, reviewed : BOOLEAN] \cup {NoDoc}

\* What a call has read or been given: `was' the status it read, `status' the
\* one it will write, `todo' the invoices of an uploaded file not stored yet.
\* The items it carries only matter to the write, and are chosen there.
CallRow ==
    [at : {"read", "marked", "extracted", "checked", "failed", "storing"},
     op : {"correct", "review", "analyse", "upload"}, on : Doc, was : SalesStatus,
     status : SalesStatus, key : AccessKey, todo : SUBSET Key]
NoCall == [at |-> "idle"]

\* What an extraction may return; the operational minimum needs a key and items.
Extraction ==
    {x \in [key : AccessKey, items : BOOLEAN, enough : BOOLEAN] :
        x.enough => x.key # NoKey /\ x.items}

SalesInit ==
    /\ doc = [d \in Doc |-> NoDoc]
    /\ call = [c \in Caller |-> NoCall]

Exists(d) == doc[d].status # "NONE"
Approved(d) == doc[d].status = "APPROVED"

\* The other documents of the organization that hold the key.
Holders(d, k) == {e \in Doc \ {d} : k # NoKey /\ doc[e].key = k}

\* Mutant of KeyAvailable: the look-up alone keeps the keys apart.
KeyAssumedAvailable(d, k) == TRUE

\* @@unique([organizationId, accessKey]): the write fails otherwise.
KeyAvailable(d, k) == Holders(d, k) = {}

Goes(c, row) == call' = [call EXCEPT ![c] = row]
Ends(c) == Goes(c, NoCall)
At(c, op, stage) ==
    /\ call[c].at = stage
    /\ call[c].op = op

\* All a correction or a review keeps of the row it read.
Read(d) == IF Approved(d) THEN "APPROVED" ELSE "UPLOADED"

Stores(d, row) == doc' = [doc EXCEPT ![d] = row]

-----------------------------------------------------------------------------
(* Correction by a reviewer: not of an approved document.                  *)

\* Mutant of Correctable: no status is refused.
CorrectableAnyway(status) == TRUE

Correctable(status) == status # "APPROVED"

BeginCorrection(c, d) ==
    /\ call[c] = NoCall
    /\ Exists(d)
    /\ Correctable(doc[d].status)
    /\ Goes(c, [at |-> "read", op |-> "correct", on |-> d, was |-> Read(d),
                status |-> "PENDING_REVIEW", key |-> NoKey, todo |-> {}])
    /\ UNCHANGED doc

\* The review of a document in any status.
BeginReview(c, d) ==
    /\ call[c] = NoCall
    /\ Exists(d)
    /\ Goes(c, [at |-> "read", op |-> "review", on |-> d, was |-> "UPLOADED",
                status |-> "UPLOADED", key |-> NoKey, todo |-> {}])
    /\ UNCHANGED doc

Decided(op) == IF op = "correct" THEN {"PENDING_REVIEW"} ELSE Verdict

\* The look-up by key; a review that does not approve makes none.
CheckKey(c) ==
    /\ At(c, "correct", "read") \/ At(c, "review", "read")
    /\ LET r == call[c]
       IN  \E status \in Decided(r.op), k \in AccessKey :
            IF status \in {"PENDING_REVIEW", "APPROVED"} /\ Holders(r.on, k) # {}
            THEN Ends(c)
            ELSE Goes(c, [at |-> "checked", op |-> r.op, on |-> r.on, was |-> r.was,
                          status |-> status, key |-> k, todo |-> {}])
    /\ UNCHANGED doc

\* To approve takes items; a document refused keeps none.
ItemsOf(status) ==
    IF status = "PENDING_REVIEW" THEN BOOLEAN ELSE {status = "APPROVED"}

\* One transaction replaces the items and writes the row, whatever the row
\* has become since it was read.
WriteDecision(c) ==
    /\ At(c, "correct", "checked") \/ At(c, "review", "checked")
    /\ LET r == call[c]
       IN  \/ /\ KeyAvailable(r.on, r.key)
              /\ \E items \in ItemsOf(r.status) :
                    Stores(r.on, [status |-> r.status, key |-> r.key, items |-> items,
                                  reviewed |-> r.op = "review"])
           \/ /\ ~KeyAvailable(r.on, r.key)
              /\ UNCHANGED doc
    /\ Ends(c)

-----------------------------------------------------------------------------
(* Analysis of a stored document, and upload of a file.                    *)

\* Mutants of Analysable: one of the two statuses is forgotten.
AnalysableIfApproved(status) == status # "REJECTED"
AnalysableIfRejected(status) == status # "APPROVED"

Analysable(status) == status \notin {"APPROVED", "REJECTED"}

BeginAnalysis(c, d) ==
    /\ call[c] = NoCall
    /\ Exists(d)
    /\ Analysable(doc[d].status)
    /\ Goes(c, [at |-> "read", op |-> "analyse", on |-> d, was |-> doc[d].status,
                status |-> "EXTRACTING", key |-> NoKey, todo |-> {}])
    /\ UNCHANGED doc

MarkExtracting(c) ==
    /\ At(c, "analyse", "read")
    /\ LET r == call[c]
           row == doc[r.on]
       IN  /\ Stores(r.on, [status |-> "EXTRACTING", key |-> row.key, items |-> row.items,
                            reviewed |-> row.reviewed])
           /\ Goes(c, [at |-> "marked", op |-> r.op, on |-> r.on, was |-> r.was,
                       status |-> r.status, key |-> r.key, todo |-> r.todo])

\* applySalesDocumentExtraction up to its transaction: the extraction and the
\* look-up by key.
Extracted(r, k) ==
    LET duplicate == Holders(r.on, k) # {}
    IN  [at |-> "extracted", op |-> r.op, on |-> r.on, was |-> r.was,
         status |-> IF duplicate THEN "DUPLICATE" ELSE "PENDING_REVIEW",
         key |-> IF duplicate THEN NoKey ELSE k, todo |-> r.todo \ {k}]

\* The file cannot be read, or the provider fails.
Fails(r) == [at |-> "failed", op |-> r.op, on |-> r.on, was |-> r.was, status |-> r.was,
             key |-> NoKey, todo |-> {}]

Extract(c) ==
    /\ At(c, "analyse", "marked")
    /\ \/ \E k \in AccessKey : Goes(c, Extracted(call[c], k))
       \/ Goes(c, Fails(call[c]))
    /\ UNCHANGED doc

\* What its transaction may leave of the row: it leaves the reviewer alone, and
\* a duplicate gets neither key nor items.
Applied(r, row) ==
    IF r.status = "DUPLICATE"
    THEN {[status |-> "DUPLICATE", key |-> NoKey, items |-> FALSE, reviewed |-> row.reviewed]}
    ELSE {[status |-> IF x.enough THEN "PENDING_REVIEW" ELSE "UPLOADED", key |-> x.key,
           items |-> x.items, reviewed |-> row.reviewed] :
            x \in {y \in Extraction : y.key = r.key /\ (r.op = "upload" => y.enough)}}

ApplyAnalysis(c) ==
    /\ At(c, "analyse", "extracted")
    /\ LET r == call[c]
       IN  \/ /\ KeyAvailable(r.on, r.key)
              /\ \E row \in Applied(r, doc[r.on]) : Stores(r.on, row)
              /\ Ends(c)
           \/ /\ ~KeyAvailable(r.on, r.key)
              /\ Goes(c, Fails(r))
              /\ UNCHANGED doc

\* A failed analysis puts back the status it read at its start.
RestoreStatus(c) ==
    /\ At(c, "analyse", "failed")
    /\ LET r == call[c]
           row == doc[r.on]
       IN  Stores(r.on, [status |-> r.was, key |-> row.key, items |-> row.items,
                         reviewed |-> row.reviewed])
    /\ Ends(c)

\* The file is stored and read: the distinct invoices found in it get a
\* document each, one after the other; a file without any gets one document.
BeginUpload(c, d, invoices) ==
    /\ call[c] = NoCall
    /\ ~Exists(d)
    /\ \/ /\ invoices = {}
          /\ Stores(d, [status |-> "UPLOADED", key |-> NoKey, items |-> FALSE, reviewed |-> FALSE])
          /\ UNCHANGED call
       \/ /\ invoices # {}
          /\ Stores(d, [status |-> "EXTRACTING", key |-> NoKey, items |-> FALSE, reviewed |-> FALSE])
          /\ Goes(c, [at |-> "storing", op |-> "upload", on |-> d, was |-> "EXTRACTING",
                      status |-> "EXTRACTING", key |-> NoKey, todo |-> invoices])

LookUpInvoice(c, k) ==
    /\ At(c, "upload", "storing")
    /\ k \in call[c].todo
    /\ Goes(c, Extracted(call[c], k))
    /\ UNCHANGED doc

\* The invoice is applied and the row of the next one created; a key taken
\* since the look-up ends the upload with its last row still EXTRACTING.
StoreInvoice(c) ==
    /\ At(c, "upload", "extracted")
    /\ LET r == call[c]
       IN  \/ /\ ~KeyAvailable(r.on, r.key)
              /\ Ends(c)
              /\ UNCHANGED doc
           \/ /\ KeyAvailable(r.on, r.key)
              /\ \E row \in Applied(r, doc[r.on]) : Stores(r.on, row)
              /\ IF r.todo = {}
                 THEN Ends(c)
                 ELSE Goes(c, [at |-> "checked", op |-> r.op, on |-> r.on, was |-> r.was,
                               status |-> r.status, key |-> r.key, todo |-> r.todo])

NextInvoice(c, d) ==
    /\ At(c, "upload", "checked")
    /\ ~Exists(d)
    /\ Stores(d, [status |-> "EXTRACTING", key |-> NoKey, items |-> FALSE, reviewed |-> FALSE])
    /\ Goes(c, [at |-> "storing", op |-> "upload", on |-> d, was |-> "EXTRACTING",
                status |-> "EXTRACTING", key |-> NoKey, todo |-> call[c].todo])

\* The process dies; what it had written stays.
Die(c) ==
    /\ call[c] # NoCall
    /\ Ends(c)
    /\ UNCHANGED doc

-----------------------------------------------------------------------------

SalesNext ==
    \E c \in Caller :
        \/ \E d \in Doc :
              \/ BeginCorrection(c, d)
              \/ BeginReview(c, d)
              \/ BeginAnalysis(c, d)
              \/ \E invoices \in SUBSET Key : BeginUpload(c, d, invoices)
              \/ NextInvoice(c, d)
        \/ CheckKey(c)
        \/ WriteDecision(c)
        \/ MarkExtracting(c)
        \/ Extract(c)
        \/ ApplyAnalysis(c)
        \/ RestoreStatus(c)
        \/ \E k \in Key : LookUpInvoice(c, k)
        \/ StoreInvoice(c)
        \/ Die(c)

SalesSpec == SalesInit /\ [][SalesNext]_salesVars

-----------------------------------------------------------------------------
(* Properties                                                              *)

\* The rows and the requests have the shape the schema and the code give them.
SalesTypeOK ==
    /\ doc \in [Doc -> DocRow]
    /\ call \in [Caller -> CallRow \cup {NoCall}]

\* However uploads, corrections, analyses and reviews of the same invoice
\* interleave, one document at most holds its key: no sale counts twice.
OneDocumentPerKey ==
    \A d \in Doc, e \in Doc : doc[d].key = doc[e].key /\ doc[d].key # NoKey => d = e

\* The ranking reads APPROVED documents: each has items, and a reviewer, even
\* when an analysis that failed puts an older status back.
ApprovedIsReviewed ==
    \A d \in Doc : Approved(d) => doc[d].items /\ doc[d].reviewed

\* A rejected document has no items: no status put back late makes a
\* corrected document REJECTED again with its items in place.
RejectedIsEmpty ==
    \A d \in Doc : doc[d].status = "REJECTED" => ~doc[d].items /\ doc[d].reviewed

\* What the ranking counts, it counts once, and it was reviewed as it stands.
RankingIsSound == OneDocumentPerKey /\ ApprovedIsReviewed /\ RejectedIsEmpty

\* Beside another review, an approval is undone only by a request that had read
\* the document before it was approved.
LostOnlyToStaleCalls ==
    [][\A d \in Doc :
        Approved(d) /\ ~Approved(d)' =>
            \E c \in Caller :
                /\ call[c] # NoCall
                /\ call[c].on = d
                /\ call[c].op = "review" \/ call[c].was # "APPROVED"]_salesVars
=============================================================================
