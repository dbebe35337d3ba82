--------------------------- MODULE LicenceDocuments ---------------------------
(***************************************************************************)
(* One licence, the documents that prove it, and the links by which its    *)
(* holder may send one without an account                                  *)
(* (services/api/src/core/documents, services/api/src/core/licenses).  A   *)
(* link serves once; a document is approved or rejected once; the licence's*)
(* status is worked out from its documents and its expiry, when a document *)
(* has been judged or an administrator asks.                               *)
(*                                                                         *)
(* No operation is a transaction: each reads, then writes row by row, and  *)
(* may die in between.  A file is named after its link and type, so a      *)
(* second upload through it may overwrite the first's.                     *)
(***************************************************************************)
EXTENDS Naturals

CONSTANTS
    Document,       \* bound: documents
    Link,           \* bound: upload tokens
    NoLink,         \* uploadTokenId = null: uploaded by staff
    Clerk,          \* bound: requests under way
    LastDay,        \* last days a licence may have
    MaxDay,         \* bound: days that pass
    Warning         \* days before its last a licence is EXPIRING

ASSUME LicenceAssumption ==
    /\ NoLink \notin Link
    /\ LastDay \subseteq Nat /\ MaxDay \in Nat /\ Warning \in Nat

VARIABLES
    licence,        \* the License row: its status and last day
    document,       \* Document rows
    link,           \* UploadToken rows
    file,           \* what the store has under a link's names: whose uploads
    task,           \* requests under way, with what they read
    day,            \* today
    settled,        \* observation: status worked out since what it rests on changed
    raced,          \* observation: links two uploads used at once, or one that died
    unsteady        \* observation: something happened while a request was under way,
                    \* or one died

licenceVars ==
    <<licence, document, link, file, task, day, settled, raced, unsteady>>

LicenceStatus ==
    {"REGULAR", "EXPIRING", "EXPIRED", "PENDING_DOCUMENT", "PENDING_VALIDATION", "INACTIVE"}
Day == 0 .. MaxDay
DocumentRow == [status : {"UPLOADED", "APPROVED", "REJECTED"}, by : Link \cup {NoLink}]
NoDocument == [status |-> "none"]
LinkStatus == {"none", "usable", "used", "invalid"}

\* `doc' is the document at hand, `by' the link it came through, `inactive'
\* whether the licence was when the request read it, `status' what to write.
Task ==
    [at : {"storing"}, by : Link, inactive : BOOLEAN]
    \cup [at : {"creating", "spending"}, by : Link, inactive : BOOLEAN, doc : Document]
    \cup [at : {"touching"}, inactive : BOOLEAN]
    \cup [at : {"judging"}, doc : Document]
    \cup [at : {"recalculating"}]
    \cup [at : {"writing"}, inactive : BOOLEAN, status : LicenceStatus]
NoTask == [at |-> "idle"]

Documents == {d \in Document : document[d] # NoDocument}
Unnamed ==
    (Document \ Documents) \ {task[c].doc : c \in {b \in Clerk : task[b].at \in {"creating", "spending"}}}

-----------------------------------------------------------------------------

LicenceInit ==
    /\ \E last \in LastDay : licence = [status |-> "PENDING_DOCUMENT", last |-> last]
    /\ document = [d \in Document |-> NoDocument]
    /\ link = [t \in Link |-> "none"]
    /\ file = [t \in Link |-> {}]
    /\ task = [c \in Clerk |-> NoTask]
    /\ day = 0
    /\ settled = FALSE
    /\ raced = {}
    /\ unsteady = FALSE

Starts(c, t) ==
    /\ task[c] = NoTask
    /\ task' = [task EXCEPT ![c] = t]
    /\ unsteady' = (unsteady \/ \E b \in Clerk \ {c} : task[b] # NoTask)
Intervenes == unsteady' = (unsteady \/ \E c \in Clerk : task[c] # NoTask)
Proceeds(c, t) == task' = [task EXCEPT ![c] = t] /\ UNCHANGED unsteady
Finishes(c) == Proceeds(c, NoTask)
WithLicence(status) == licence' = [status |-> status, last |-> licence.last]
WithDocument(d, status, by) ==
    document' = [document EXCEPT ![d] = [status |-> status, by |-> by]]

-----------------------------------------------------------------------------
(* Links.                                                                  *)

\* createUploadToken
CreateLink(t) ==
    /\ link[t] = "none"
    /\ link' = [link EXCEPT ![t] = "usable"]
    /\ UNCHANGED <<licence, document, file, task, day, settled, raced, unsteady>>

\* invalidateUploadToken; a used link stays used.
InvalidateLink(t) ==
    /\ link[t] = "usable"
    /\ link' = [link EXCEPT ![t] = "invalid"]
    /\ UNCHANGED <<licence, document, file, task, day, settled, raced, unsteady>>

Using(t) == {c \in Clerk : task[c].at \in {"storing", "creating", "spending"} /\ task[c].by = t}

\* Mutant of Usable: a link that was used may be used again.
UsableAgain(t) == link[t] \in {"usable", "used"}

\* assertTokenUsable.  That links also expire only makes fewer uploads.
Usable(t) == link[t] = "usable"

\* uploadDocumentWithToken: the link and its licence are read ...
BeginLinkUpload(c, t) ==
    /\ Usable(t)
    /\ Starts(c, [at |-> "storing", by |-> t, inactive |-> licence.status = "INACTIVE"])
    /\ raced' = IF Using(t) # {} THEN raced \cup {t} ELSE raced
    /\ UNCHANGED <<licence, document, link, file, day, settled>>

\* ... the file is put under the link's name, over one of its type but beside
\* one of another ...
StoreFile(c) ==
    /\ task[c].at = "storing"
    /\ \E d \in Unnamed :
        /\ \E kept \in {{}, file[task[c].by]} :
            file' = [file EXCEPT ![task[c].by] = kept \cup {d}]
        /\ Proceeds(c, [at |-> "creating", by |-> task[c].by, inactive |-> task[c].inactive,
                        doc |-> d])
    /\ UNCHANGED <<licence, document, link, day, settled, raced>>

\* ... the document is created ...
CreateDocument(c) ==
    /\ task[c].at = "creating"
    /\ WithDocument(task[c].doc, "UPLOADED", task[c].by)
    /\ Proceeds(c, [at |-> "spending", by |-> task[c].by, inactive |-> task[c].inactive,
                    doc |-> task[c].doc])
    /\ settled' = FALSE
    /\ UNCHANGED <<licence, link, file, day, raced>>

\* ... the link is spent ...
SpendLink(c) ==
    /\ task[c].at = "spending"
    /\ link' = [link EXCEPT ![task[c].by] = "used"]
    /\ IF task[c].inactive
       THEN Finishes(c) /\ settled' = TRUE
       ELSE Proceeds(c, [at |-> "touching", inactive |-> FALSE]) /\ UNCHANGED settled
    /\ UNCHANGED <<licence, document, file, day, raced>>

\* ... and the licence waits for validation, unless it was INACTIVE when read.
TouchLicence(c) ==
    /\ task[c].at = "touching"
    /\ WithLicence("PENDING_VALIDATION")
    /\ Finishes(c)
    /\ settled' = TRUE
    /\ UNCHANGED <<document, link, file, day, raced>>

-----------------------------------------------------------------------------
(* Documents and the licence.                                              *)

\* uploadDocument, by staff: the licence is left as it is.
StaffUpload ==
    /\ \E d \in Unnamed : WithDocument(d, "UPLOADED", NoLink)
    /\ settled' = FALSE
    /\ Intervenes
    /\ UNCHANGED <<licence, link, file, task, day, raced>>

\* validateDocument reads the document, then writes the verdict over it.
BeginJudge(c, d) ==
    /\ d \in Documents /\ document[d].status = "UPLOADED"
    /\ Starts(c, [at |-> "judging", doc |-> d])
    /\ UNCHANGED <<licence, document, link, file, day, settled, raced>>

Judge(c) ==
    /\ task[c].at = "judging"
    /\ \E status \in {"APPROVED", "REJECTED"} :
            WithDocument(task[c].doc, status, document[task[c].doc].by)
    /\ Proceeds(c, [at |-> "recalculating"])
    /\ settled' = FALSE
    /\ UNCHANGED <<licence, link, file, day, raced>>

\* An administrator asks for it.
BeginRecalculate(c) ==
    /\ Starts(c, [at |-> "recalculating"])
    /\ UNCHANGED <<licence, document, link, file, day, settled, raced>>

Has(status) == \E d \in Documents : document[d].status = status

\* Mutant of Derived: a deactivated licence is worked out as any other.
DerivedAnyway ==
    CASE Has("UPLOADED") -> "PENDING_VALIDATION"
      [] ~Has("UPLOADED") /\ ~Has("APPROVED") -> "PENDING_DOCUMENT"
      [] OTHER -> "REGULAR"

\* calculateLicenseStatus
Derived ==
    IF licence.status = "INACTIVE" THEN "INACTIVE"
    ELSE IF Has("UPLOADED") THEN "PENDING_VALIDATION"
    ELSE IF ~Has("APPROVED") THEN "PENDING_DOCUMENT"
    ELSE IF licence.last < day THEN "EXPIRED"
    ELSE IF licence.last - day <= Warning THEN "EXPIRING"
    ELSE "REGULAR"

Outdated == licence.status # Derived

\* recalculateLicenses: licence and documents are read together ...
Recalculate(c) ==
    /\ task[c].at = "recalculating"
    /\ IF Outdated
       THEN /\ Proceeds(c, [at |-> "writing", status |-> Derived,
                            inactive |-> licence.status = "INACTIVE"])
            /\ UNCHANGED settled
       ELSE Finishes(c) /\ settled' = TRUE
    /\ UNCHANGED <<licence, document, link, file, day, raced>>

\* ... and the licence is written.
WriteStatus(c) ==
    /\ task[c].at = "writing"
    /\ WithLicence(task[c].status)
    /\ Finishes(c)
    /\ settled' = TRUE
    /\ UNCHANGED <<document, link, file, day, raced>>

\* updateLicense: an administrator gives a status, a last day, or both.
UpdateLicence(status, last) ==
    /\ licence' = [status |-> status, last |-> last]
    /\ settled' = FALSE
    /\ Intervenes
    /\ UNCHANGED <<document, link, file, task, day, raced>>

NextDay ==
    /\ day < MaxDay
    /\ day' = day + 1
    /\ settled' = FALSE
    /\ Intervenes
    /\ UNCHANGED <<licence, document, link, file, task, raced>>

Dies(c) ==
    /\ task[c] # NoTask
    /\ task' = [task EXCEPT ![c] = NoTask]
    /\ unsteady' = TRUE
    /\ raced' = raced \cup {t \in Link : c \in Using(t)}
    /\ UNCHANGED <<licence, document, link, file, day, settled>>

LicenceNext ==
    \/ \E t \in Link : CreateLink(t) \/ InvalidateLink(t)
    \/ \E c \in Clerk :
        \/ \E t \in Link : BeginLinkUpload(c, t)
        \/ StoreFile(c) \/ CreateDocument(c) \/ SpendLink(c) \/ TouchLicence(c)
        \/ \E d \in Document : BeginJudge(c, d)
        \/ Judge(c) \/ BeginRecalculate(c) \/ Recalculate(c) \/ WriteStatus(c)
        \/ Dies(c)
    \/ StaffUpload
    \/ \E status \in LicenceStatus, last \in LastDay : UpdateLicence(status, last)
    \/ NextDay

LicenceSpec == LicenceInit /\ [][LicenceNext]_licenceVars

-----------------------------------------------------------------------------
(* Properties                                                              *)

\* The rows have the shape the code gives them, and no document came through a
\* link that does not exist.
LicenceTypeOK ==
    /\ licence \in [status : LicenceStatus, last : LastDay]
    /\ document \in [Document -> DocumentRow \cup {NoDocument}]
    /\ link \in [Link -> LinkStatus]
    /\ file \in [Link -> SUBSET Document]
    /\ task \in [Clerk -> Task \cup {NoTask}]
    /\ \A d \in Documents : document[d].by # NoLink => link[document[d].by] # "none"

\* A link brings in one document, and its file is the one sent with it, unless two
\* uploads used the link at once or one died before it was spent; what else
\* goes on about the licence makes no difference.
LinkServesOnce ==
    \A t \in Link \ raced : \A d, e \in Documents :
        document[d].by = t /\ document[e].by = t => d = e /\ file[t] = {d}

\* After requests one at a time, the status is what documents and expiry say, if
\* nothing changed since it was worked out.
StatusIsDerived ==
    settled /\ ~unsteady /\ (\A c \in Clerk : task[c] = NoTask) => licence.status = Derived

\* The rows are well formed, and links and judgements leave a licence the documents
\* and the status they say.
LicenceIsSound == LicenceTypeOK /\ LinkServesOnce /\ StatusIsDerived

\* A deactivated licence is brought back by an administrator, or by a request that
\* had read it before; never by one that read it INACTIVE.
InactiveStands ==
    [][\A c \in Clerk :
            licence.status = "INACTIVE" /\ licence'.status # "INACTIVE" /\ task'[c] # task[c]
            => task[c].at \in {"touching", "writing"} /\ ~task[c].inactive]_licenceVars
=============================================================================
