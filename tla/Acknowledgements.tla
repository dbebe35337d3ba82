---------------------------- MODULE Acknowledgements ----------------------------
(***************************************************************************)
(* Who has taken note of an announcement                                   *)
(* (services/api/src/core/announcements/announcements.service.ts).         *)
(*                                                                         *)
(* A manager edits a published announcement while readers open and         *)
(* acknowledge it.  An edit that changes what was acknowledged deletes all *)
(* receipts and the message that everybody had acknowledged; whoever       *)
(* acknowledges last has the managers told.  A request reads the           *)
(* announcement, its own receipt and the receipts of all in steps of their *)
(* own, and so does an edit before it writes.                              *)
(*                                                                         *)
(* One announcement, made by hand, for readers of one role: an edit of its *)
(* summary, links or roles is one of its text.  A manager who only opens   *)
(* it counts for nothing here.                                             *)
(***************************************************************************)
EXTENDS Naturals

CONSTANTS
    Reader,         \* users of the role it is for
    Form,           \* what a manager may fill in: its text, roles and links,
    Asking,         \* and whether it requires an acknowledgement
    NoForm,
    Editor,         \* bound: edits under way
    MaxChanges,     \* bound: changes of the row
    MaxMoves        \* bound: users who join or leave, and requests that die

ASSUME NoteAssumption ==
    /\ Asking \subseteq Form /\ NoForm \notin Form
    /\ MaxChanges \in Nat /\ MaxMoves \in Nat

VARIABLES
    posted,         \* the Announcement
    receipt,        \* AnnouncementReadReceipt, by reader
    meant,          \* history: what a reader had before him who acknowledged
    told,           \* is there a message that everybody acknowledged?
    present,        \* active users
    reading,        \* requests of readers
    editing,        \* requests of managers
    late,           \* history: readers with a request under way at the last reset
    slipped,        \* history: an edit brought a text back without asking again
    missed,         \* history: somebody left, or a request died, since the reset
    grown,          \* history: somebody joined since the reset
    changes, moves

noteVars == <<posted, receipt, meant, told, present, reading, editing, late, slipped,
              missed, grown, changes, moves>>

Row == [status : {"DRAFT", "PUBLISHED", "ARCHIVED"}, form : Form]

\* A request of a reader: what it read of the announcement, and whether its reader
\* had acknowledged before.
Errand == [at : {"opening", "read", "found", "counting", "telling"}, form : Form \cup {NoForm},
           already : BOOLEAN]

\* A request of a manager: what it is to say, and said when it was read.
Revising == [at : {"revising"}, form : Form, was : Form]
Nothing == [at |-> "nothing"]

NoteInit ==
    /\ \E f \in Form : posted = [status |-> "PUBLISHED", form |-> f]
    /\ receipt = [r \in Reader |-> "none"]
    /\ meant = [r \in Reader |-> NoForm]
    /\ told = FALSE
    /\ present \in SUBSET Reader
    /\ reading = [r \in Reader |-> Nothing]
    /\ editing = [e \in Editor |-> Nothing]
    /\ late = {}
    /\ slipped = FALSE /\ missed = FALSE /\ grown = FALSE
    /\ changes = 0 /\ moves = 0

----------------------------------------------------------------------------
(* Readers.                                                                *)

Errands(r, at, form, already) ==
    reading' = [reading EXCEPT ![r] = [at |-> at, form |-> form, already |-> already]]
Done(r) == reading' = [reading EXCEPT ![r] = Nothing]

Reads(r, at) ==
    /\ reading[r] = Nothing /\ r \in present
    /\ posted.status = "PUBLISHED"
    /\ Errands(r, at, posted.form, FALSE)
    /\ UNCHANGED <<posted, receipt, meant, told, present, editing, late, slipped, missed, grown, changes, moves>>

Marks(r) ==
    /\ receipt' = [receipt EXCEPT ![r] = "acknowledged"]
    /\ meant' = [meant EXCEPT ![r] = reading[r].form]

\* getAnnouncementBySlug
Look(r) == Reads(r, "opening")

\* A receipt that the announcement was opened; where no acknowledgement is asked
\* for, opening it is one.
KeepOpened(r) ==
    /\ reading[r].at = "opening"
    /\ \/ /\ reading[r].form \notin Asking
          /\ Marks(r)
       \/ /\ reading[r].form \in Asking
          /\ receipt' = IF receipt[r] = "none" THEN [receipt EXCEPT ![r] = "opened"] ELSE receipt
          /\ UNCHANGED meant
    /\ Done(r)
    /\ UNCHANGED <<posted, told, present, editing, late, slipped, missed, grown, changes, moves>>

\* acknowledgeAnnouncement reads the announcement,
Acknowledge(r) == posted.form \in Asking /\ Reads(r, "read")

\* the receipt there is,
FindReceipt(r) ==
    /\ reading[r].at = "read"
    /\ Errands(r, "found", reading[r].form, receipt[r] = "acknowledged")
    /\ UNCHANGED <<posted, receipt, meant, told, present, editing, late, slipped, missed, grown, changes, moves>>

\* and writes one that says so; who had acknowledged before is done.
KeepAcknowledged(r) ==
    /\ reading[r].at = "found"
    /\ IF reading[r].already /\ receipt[r] # "none"
       THEN UNCHANGED <<receipt, meant>>
       ELSE Marks(r)
    /\ IF reading[r].already THEN Done(r) ELSE Errands(r, "counting", NoForm, FALSE)
    /\ UNCHANGED <<posted, told, present, editing, late, slipped, missed, grown, changes, moves>>

\* getAnnouncementsAcknowledgementCompliance: completed
Completed == present # {} /\ \A u \in present : receipt[u] = "acknowledged"

CountReceipts(r) ==
    /\ reading[r].at = "counting"
    /\ IF Completed THEN Errands(r, "telling", NoForm, FALSE) ELSE Done(r)
    /\ UNCHANGED <<posted, receipt, meant, told, present, editing, late, slipped, missed, grown, changes, moves>>

\* The managers are told, once for the row as it was read (dedupeKey).
TellManagers(r) ==
    /\ reading[r].at = "telling"
    /\ told' = TRUE
    /\ Done(r)
    /\ UNCHANGED <<posted, receipt, meant, present, editing, late, slipped, missed, grown, changes, moves>>

----------------------------------------------------------------------------
(* Managers.                                                               *)

Change == changes < MaxChanges /\ changes' = changes + 1

\* Mutant of Changed: a text that now requires an acknowledgement is the text it was.
ChangedIfAsking(was, form) == was # form /\ was \in Asking

\* acknowledgementContentChanged: the form differs from the row that was read.
Changed(was, form) == was # form

\* updateAnnouncement reads the row; the form has every field.
BeginEdit(e) ==
    /\ editing[e] = Nothing
    /\ changes < MaxChanges
    /\ \E f \in Form :
         editing' = [editing EXCEPT ![e] =
             [at |-> "revising", form |-> f, was |-> posted.form]]
    /\ UNCHANGED <<posted, receipt, meant, told, present, reading, late, slipped, missed, grown, changes, moves>>

\* One transaction: the row, its status if that was given; and when it changes,
\* receipts and messages are deleted.
SaveEdit(e) ==
    /\ editing[e] # Nothing
    /\ Change
    /\ \E status \in {posted.status, "PUBLISHED", "ARCHIVED"} :
         posted' = [status |-> status, form |-> editing[e].form]
    /\ IF Changed(editing[e].was, editing[e].form)
       THEN /\ receipt' = [r \in Reader |-> "none"]
            /\ meant' = [r \in Reader |-> NoForm]
            /\ told' = FALSE
            /\ late' = {r \in Reader : reading[r] # Nothing}
            /\ slipped' = FALSE /\ missed' = FALSE /\ grown' = FALSE
       ELSE /\ slipped' = (slipped \/ posted.form # editing[e].was)
            /\ UNCHANGED <<receipt, meant, told, late, missed, grown>>
    /\ editing' = [editing EXCEPT ![e] = Nothing]
    /\ UNCHANGED <<present, reading, moves>>

\* publishAnnouncement, archiveAnnouncement
SetStatus(status) ==
    /\ Change
    /\ posted.status # status
    /\ posted' = [status |-> status, form |-> posted.form]
    /\ UNCHANGED <<receipt, meant, told, present, reading, editing, late, slipped, missed, grown, moves>>

----------------------------------------------------------------------------
(* People come and go, requests die.                                       *)

Move == moves < MaxMoves /\ moves' = moves + 1

Leaves(r) ==
    /\ Move /\ r \in present
    /\ present' = present \ {r}
    /\ missed' = TRUE
    /\ UNCHANGED <<posted, receipt, meant, told, reading, editing, late, slipped, grown, changes>>

Joins(r) ==
    /\ Move /\ r \notin present
    /\ present' = present \cup {r}
    /\ grown' = TRUE
    /\ UNCHANGED <<posted, receipt, meant, told, reading, editing, late, slipped, missed, changes>>

ErrandDies(r) ==
    /\ Move /\ reading[r] # Nothing
    /\ Done(r)
    /\ missed' = TRUE
    /\ UNCHANGED <<posted, receipt, meant, told, present, editing, late, slipped, grown, changes>>

NoteNext ==
    \/ \E r \in Reader :
         \/ Look(r) \/ KeepOpened(r)
         \/ Acknowledge(r) \/ FindReceipt(r) \/ KeepAcknowledged(r)
         \/ CountReceipts(r) \/ TellManagers(r)
         \/ Leaves(r) \/ Joins(r) \/ ErrandDies(r)
    \/ \E e \in Editor : BeginEdit(e) \/ SaveEdit(e)
    \/ \E status \in {"PUBLISHED", "ARCHIVED"} : SetStatus(status)

NoteSpec == NoteInit /\ [][NoteNext]_noteVars

-----------------------------------------------------------------------------
(* Properties                                                              *)

\* Rows and requests have the shape the code gives them.
NoteTypeOK ==
    /\ posted \in Row
    /\ receipt \in [Reader -> {"none", "opened", "acknowledged"}]
    /\ meant \in [Reader -> Form \cup {NoForm}]
    /\ told \in BOOLEAN
    /\ present \in SUBSET Reader
    /\ reading \in [Reader -> Errand \cup {Nothing}]
    /\ editing \in [Editor -> Revising \cup {Nothing}]
    /\ late \in SUBSET Reader
    /\ slipped \in BOOLEAN /\ missed \in BOOLEAN /\ grown \in BOOLEAN
    /\ changes \in Nat /\ moves \in Nat

\* A receipt stands for the text it was given for: an edit asks everybody again,
\* but for readers whose request was under way then, and for an edit that brings
\* back what another had changed meanwhile.
ReceiptsAreOfThisText ==
    ~slipped => \A r \in Reader \ late :
        receipt[r] = "acknowledged" => meant[r] = posted.form

\* Once every request is through and everybody has acknowledged, the managers have
\* been told, in whatever order the last acknowledgements came: unless one who had
\* not acknowledged left, or a request died.
LastOneTells ==
    /\ posted.form \in Asking /\ Completed
    /\ \A r \in Reader : reading[r] = Nothing
    /\ ~slipped /\ ~missed /\ late = {}
    => told

\* And they are not told before: who joined later is the only one that lacks.
ToldWhenAllDid ==
    told /\ ~grown /\ late = {} => Completed \/ present = {}

\* Rows are well formed, and acknowledgements say what the managers believe they
\* say.
AcknowledgementsHold == NoteTypeOK /\ ReceiptsAreOfThisText /\ LastOneTells /\ ToldWhenAllDid
=============================================================================
