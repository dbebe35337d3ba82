----------------------------- MODULE KnowledgeBase -----------------------------
(***************************************************************************)
(* The wiki, and the questions of the FAQ that become pages of it          *)
(* (services/api/src/core/wiki/wiki.service.ts, core/faq/faq.service.ts).  *)
(*                                                                         *)
(* A page has a version and a revision per version; others than            *)
(* administrators propose an edit of the version they saw, and an          *)
(* administrator approves or rejects it.  Requests read first and write    *)
(* then, one row after the other, with no transaction: what was read is    *)
(* compared with what the caller saw, never with what is there at the      *)
(* write.                                                                  *)
(*                                                                         *)
(* A page is its slug, which an edit is taken to keep.  There is one       *)
(* thread; its status, comments and reactions, and who reads a page, are   *)
(* rows nothing here depends on.                                           *)
(***************************************************************************)
EXTENDS Naturals, FiniteSets

CONSTANTS
    Slug,           \* pages there may be
    Plain,          \* the slug made of the thread's title,
    Qualified,      \* and that with the thread's id
    NoSlug,
    Text,           \* what a page may say
    NoText,
    Discussion,     \* what the thread says
    Proposal,       \* bound: edit requests
    NoProposal,
    Writer,         \* bound: handlers at work
    AfterRace,      \* bound: do handlers begin when one was overtaken?
    MaxEdition      \* bound: versions of a page, and revisions, when a handler begins

ASSUME KnowledgeAssumption ==
    /\ {Plain, Qualified} \subseteq Slug /\ NoSlug \notin Slug
    /\ NoText \notin Text /\ Discussion \in Text /\ NoProposal \notin Proposal
    /\ MaxEdition \in Nat

VARIABLES
    page,           \* WikiPage
    revision,       \* WikiRevision
    proposal,       \* WikiEditRequest
    thread,         \* the page the FaqThread is linked to
    promoted,       \* history: pages made from the thread
    desk,           \* what each handler has read and is about to write
    overtaken,      \* history: pages written on by a handler whose reading was
                    \* no longer true, or left by one that died
    promotedAgain   \* history: likewise for the thread

knowledgeVars ==
    <<page, revision, proposal, thread, promoted, desk, overtaken, promotedAgain>>

Edition == 1 .. MaxEdition

PageRow == [version : 0 .. MaxEdition, text : Text \cup {NoText}, active : BOOLEAN]
NoPage == [version |-> 0, text |-> NoText, active |-> FALSE]

RevisionRow == [page : Slug, version : Edition, text : Text, proposal : Proposal \cup {NoProposal}]

ProposalRow == [status : {"PENDING", "APPROVED", "REJECTED"}, page : Slug, base : Edition, text : Text]
Unmade == [status |-> "none", page |-> NoSlug, base |-> 0, text |-> NoText]

\* `version' is the one the handler is about to write, or has written.
Work == [at : {"creating", "writing", "deciding", "written", "recorded"},
         op : {"create", "promote", "edit", "restore", "approve", "reject"},
         page : Slug, version : Edition, text : Text, proposal : Proposal \cup {NoProposal}]
Idle == [at |-> "idle"]

KnowledgeInit ==
    /\ page = [s \in Slug |-> NoPage]
    /\ revision = {}
    /\ proposal = [q \in Proposal |-> Unmade]
    /\ thread = NoSlug
    /\ promoted = {}
    /\ desk = [w \in Writer |-> Idle]
    /\ overtaken = {}
    /\ promotedAgain = FALSE

----------------------------------------------------------------------------
(* What a handler reads, and how it goes on.                               *)

Takes(w, at, op, s, v, t, q) ==
    desk' = [desk EXCEPT ![w] = [at |-> at, op |-> op, page |-> s, version |-> v,
                                 text |-> t, proposal |-> q]]
GoesOn(w, at) ==
    LET k == desk[w] IN Takes(w, at, k.op, k.page, k.version, k.text, k.proposal)
Concludes(w) == desk' = [desk EXCEPT ![w] = Idle]

IsPage(s) == page[s] # NoPage

\* createWikiPage looks the slug up; nobody gives a page the id of the thread.
BeginCreate(w) == \E s \in Slug \ {Qualified}, t \in Text :
    /\ ~IsPage(s)
    /\ Takes(w, "creating", "create", s, 1, t, NoProposal)

\* promoteFaqThreadToWiki: a thread without a page; a slug that is taken is
\* qualified.
BeginPromote(w) ==
    /\ thread = NoSlug
    /\ Takes(w, "creating", "promote", IF IsPage(Plain) THEN Qualified ELSE Plain, 1,
             Discussion, NoProposal)

\* updateWikiPage: the version read is the one its caller saw.
BeginPageEdit(w) == \E s \in Slug, t \in Text :
    /\ page[s].active
    /\ Takes(w, "writing", "edit", s, page[s].version + 1, t, NoProposal)

\* restoreWikiRevision
BeginRestore(w) == \E r \in revision :
    Takes(w, "writing", "restore", r.page, page[r.page].version + 1, r.text, NoProposal)

\* Mutant of Current: the page may have gone on.
CurrentOrOlder(q) == page[q.page].version >= q.base

\* findPendingRequest: the page is at the version the request was made on.
Current(q) == page[q.page].version = q.base

BeginDecide(w) == \E q \in Proposal, op \in {"approve", "reject"} :
    /\ proposal[q].status = "PENDING" /\ Current(proposal[q])
    /\ Takes(w, IF op = "approve" THEN "writing" ELSE "deciding", op, proposal[q].page,
             page[proposal[q].page].version + 1, proposal[q].text, q)

Begin(w) ==
    /\ desk[w] = Idle
    /\ BeginCreate(w) \/ BeginPromote(w) \/ BeginPageEdit(w) \/ BeginRestore(w) \/ BeginDecide(w)
    /\ AfterRace \/ (overtaken = {} /\ ~promotedAgain)
    /\ Cardinality(revision) < MaxEdition /\ \A s \in Slug : page[s].version < MaxEdition
    /\ UNCHANGED <<page, revision, proposal, thread, promoted, overtaken, promotedAgain>>

----------------------------------------------------------------------------
(* What a handler writes.                                                  *)

\* The row of a new page; the slug is unique.
CreatePage(w) ==
    /\ desk[w].at = "creating"
    /\ LET k == desk[w] IN
       IF IsPage(k.page)
       THEN Concludes(w) /\ UNCHANGED <<page, promoted>>
       ELSE /\ page' = [page EXCEPT ![k.page] = [version |-> 1, text |-> k.text, active |-> TRUE]]
            /\ promoted' = IF k.op = "promote" THEN promoted \cup {k.page} ELSE promoted
            /\ GoesOn(w, "written")
    /\ UNCHANGED <<revision, proposal, thread, overtaken, promotedAgain>>

\* The row of a page is overwritten, whatever its version is by now; restoring
\* brings back a page that is archived.
WritePage(w) ==
    /\ desk[w].at = "writing"
    /\ LET k == desk[w] IN
       /\ page' = [page EXCEPT ![k.page] =
                       [version |-> k.version, text |-> k.text,
                        active |-> page[k.page].active \/ k.op = "restore"]]
       /\ overtaken' = IF page[k.page].version = k.version - 1
                       THEN overtaken ELSE overtaken \cup {k.page}
       /\ GoesOn(w, IF k.op = "approve" THEN "deciding" ELSE "written")
    /\ UNCHANGED <<revision, proposal, thread, promoted, promotedAgain>>

\* An edit request is approved, after its page was written, or rejected.
Decide(w) ==
    /\ desk[w].at = "deciding"
    /\ LET k == desk[w]
           q == proposal[k.proposal]
       IN /\ proposal' = [proposal EXCEPT ![k.proposal] =
                [status |-> IF k.op = "approve" THEN "APPROVED" ELSE "REJECTED",
                 page |-> q.page, base |-> q.base, text |-> q.text]]
          /\ overtaken' = IF q.status = "PENDING" THEN overtaken ELSE overtaken \cup {k.page}
          /\ IF k.op = "approve" THEN GoesOn(w, "written") ELSE Concludes(w)
    /\ UNCHANGED <<page, revision, thread, promoted, promotedAgain>>

RevisionOf(k) ==
    [page |-> k.page, version |-> k.version, text |-> k.text, proposal |-> k.proposal]

Recorded(s, v) == \E r \in revision : r.page = s /\ r.version = v

\* The revision of what was written; page and version are unique.
AddRevision(w) ==
    /\ desk[w].at = "written"
    /\ LET k == desk[w] IN
       IF Recorded(k.page, k.version)
       THEN Concludes(w) /\ UNCHANGED revision
       ELSE /\ revision' = revision \cup {RevisionOf(k)}
            /\ IF k.op = "promote" THEN GoesOn(w, "recorded") ELSE Concludes(w)
    /\ UNCHANGED <<page, proposal, thread, promoted, overtaken, promotedAgain>>

LinkThread(w) ==
    /\ desk[w].at = "recorded"
    /\ thread' = desk[w].page
    /\ promotedAgain' = (promotedAgain \/ thread # NoSlug)
    /\ Concludes(w)
    /\ UNCHANGED <<page, revision, proposal, promoted, overtaken>>

\* A handler dies, or the database fails it, after its first write.
WriterDies(w) ==
    /\ \/ desk[w].at \in {"written", "recorded"}
       \/ desk[w].at = "deciding" /\ desk[w].op = "approve"
    /\ overtaken' = overtaken \cup {desk[w].page}
    /\ promotedAgain' = (promotedAgain \/ desk[w].op = "promote")
    /\ Concludes(w)
    /\ UNCHANGED <<page, revision, proposal, thread, promoted>>

----------------------------------------------------------------------------
(* Operations that write one row and may be taken at once: what they write *)
(* does not depend on what they read before.                               *)

\* createWikiEditRequest
Propose(q) == \E s \in Slug, t \in Text :
    /\ proposal[q] = Unmade
    /\ page[s].active
    /\ proposal' = [proposal EXCEPT ![q] =
            [status |-> "PENDING", page |-> s, base |-> page[s].version, text |-> t]]
    /\ UNCHANGED <<page, revision, thread, promoted, desk, overtaken, promotedAgain>>

\* archiveWikiPage, unarchiveWikiPage
SetActive(s) ==
    /\ IsPage(s)
    /\ page' = [page EXCEPT ![s] =
            [version |-> page[s].version, text |-> page[s].text, active |-> ~page[s].active]]
    /\ UNCHANGED <<revision, proposal, thread, promoted, desk, overtaken, promotedAgain>>

KnowledgeNext ==
    \/ \E w \in Writer :
         \/ Begin(w) \/ CreatePage(w) \/ WritePage(w) \/ Decide(w)
         \/ AddRevision(w) \/ LinkThread(w) \/ WriterDies(w)
    \/ \E q \in Proposal : Propose(q)
    \/ \E s \in Slug : SetActive(s)

KnowledgeSpec == KnowledgeInit /\ [][KnowledgeNext]_knowledgeVars

-----------------------------------------------------------------------------
(* Properties                                                              *)

\* Rows and handlers have the shape the code gives them.
KnowledgeTypeOK ==
    /\ page \in [Slug -> PageRow]
    /\ revision \in SUBSET RevisionRow
    /\ proposal \in [Proposal -> ProposalRow \cup {Unmade}]
    /\ thread \in Slug \cup {NoSlug}
    /\ promoted \in SUBSET Slug
    /\ desk \in [Writer -> Work \cup {Idle}]
    /\ overtaken \in SUBSET Slug
    /\ promotedAgain \in BOOLEAN

\* Nobody is between two writes about a page, or was overtaken there.
AtRest(s) ==
    /\ s \notin overtaken
    /\ \A w \in Writer :
         desk[w] # Idle /\ desk[w].page = s => desk[w].at \in {"creating", "writing", "recorded"}

\* The history of a page leads to it: a revision for each version up to its own,
\* the last of which says what the page says.
HistoryLeadsHere ==
    \A s \in Slug : AtRest(s) =>
        /\ \A v \in Edition : Recorded(s, v) <=> v <= page[s].version
        /\ \A r \in revision : r.page = s /\ r.version = page[s].version => r.text = page[s].text

\* What was published for a request is what was proposed, next to the version it
\* was proposed on, and once: however decisions, edits and deaths cross.
PublishedAsProposed ==
    \A r \in revision : r.proposal # NoProposal =>
        /\ proposal[r.proposal].page = r.page
        /\ proposal[r.proposal].text = r.text
        /\ r.version = proposal[r.proposal].base + 1
        /\ \A o \in revision : o.proposal = r.proposal => o = r

\* A request is approved exactly when it was published, so that what was rejected
\* or waits is in no history.
ApprovedArePublished ==
    \A q \in Proposal : proposal[q] # Unmade /\ AtRest(proposal[q].page) =>
        (proposal[q].status = "APPROVED" <=> \E r \in revision : r.proposal = q)

\* A thread becomes one page, the one it is linked to.
PromotedOnce ==
    ~promotedAgain /\ (\A w \in Writer : desk[w] # Idle => desk[w].op # "promote") =>
        promoted = {thread} \ {NoSlug}

\* The wiki is well formed, keeps its history, publishes what was approved, and
\* takes a thread once.
WikiIsWhole ==
    KnowledgeTypeOK /\ HistoryLeadsHere /\ PublishedAsProposed /\ ApprovedArePublished /\ PromotedOnce
=============================================================================
