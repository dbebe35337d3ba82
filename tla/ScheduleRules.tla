---------------------------- MODULE ScheduleRules ----------------------------
(***************************************************************************)
(* The versioned scheduling rules of one support team                      *)
(* (services/api/src/core/support-scheduling/support-scheduling.service.ts):*)
(* managers write drafts, publish them as rule versions with a window of   *)
(* validity, and archive drafts and future versions.  Every mutation is    *)
(* one serializable transaction, so one step; what interleaves is managers *)
(* acting on a draft they read earlier, and time.                          *)
(*                                                                         *)
(* A version is created by exactly one draft (sourceDraftId is unique) and *)
(* rows are never deleted, so version[d] is the row that draft d became.   *)
(* The limits a rule carries are left out; what is kept of the payload and *)
(* its checksum is the window.                                             *)
(***************************************************************************)
EXTENDS Naturals

CONSTANTS
    Draft,          \* draft ids
    Manager,        \* users with the `manage' permission
    Unread,         \* the view of a manager who has read no draft
    Never,          \* the date that stands for effectiveTo = null
    MaxTime,        \* bound: the clock stops here
    MaxRevision     \* bound: edits of one draft

ASSUME RulesAssumption ==
    /\ Never \in Nat \ {0}
    /\ MaxTime \in Nat /\ MaxTime < Never
    /\ MaxRevision \in Nat \ {0}

VARIABLES
    now,        \* the clock
    draft,      \* SupportScheduleRuleDraft rows
    version,    \* SupportScheduleRuleVersion rows, by source draft
    referenced, \* versions an occurrence, offer or extra slot points at
    view        \* what each manager last read of a draft

rulesVars == <<now, draft, version, referenced, view>>

Instant == 0..Never
Window  == {w \in [from : Instant, to : Instant] : w.from < w.to}

NoWindow == [from |-> 0, to |-> 0]
NoDraft  == [status |-> "NONE", revision |-> 0, window |-> NoWindow]
NoVersion    == [status |-> "NONE", window |-> NoWindow]

DraftRow   == [status : {"NONE", "DRAFT", "PUBLISHED", "ARCHIVED"},
               revision : Nat, window : Window \cup {NoWindow}]
VersionRow == [status : {"NONE", "ACTIVE", "ARCHIVED"},
               window : Window \cup {NoWindow}]

View       == [draft : Draft, revision : Nat, window : Window]

RulesTypeOK ==
    /\ now \in Nat
    /\ draft \in [Draft -> DraftRow]
    /\ version \in [Draft -> VersionRow]
    /\ referenced \in SUBSET Draft
    /\ view \in [Manager -> View \cup {Unread}]

RulesInit ==
    /\ now = 0
    /\ draft = [d \in Draft |-> NoDraft]
    /\ version = [d \in Draft |-> NoVersion]
    /\ referenced = {}
    /\ view = [m \in Manager |-> Unread]

-----------------------------------------------------------------------------
(* The timeline.                                                             *)

Active     == {d \in Draft : version[d].status = "ACTIVE"}
From(d)    == version[d].window.from
To(d)      == version[d].window.to
Covers(d, t) == From(d) <= t /\ t < To(d)

\* effectiveRule: the versions it may return for an instant.
InForce(t) == {d \in Active : Covers(d, t)}

Overlaps(d, w) == From(d) < w.to /\ To(d) > w.from

\* The active version that starts last before an instant, as a set: publish and
\* archive both close or reopen it.
Previous(t) ==
    {d \in Active : /\ From(d) < t
                    /\ \A e \in Active : From(e) < t => From(e) <= From(d)}

\* The active version that starts first after an instant, as a set.
Following(t) ==
    {d \in Active : /\ From(d) > t
                    /\ \A e \in Active : From(e) > t => From(d) <= From(e)}

-----------------------------------------------------------------------------
(* Drafts.                                                                   *)

\* buildRuleData: a window that is not empty and starts in the future.
Acceptable(w) == w \in Window /\ w.from > now

CreateDraft(d, w) ==
    /\ draft[d].status = "NONE"
    /\ Acceptable(w)
    /\ draft' = [draft EXCEPT ![d] = [status |-> "DRAFT", revision |-> 1, window |-> w]]
    /\ UNCHANGED <<now, version, referenced, view>>

\* Preview, or the list of drafts: the manager now knows revision and checksum.
Read(m, d) ==
    /\ draft[d].status # "NONE"
    /\ view' = [view EXCEPT ![m] = [draft |-> d, revision |-> draft[d].revision,
                                    window |-> draft[d].window]]
    /\ UNCHANGED <<now, draft, version, referenced>>

\* Mutant of SameContent: publish without the compare-and-set.
AnyContent(v) == TRUE

\* assertDraftCas on the revision alone, then on the checksum too.
SameRevision(v) == draft[v.draft].revision = v.revision
SameContent(v)  == SameRevision(v) /\ draft[v.draft].window = v.window

UpdateDraft(m, w) ==
    LET d == view[m].draft
    IN /\ view[m] # Unread
       /\ draft[d].status = "DRAFT"
       /\ SameRevision(view[m])
       /\ Acceptable(w)
       /\ draft[d].revision < MaxRevision
       /\ draft' = [draft EXCEPT ![d] = [status |-> "DRAFT", revision |-> @.revision + 1,
                                         window |-> w]]
       /\ UNCHANGED <<now, version, referenced, view>>

ArchiveDraft(m) ==
    LET d == view[m].draft
    IN /\ view[m] # Unread
       /\ draft[d].status = "DRAFT"
       /\ SameRevision(view[m])
       /\ draft' = [draft EXCEPT ![d] = [status |-> "ARCHIVED", revision |-> @.revision + 1,
                                         window |-> @.window]]
       /\ UNCHANGED <<now, version, referenced, view>>

-----------------------------------------------------------------------------
(* Versions.                                                                 *)

\* Mutant of Publishable: the overlap check is gone.
PublishableAnyway(w) == TRUE

\* The overlap check of publishRuleDraftInTransaction: only the previous version
\* may reach into the new window.
Publishable(w) == \A e \in Active : Overlaps(e, w) => e \in Previous(w.from)

\* The previous version ends where the new one begins.
Publish(d, w) ==
    version' = [e \in Draft |->
                  IF e = d THEN [status |-> "ACTIVE", window |-> w]
                  ELSE IF e \in Previous(w.from) /\ To(e) > w.from
                  THEN [status |-> "ACTIVE", window |-> [from |-> From(e), to |-> w.from]]
                  ELSE version[e]]

\* A publish with the revision and checksum the manager has read.  Publishing
\* again what is already published changes nothing.
PublishDraft(m) ==
    LET d == view[m].draft
        w == draft[d].window
    IN /\ view[m] # Unread
       /\ SameContent(view[m])
       /\ draft[d].status = "DRAFT"
       /\ Acceptable(w)
       /\ Publishable(w)
       /\ Publish(d, w)
       /\ draft' = [draft EXCEPT ![d] = [status |-> "PUBLISHED", revision |-> @.revision,
                                         window |-> @.window]]
       /\ UNCHANGED <<now, referenced, view>>

\* createSupportScheduleRuleVersion: draft and publish in one transaction.
CreateVersion(d, w) ==
    /\ draft[d].status = "NONE"
    /\ Acceptable(w)
    /\ Publishable(w)
    /\ Publish(d, w)
    /\ draft' = [draft EXCEPT ![d] = [status |-> "PUBLISHED", revision |-> 1, window |-> w]]
    /\ UNCHANGED <<now, referenced, view>>

\* archiveSupportScheduleRuleVersion: a future version nothing refers to is taken
\* out and the version before it is run up to the one after it.
ReconnectedTo(d) ==
    IF Following(From(d)) = {} THEN Never
    ELSE From(CHOOSE e \in Following(From(d)) : TRUE)

ArchiveVersion(d) ==
    /\ d \in Active
    /\ From(d) > now
    /\ d \notin referenced
    /\ version' = [e \in Draft |->
                     IF e = d THEN [status |-> "ARCHIVED", window |-> version[d].window]
                     ELSE IF e \in Previous(From(d))
                     THEN [status |-> "ACTIVE",
                           window |-> [from |-> From(e), to |-> ReconnectedTo(d)]]
                     ELSE version[e]]
    /\ UNCHANGED <<now, draft, referenced, view>>

\* Occurrences, offers and extra slots of a future instant are written against
\* the rule in force then.
Refer(d) ==
    /\ d \in Active
    /\ To(d) > now
    /\ d \notin referenced
    /\ referenced' = referenced \cup {d}
    /\ UNCHANGED <<now, draft, version, view>>

ClockTicks ==
    /\ now < MaxTime
    /\ now' = now + 1
    /\ UNCHANGED <<draft, version, referenced, view>>

RulesNext ==
    \/ \E d \in Draft, w \in Window : CreateDraft(d, w) \/ CreateVersion(d, w)
    \/ \E m \in Manager :
         \/ \E d \in Draft : Read(m, d)
         \/ \E w \in Window : UpdateDraft(m, w)
         \/ ArchiveDraft(m) \/ PublishDraft(m)
    \/ \E d \in Draft : ArchiveVersion(d) \/ Refer(d)
    \/ ClockTicks

RulesSpec == RulesInit /\ [][RulesNext]_rulesVars

-----------------------------------------------------------------------------
(* Properties.                                                               *)

\* "impedir duas versoes ativas sobrepostas no mesmo escopo" (TASK-AT-394): at
\* no instant are two versions of a team's rules in force, through any sequence
\* of publications that cut a window and archivals that reopen one.
NoOverlap ==
    \A d, e \in Active : d # e => To(d) <= From(e) \/ To(e) <= From(d)

\* A manager publishes only the window he has read: an edit, an archival or
\* another publication that slipped in between makes the publication fail.
PublishedAsRead ==
    [][\A m \in Manager : PublishDraft(m) =>
          /\ version'[view[m].draft].window = view[m].window
          /\ version[view[m].draft].status = "NONE"]_rulesVars

\* A publication decides nothing about the past, however long its draft lay
\* about: the window is checked against the clock again when it is published.
Published(d) == version[d].status = "NONE" /\ version'[d].status = "ACTIVE"
PublicationIsProspective ==
    [][(\E d \in Draft : Published(d)) =>
         \A t \in Instant : t <= now => InForce(t)' = InForce(t)]_rulesVars

\* Archiving a version does not leave days without a rule: every instant that
\* had one keeps one, if any version starts earlier.
ArchiveLeavesNoGap ==
    [][\A d \in Draft, t \in Instant :
          ArchiveVersion(d) /\ Previous(From(d)) # {} /\ t >= From(d) /\ InForce(t) # {}
          => \E e \in Draft : /\ version'[e].status = "ACTIVE"
                              /\ version'[e].window.from <= t
                              /\ t < version'[e].window.to]_rulesVars

\* Managers act on what they have read, for the future only, and leave no gap.
RulesChangeSoundly == PublishedAsRead /\ PublicationIsProspective /\ ArchiveLeavesNoGap

\* "Edicoes afetam somente o futuro" (RUNBOOK-007): no publication and no
\* archival changes which rule was in force at an instant already past.
PastRulesStand ==
    [][\A t \in Instant : t < now => InForce(t)' = InForce(t)]_rulesVars
=============================================================================
