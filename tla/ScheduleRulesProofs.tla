------------------------- MODULE ScheduleRulesProofs -------------------------
(***************************************************************************)
(* For every set of drafts and managers and every bound: the variables of  *)
(* ScheduleRules keep their types, no two active versions of a team's      *)
(* rules overlap, and publications and archivals change the timeline as    *)
(* the manager read it, for the future, and without leaving a gap.         *)
(***************************************************************************)
EXTENDS ScheduleRules, FiniteSetTheorems, TLAPS

\* A draft or an active version has a proper window.
WindowsOK ==
    /\ \A d \in Draft : draft[d].status # "NONE" => draft[d].window \in Window
    /\ \A d \in Draft : version[d].status = "ACTIVE" => version[d].window \in Window

\* A version comes from a published draft.
FromPublished ==
    \A d \in Draft : version[d].status # "NONE" => draft[d].status = "PUBLISHED"

\* The inductive invariant.
IInv == RulesTypeOK /\ WindowsOK /\ FromPublished /\ NoOverlap

\* The bounds of a proper window.
LEMMA WindowBounds ==
    ASSUME NEW w \in Window
    PROVE  w.from \in Nat /\ w.to \in Nat /\ w.from < w.to /\ w.to <= Never
  BY RulesAssumption DEF Window, Instant

\* Two numbers in order make a window.
LEMMA MakeWindow ==
    ASSUME NEW a \in Nat, NEW b \in Nat, a < b, b <= Never
    PROVE  [from |-> a, to |-> b] \in Window
  BY RulesAssumption DEF Window, Instant

\* An active version is in force from some time to a later one.
LEMMA ActiveBounds ==
    ASSUME IInv, NEW d \in Active
    PROVE  /\ d \in Draft
           /\ version[d].window \in Window
           /\ From(d) \in Nat /\ To(d) \in Nat /\ From(d) < To(d) /\ To(d) <= Never
  BY WindowBounds DEF IInv, WindowsOK, Active, From, To

\* The initial state satisfies the invariant.
LEMMA InitIInv == RulesInit => IInv
  BY RulesAssumption
  DEF RulesInit, IInv, RulesTypeOK, WindowsOK, FromPublished, NoOverlap, Active, NoDraft, NoVersion,
      DraftRow, VersionRow, NoWindow

-----------------------------------------------------------------------------
\* Publishing a window that only its previous version reaches into keeps the
\* timeline free of overlaps: the previous version is cut where the new begins.
LEMMA PublishKeepsTimeline ==
    ASSUME IInv, NEW d \in Draft, NEW w \in Window,
           version[d].status = "NONE", Publishable(w), Publish(d, w)
    PROVE  /\ version' \in [Draft -> VersionRow]
           /\ \A e \in Draft : version'[e].status = "ACTIVE" => version'[e].window \in Window
           /\ NoOverlap'
<1>w. w.from \in Nat /\ w.to \in Nat /\ w.from < w.to /\ w.to <= Never
  BY WindowBounds
<1>1. ASSUME NEW e \in Draft, e # d, e \in Previous(w.from), To(e) > w.from
      PROVE  /\ version'[e] = [status |-> "ACTIVE", window |-> [from |-> From(e), to |-> w.from]]
             /\ [from |-> From(e), to |-> w.from] \in Window
  <2>1. e \in Active /\ From(e) < w.from
    BY <1>1 DEF Previous
  <2>2. [from |-> From(e), to |-> w.from] \in Window
    <3>1. From(e) \in Nat
      BY <2>1, ActiveBounds
    <3>2. w.from <= Never
      BY <1>w, RulesAssumption
    <3>3. QED
      BY <2>1, <3>1, <3>2, <1>w, MakeWindow
  <2>3. QED
    BY <1>1, <2>2 DEF Publish
<1>2. version'[d] = [status |-> "ACTIVE", window |-> w]
  BY DEF Publish
<1>3. ASSUME NEW e \in Draft, e # d, ~(e \in Previous(w.from) /\ To(e) > w.from)
      PROVE  version'[e] = version[e]
  BY <1>3 DEF Publish
<1>4. version' \in [Draft -> VersionRow]
  <2>1. \A e \in Draft : version'[e] \in VersionRow
    <3>1. SUFFICES ASSUME NEW e \in Draft PROVE version'[e] \in VersionRow
      OBVIOUS
    <3>2. CASE e = d
      BY <1>2, <3>2 DEF VersionRow
    <3>3. CASE e # d /\ e \in Previous(w.from) /\ To(e) > w.from
      <4>1. version'[e] = [status |-> "ACTIVE", window |-> [from |-> From(e), to |-> w.from]]
            /\ [from |-> From(e), to |-> w.from] \in Window
        BY <1>1, <3>3
      <4>2. QED
        BY <4>1 DEF VersionRow
    <3>4. CASE e # d /\ ~(e \in Previous(w.from) /\ To(e) > w.from)
      BY <1>3, <3>4 DEF IInv, RulesTypeOK
    <3>5. QED
      BY <3>2, <3>3, <3>4
  <2>2. QED
    BY <2>1 DEF Publish
\* Who is active afterwards, and how its window relates to the one it had.
<1>5. ASSUME NEW e \in Draft, version'[e].status = "ACTIVE", e # d
      PROVE  /\ e \in Active
             /\ version'[e].window \in Window
             /\ version'[e].window.from = From(e)
             /\ version'[e].window.to <= To(e)
             /\ version'[e].window.to <= w.from \/ w.to <= From(e)
  <2>1. CASE e \in Previous(w.from) /\ To(e) > w.from
    <3>1. e \in Active
      BY <2>1 DEF Previous
    <3>2. /\ version'[e].window = [from |-> From(e), to |-> w.from]
          /\ version'[e].window \in Window
      <4>1. /\ version'[e] = [status |-> "ACTIVE", window |-> [from |-> From(e), to |-> w.from]]
            /\ [from |-> From(e), to |-> w.from] \in Window
        BY <1>1, <1>5, <2>1
      <4>2. QED
        BY <4>1
    <3>3. From(e) \in Nat /\ To(e) \in Nat
      BY <3>1, ActiveBounds
    <3>4. QED
      BY <3>1, <3>2, <3>3, <2>1, <1>w
  <2>2. CASE ~(e \in Previous(w.from) /\ To(e) > w.from)
    <3>1. version'[e] = version[e]
      BY <1>3, <1>5, <2>2
    <3>2. e \in Active
      BY <1>5, <3>1 DEF Active
    <3>3. From(e) \in Nat /\ To(e) \in Nat /\ version[e].window \in Window
      BY <3>2, ActiveBounds
    <3>4. To(e) <= w.from \/ w.to <= From(e)
      BY <1>w, <2>2, <3>2, <3>3 DEF Publishable, Overlaps
    <3>5. QED
      BY <3>1, <3>2, <3>3, <3>4 DEF From, To
  <2>3. QED
    BY <2>1, <2>2
<1>6. \A e \in Draft : version'[e].status = "ACTIVE" => version'[e].window \in Window
  BY <1>2, <1>5
<1>7. NoOverlap'
  <2>1. SUFFICES ASSUME NEW e \in Draft, NEW f \in Draft, e # f,
                        version'[e].status = "ACTIVE", version'[f].status = "ACTIVE"
                 PROVE  \/ version'[e].window.to <= version'[f].window.from
                        \/ version'[f].window.to <= version'[e].window.from
    BY DEF NoOverlap, Active, From, To
  <2>2. CASE e = d
    BY <1>2, <1>5, <2>1, <2>2
  <2>3. CASE f = d
    BY <1>2, <1>5, <2>1, <2>3
  <2>4. CASE e # d /\ f # d
    <3>1. /\ e \in Active /\ f \in Active
          /\ version'[e].window.from = From(e) /\ version'[f].window.from = From(f)
          /\ version'[e].window.to <= To(e) /\ version'[f].window.to <= To(f)
      BY <1>5, <2>1, <2>4
    <3>2. To(e) <= From(f) \/ To(f) <= From(e)
      BY <2>1, <3>1 DEF IInv, NoOverlap
    <3>3. /\ From(e) \in Nat /\ From(f) \in Nat /\ To(e) \in Nat /\ To(f) \in Nat
          /\ version'[e].window.to \in Nat /\ version'[f].window.to \in Nat
      BY <1>6, <2>1, <3>1, ActiveBounds, WindowBounds
    <3>4. QED
      BY <3>1, <3>2, <3>3
  <2>5. QED
    BY <2>2, <2>3, <2>4
<1>8. QED
  BY <1>4, <1>6, <1>7

\* A non-empty set of numbers has a least element: the intervals 0..n-1 of its
\* members are finite sets, and strict inclusion of finite sets is well founded.
LEMMA LeastNat ==
    ASSUME NEW S \in SUBSET Nat, NEW n \in S
    PROVE  \E m \in S : \A k \in S : m <= k
<1> DEFINE R == StrictSubsetOrdering(Nat)
           T == {0..(k - 1) : k \in S}
<1>1. \A k \in S : IsFiniteSet(0..(k - 1)) /\ 0..(k - 1) \in SUBSET Nat
  BY FS_Interval
<1>2. T \subseteq FiniteSubsetsOf(Nat) /\ T # {}
  BY <1>1 DEF FiniteSubsetsOf
<1>3. PICK x \in T : \A y \in T : <<y, x>> \notin R
  BY <1>2, FS_StrictSubsetOrderingWellFounded, WFMin
<1>4. PICK m \in S : x = 0..(m - 1)
  BY <1>3
<1>5. ASSUME NEW k \in S, k < m PROVE FALSE
  <2>1. 0..(k - 1) \in T /\ <<0..(k - 1), x>> \notin R
    BY <1>3
  <2>2. 0..(k - 1) \subseteq x /\ 0..(k - 1) # x
    <3>1. k \in x /\ k \notin 0..(k - 1)
      BY <1>4, <1>5
    <3>2. QED
      BY <1>4, <1>5, <3>1
  <2>3. <<0..(k - 1), x>> \in R
    BY <1>1, <1>4, <2>2 DEF StrictSubsetOrdering
  <2>4. QED
    BY <2>1, <2>3
<1>6. QED
  BY <1>5

\* If any active version starts after an instant, one of them starts first.
LEMMA FollowingExists ==
    ASSUME IInv, NEW t \in Nat, NEW f \in Active, From(f) > t
    PROVE  Following(t) # {}
<1> DEFINE S == {From(e) : e \in {a \in Active : From(a) > t}}
<1>1. S \in SUBSET Nat /\ From(f) \in S
  BY ActiveBounds
<1>2. PICK n \in S : \A k \in S : n <= k
  BY <1>1, LeastNat
<1>3. PICK e \in Active : From(e) = n /\ From(e) > t
  BY <1>2
<1>4. \A g \in Active : From(g) > t => From(e) <= From(g)
  BY <1>2, <1>3
<1>5. e \in Following(t)
  BY <1>3, <1>4, ActiveBounds DEF Following
<1>6. QED
  BY <1>5

\* Archiving a future version and running the one before it up to the one after
\* it keeps the timeline free of overlaps: nothing active lies in between.
LEMMA ArchiveKeepsTimeline ==
    ASSUME IInv, NEW d \in Draft, ArchiveVersion(d)
    PROVE  /\ version' \in [Draft -> VersionRow]
           /\ \A e \in Draft : version'[e].status = "ACTIVE" => version'[e].window \in Window
           /\ NoOverlap'
<1> DEFINE r == ReconnectedTo(d)
<1>1. d \in Active
  BY DEF ArchiveVersion
<1>2. From(d) \in Nat /\ To(d) \in Nat /\ From(d) < To(d) /\ To(d) <= Never
  BY <1>1, ActiveBounds
\* The new end lies after the archived start and not beyond any later start.
<1>3. /\ r \in Nat /\ r <= Never /\ r > From(d)
      /\ \A f \in Active : From(f) > From(d) => r <= From(f)
  <2>1. CASE Following(From(d)) = {}
    <3>1. r = Never
      BY <2>1 DEF ReconnectedTo
    <3>2. ASSUME NEW f \in Active, From(f) > From(d) PROVE r <= From(f)
      BY <2>1, <3>2, <1>2, FollowingExists
    <3>3. QED
      BY <3>1, <3>2, <1>2, RulesAssumption
  <2>2. CASE Following(From(d)) # {}
    <3>1. PICK e \in Following(From(d)) : r = From(e)
      BY <2>2 DEF ReconnectedTo
    <3>2. e \in Active /\ From(e) > From(d) /\ \A f \in Active : From(f) > From(d) => From(e) <= From(f)
      BY <3>1 DEF Following
    <3>3. From(e) \in Nat /\ From(e) <= Never
      BY <3>2, ActiveBounds, RulesAssumption
    <3>4. QED
      BY <3>1, <3>2, <3>3
  <2>3. QED
    BY <2>1, <2>2
<1>4. version'[d] = [status |-> "ARCHIVED", window |-> version[d].window]
  BY DEF ArchiveVersion
<1>5. ASSUME NEW e \in Draft, e # d, e \in Previous(From(d))
      PROVE  /\ e \in Active /\ From(e) \in Nat /\ From(e) < From(d)
             /\ version'[e] = [status |-> "ACTIVE", window |-> [from |-> From(e), to |-> r]]
             /\ [from |-> From(e), to |-> r] \in Window
  <2>1. e \in Active /\ From(e) < From(d)
    BY <1>5 DEF Previous
  <2>2. From(e) \in Nat
    BY <2>1, ActiveBounds
  <2>3. From(e) < r
    BY <1>2, <1>3, <2>1, <2>2
  <2>4. [from |-> From(e), to |-> r] \in Window
    BY <1>3, <2>2, <2>3, MakeWindow
  <2>5. version'[e] = [status |-> "ACTIVE", window |-> [from |-> From(e), to |-> r]]
    BY <1>5 DEF ArchiveVersion
  <2>6. QED
    BY <2>1, <2>2, <2>4, <2>5
<1>6. ASSUME NEW e \in Draft, e # d, e \notin Previous(From(d))
      PROVE  version'[e] = version[e]
  BY <1>6 DEF ArchiveVersion
<1>7. version' \in [Draft -> VersionRow]
  <2>1. ASSUME NEW e \in Draft PROVE version'[e] \in VersionRow
    <3>1. CASE e = d
      BY <1>4, <3>1 DEF VersionRow, IInv, RulesTypeOK
    <3>2. CASE e # d /\ e \in Previous(From(d))
      <4>1. /\ version'[e] = [status |-> "ACTIVE", window |-> [from |-> From(e), to |-> r]]
            /\ [from |-> From(e), to |-> r] \in Window
        BY <1>5, <3>2
      <4>2. QED
        BY <4>1 DEF VersionRow
    <3>3. CASE e # d /\ e \notin Previous(From(d))
      BY <1>6, <3>3 DEF IInv, RulesTypeOK
    <3>4. QED
      BY <3>1, <3>2, <3>3
  <2>2. QED
    BY <2>1 DEF ArchiveVersion
\* Who is active afterwards, and how its window lies against every other start.
<1>8. ASSUME NEW e \in Draft, version'[e].status = "ACTIVE"
      PROVE  /\ e \in Active /\ e # d
             /\ version'[e].window \in Window
             /\ version'[e].window.from = From(e)
             /\ \A f \in Active \ {d} : From(e) < From(f) => version'[e].window.to <= From(f)
  <2>1. e # d
    BY <1>4, <1>8
  <2>2. CASE e \in Previous(From(d))
    <3>1. /\ e \in Active
          /\ version'[e].window = [from |-> From(e), to |-> r]
          /\ version'[e].window \in Window
      <4>1. /\ e \in Active
            /\ version'[e] = [status |-> "ACTIVE", window |-> [from |-> From(e), to |-> r]]
            /\ [from |-> From(e), to |-> r] \in Window
        BY <1>5, <2>1, <2>2
      <4>2. QED
        BY <4>1
    <3>2. ASSUME NEW f \in Active \ {d}, From(e) < From(f) PROVE r <= From(f)
      <4>1. ~(From(f) < From(d))
        <5>1. From(f) < From(d) => From(f) <= From(e)
          BY <2>2, <3>2 DEF Previous
        <5>2. From(e) \in Nat /\ From(f) \in Nat
          BY <3>1, <3>2, ActiveBounds
        <5>3. QED
          BY <5>1, <5>2, <3>2
      <4>2. From(f) # From(d)
        <5>1. To(f) <= From(d) \/ To(d) <= From(f)
          BY <1>1, <3>2 DEF IInv, NoOverlap
        <5>2. From(f) \in Nat /\ To(f) \in Nat /\ From(f) < To(f)
          BY <3>2, ActiveBounds
        <5>3. QED
          BY <5>1, <5>2, <1>2
      <4>3. From(f) \in Nat
        BY <3>2, ActiveBounds
      <4>4. QED
        BY <1>2, <1>3, <3>2, <4>1, <4>2, <4>3
    <3>3. QED
      BY <2>1, <3>1, <3>2
  <2>3. CASE e \notin Previous(From(d))
    <3>1. version'[e] = version[e]
      BY <1>6, <2>1, <2>3
    <3>2. e \in Active
      BY <1>8, <3>1 DEF Active
    <3>3. ASSUME NEW f \in Active \ {d}, From(e) < From(f) PROVE To(e) <= From(f)
      <4>1. To(e) <= From(f) \/ To(f) <= From(e)
        <5>1. e # f /\ f \in Active
          BY <3>2, <3>3, ActiveBounds
        <5>2. QED
          BY <3>2, <5>1 DEF IInv, NoOverlap
      <4>2. From(f) \in Nat /\ To(f) \in Nat /\ From(f) < To(f) /\ From(e) \in Nat
        BY <3>2, <3>3, ActiveBounds
      <4>3. QED
        BY <3>3, <4>1, <4>2
    <3>4. QED
      BY <2>1, <3>1, <3>2, <3>3, ActiveBounds DEF From, To
  <2>4. QED
    BY <2>2, <2>3
<1>9. NoOverlap'
  <2>1. SUFFICES ASSUME NEW e \in Draft, NEW f \in Draft, e # f,
                        version'[e].status = "ACTIVE", version'[f].status = "ACTIVE"
                 PROVE  \/ version'[e].window.to <= version'[f].window.from
                        \/ version'[f].window.to <= version'[e].window.from
    BY DEF NoOverlap, Active, From, To
  <2>2. /\ e \in Active \ {d} /\ f \in Active \ {d}
        /\ version'[e].window.from = From(e) /\ version'[f].window.from = From(f)
    BY <1>8, <2>1
  <2>3. From(e) \in Nat /\ From(f) \in Nat /\ From(e) # From(f)
    <3>1. To(e) <= From(f) \/ To(f) <= From(e)
      BY <2>1, <2>2 DEF IInv, NoOverlap
    <3>2. /\ From(e) \in Nat /\ To(e) \in Nat /\ From(e) < To(e)
          /\ From(f) \in Nat /\ To(f) \in Nat /\ From(f) < To(f)
      BY <2>2, ActiveBounds
    <3>3. QED
      BY <3>1, <3>2
  <2>4. CASE From(e) < From(f)
    BY <1>8, <2>1, <2>2, <2>4
  <2>5. CASE From(f) < From(e)
    BY <1>8, <2>1, <2>2, <2>5
  <2>6. QED
    BY <2>3, <2>4, <2>5
<1>10. QED
  BY <1>7, <1>8, <1>9

-----------------------------------------------------------------------------
\* An action that leaves the versions alone keeps the timeline.
LEMMA SameVersions ==
    ASSUME IInv, version' = version
    PROVE  /\ NoOverlap'
           /\ \A d \in Draft : version'[d].status = "ACTIVE" => version'[d].window \in Window
  BY DEF IInv, WindowsOK, NoOverlap, Active, From, To

\* Writing one draft row keeps the drafts typed and their windows proper.
LEMMA WriteDraft ==
    ASSUME IInv, NEW d \in Draft, NEW s \in {"DRAFT", "PUBLISHED", "ARCHIVED"},
           NEW n \in Nat, NEW w \in Window,
           draft' = [draft EXCEPT ![d] = [status |-> s, revision |-> n, window |-> w]]
    PROVE  /\ draft' \in [Draft -> DraftRow]
           /\ \A e \in Draft : draft'[e].status # "NONE" => draft'[e].window \in Window
<1>1. [status |-> s, revision |-> n, window |-> w] \in DraftRow
  BY DEF DraftRow
<1>2. draft \in [Draft -> DraftRow]
  BY DEF IInv, RulesTypeOK
<1>3. ASSUME NEW e \in Draft
      PROVE  draft'[e] = IF e = d THEN [status |-> s, revision |-> n, window |-> w] ELSE draft[e]
  BY <1>2
<1>4. draft' \in [Draft -> DraftRow]
  BY <1>1, <1>2
<1>5. ASSUME NEW e \in Draft, draft'[e].status # "NONE" PROVE draft'[e].window \in Window
  BY <1>3, <1>5 DEF IInv, WindowsOK
<1>6. QED
  BY <1>4, <1>5

\* A manager's view names a draft.
LEMMA ViewOfDraft ==
    ASSUME IInv, NEW m \in Manager, view[m] # Unread
    PROVE  /\ view[m].draft \in Draft
           /\ draft[view[m].draft].revision \in Nat
  BY DEF IInv, RulesTypeOK, View, DraftRow

\* Publishing a draft of any earlier status but PUBLISHED keeps the invariant.
LEMMA PublishStep ==
    ASSUME IInv, NEW d \in Draft, NEW w \in Window, NEW n \in Nat,
           draft[d].status # "PUBLISHED", Publishable(w), Publish(d, w),
           draft' = [draft EXCEPT ![d] = [status |-> "PUBLISHED", revision |-> n, window |-> w]],
           UNCHANGED <<now, referenced, view>>
    PROVE  IInv'
<1>1. version[d].status = "NONE"
  BY DEF IInv, FromPublished
<1>2. /\ version' \in [Draft -> VersionRow]
      /\ \A e \in Draft : version'[e].status = "ACTIVE" => version'[e].window \in Window
      /\ NoOverlap'
  BY <1>1, PublishKeepsTimeline
<1>3. /\ draft' \in [Draft -> DraftRow]
      /\ \A e \in Draft : draft'[e].status # "NONE" => draft'[e].window \in Window
  BY WriteDraft
<1>4. FromPublished'
  <2>1. SUFFICES ASSUME NEW e \in Draft, version'[e].status # "NONE"
                 PROVE  draft'[e].status = "PUBLISHED"
    BY DEF FromPublished
  <2>2. draft \in [Draft -> DraftRow]
    BY DEF IInv, RulesTypeOK
  <2>3. CASE e = d
    BY <2>2, <2>3
  <2>4. CASE e # d
    <3>1. draft'[e] = draft[e]
      BY <2>2, <2>4
    <3>2. version[e].status # "NONE"
      <4>1. e \in Previous(w.from) => version[e].status # "NONE"
        BY DEF Previous, Active
      <4>2. QED
        BY <2>1, <2>4, <4>1 DEF Publish
    <3>3. QED
      BY <3>1, <3>2 DEF IInv, FromPublished
  <2>5. QED
    BY <2>3, <2>4
<1>5. now' \in Nat /\ referenced' \in SUBSET Draft /\ view' \in [Manager -> View \cup {Unread}]
  BY DEF IInv, RulesTypeOK
<1>6. QED
  BY <1>2, <1>3, <1>4, <1>5 DEF IInv, RulesTypeOK, WindowsOK

\* Writing a draft that has no version yet, as something not published.
LEMMA DraftStep ==
    ASSUME IInv, NEW d \in Draft, NEW s \in {"DRAFT", "ARCHIVED"}, NEW n \in Nat,
           NEW w \in Window, draft[d].status # "PUBLISHED",
           draft' = [draft EXCEPT ![d] = [status |-> s, revision |-> n, window |-> w]],
           UNCHANGED <<now, version, referenced, view>>
    PROVE  IInv'
<1>1. /\ draft' \in [Draft -> DraftRow]
      /\ \A e \in Draft : draft'[e].status # "NONE" => draft'[e].window \in Window
  BY WriteDraft
<1>2. /\ NoOverlap'
      /\ \A e \in Draft : version'[e].status = "ACTIVE" => version'[e].window \in Window
  BY SameVersions
<1>3. FromPublished'
  <2>1. draft \in [Draft -> DraftRow] /\ version[d].status = "NONE"
    BY DEF IInv, RulesTypeOK, FromPublished
  <2>2. SUFFICES ASSUME NEW e \in Draft, version'[e].status # "NONE"
                 PROVE  draft'[e].status = "PUBLISHED"
    BY DEF FromPublished
  <2>3. e # d /\ draft'[e] = draft[e]
    BY <2>1, <2>2
  <2>4. QED
    BY <2>2, <2>3 DEF IInv, FromPublished
<1>4. RulesTypeOK'
  BY <1>1 DEF IInv, RulesTypeOK
<1>5. QED
  BY <1>1, <1>2, <1>3, <1>4 DEF IInv, WindowsOK

\* Every step keeps the invariant.
LEMMA NextIInv == IInv /\ [RulesNext]_rulesVars => IInv'
<1> SUFFICES ASSUME IInv, [RulesNext]_rulesVars PROVE IInv'
  OBVIOUS
<1>1. ASSUME NEW d \in Draft, NEW w \in Window, CreateDraft(d, w) PROVE IInv'
  BY <1>1, DraftStep DEF CreateDraft
<1>2. ASSUME NEW d \in Draft, NEW w \in Window, CreateVersion(d, w) PROVE IInv'
  BY <1>2, PublishStep DEF CreateVersion
<1>3. ASSUME NEW m \in Manager, NEW d \in Draft, Read(m, d) PROVE IInv'
  <2>1. [draft |-> d, revision |-> draft[d].revision, window |-> draft[d].window] \in View
    <3>1. draft[d].window \in Window
      BY <1>3 DEF Read, IInv, WindowsOK
    <3>2. draft[d].revision \in Nat
      BY DEF IInv, RulesTypeOK, DraftRow
    <3>3. QED
      BY <3>1, <3>2 DEF View
  <2>2. RulesTypeOK'
    BY <1>3, <2>1 DEF Read, IInv, RulesTypeOK
  <2>3. /\ NoOverlap'
        /\ \A e \in Draft : version'[e].status = "ACTIVE" => version'[e].window \in Window
    BY <1>3, SameVersions DEF Read
  <2>4. QED
    BY <1>3, <2>2, <2>3 DEF Read, IInv, WindowsOK, FromPublished
<1>4. ASSUME NEW m \in Manager, NEW w \in Window, UpdateDraft(m, w) PROVE IInv'
  <2> DEFINE d == view[m].draft
  <2>1. d \in Draft /\ draft[d].revision \in Nat
    BY <1>4, ViewOfDraft DEF UpdateDraft
  <2>2. draft' = [draft EXCEPT ![d] = [status |-> "DRAFT", revision |-> draft[d].revision + 1,
                                       window |-> w]]
    BY <1>4, <2>1 DEF UpdateDraft, IInv, RulesTypeOK
  <2>3. draft[d].revision + 1 \in Nat /\ draft[d].status # "PUBLISHED"
    BY <1>4, <2>1 DEF UpdateDraft
  <2>4. UNCHANGED <<now, version, referenced, view>>
    BY <1>4 DEF UpdateDraft
  <2>5. QED
    BY <2>1, <2>2, <2>3, <2>4, DraftStep
<1>5. ASSUME NEW m \in Manager, ArchiveDraft(m) PROVE IInv'
  <2> DEFINE d == view[m].draft
  <2>1. d \in Draft /\ draft[d].revision \in Nat
    BY <1>5, ViewOfDraft DEF ArchiveDraft
  <2>2. draft' = [draft EXCEPT ![d] = [status |-> "ARCHIVED", revision |-> draft[d].revision + 1,
                                       window |-> draft[d].window]]
    BY <1>5, <2>1 DEF ArchiveDraft, IInv, RulesTypeOK
  <2>3. draft[d].revision + 1 \in Nat /\ draft[d].status = "DRAFT"
    BY <1>5, <2>1 DEF ArchiveDraft
  <2>4. draft[d].window \in Window
    BY <2>1, <2>3 DEF IInv, WindowsOK
  <2>5. UNCHANGED <<now, version, referenced, view>>
    BY <1>5 DEF ArchiveDraft
  <2>6. QED
    BY <2>1, <2>2, <2>3, <2>4, <2>5, DraftStep
<1>6. ASSUME NEW m \in Manager, PublishDraft(m) PROVE IInv'
  <2> DEFINE d == view[m].draft
             w == draft[d].window
  <2>1. d \in Draft /\ draft[d].revision \in Nat
    BY <1>6, ViewOfDraft DEF PublishDraft
  <2>2. draft' = [draft EXCEPT ![d] = [status |-> "PUBLISHED", revision |-> draft[d].revision,
                                       window |-> w]]
    BY <1>6, <2>1 DEF PublishDraft, IInv, RulesTypeOK
  <2>3. w \in Window /\ draft[d].status # "PUBLISHED"
    BY <1>6 DEF PublishDraft, Acceptable
  <2>4. Publishable(w) /\ Publish(d, w) /\ UNCHANGED <<now, referenced, view>>
    BY <1>6 DEF PublishDraft
  <2>5. QED
    BY <2>1, <2>2, <2>3, <2>4, PublishStep
<1>7. ASSUME NEW d \in Draft, ArchiveVersion(d) PROVE IInv'
  <2>1. /\ version' \in [Draft -> VersionRow]
        /\ \A e \in Draft : version'[e].status = "ACTIVE" => version'[e].window \in Window
        /\ NoOverlap'
    BY <1>7, ArchiveKeepsTimeline
  <2>2. FromPublished'
    <3>1. SUFFICES ASSUME NEW e \in Draft, version'[e].status # "NONE"
                   PROVE  version[e].status # "NONE"
      BY <1>7 DEF FromPublished, IInv, ArchiveVersion
    <3>2. d \in Active /\ (e \in Previous(From(d)) => e \in Active)
      BY <1>7 DEF ArchiveVersion, Previous
    <3>3. QED
      BY <1>7, <3>1, <3>2 DEF ArchiveVersion, Active
  <2>3. UNCHANGED <<now, draft, referenced, view>>
    BY <1>7 DEF ArchiveVersion
  <2>4. QED
    BY <2>1, <2>2, <2>3 DEF IInv, RulesTypeOK, WindowsOK
<1>8. ASSUME UNCHANGED <<draft, version, view>>, now' \in Nat, referenced' \in SUBSET Draft
      PROVE  IInv'
  <2>1. /\ NoOverlap'
        /\ \A e \in Draft : version'[e].status = "ACTIVE" => version'[e].window \in Window
    BY <1>8, SameVersions
  <2>2. QED
    BY <1>8, <2>1 DEF IInv, RulesTypeOK, WindowsOK, FromPublished
<1>9. ASSUME NEW d \in Draft, Refer(d) PROVE IInv'
  BY <1>8, <1>9 DEF Refer, IInv, RulesTypeOK
<1>10. ASSUME ClockTicks PROVE IInv'
  BY <1>8, <1>10 DEF ClockTicks, IInv, RulesTypeOK
<1>11. ASSUME UNCHANGED rulesVars PROVE IInv'
  BY <1>8, <1>11 DEF rulesVars, IInv, RulesTypeOK
<1>12. QED
  BY <1>1, <1>2, <1>3, <1>4, <1>5, <1>6, <1>7, <1>9, <1>10, <1>11 DEF RulesNext

-----------------------------------------------------------------------------
\* The invariant holds throughout every behaviour.
THEOREM Invariance == RulesSpec => []IInv
  BY InitIInv, NextIInv, PTL DEF RulesSpec

\* Drafts, versions, references and views keep their types.
THEOREM TypeCorrect == RulesSpec => []RulesTypeOK
<1>1. IInv => RulesTypeOK
  BY DEF IInv
<1>2. QED
  BY Invariance, <1>1, PTL

\* At no instant are two versions of a team's rules in force.
THEOREM NoTwoVersionsInForce == RulesSpec => []NoOverlap
<1>1. IInv => NoOverlap
  BY DEF IInv
<1>2. QED
  BY Invariance, <1>1, PTL

-----------------------------------------------------------------------------
\* What the previous version is run up to when the version d is taken out: past
\* the start of d and up to the first active version after it, if there is one.
LEMMA Reconnected ==
    ASSUME IInv, NEW d \in Active
    PROVE  \/ ReconnectedTo(d) = Never /\ Following(From(d)) = {}
           \/ \E f \in Active : From(f) > From(d) /\ ReconnectedTo(d) = From(f)
<1>1. CASE Following(From(d)) = {}
  BY <1>1 DEF ReconnectedTo
<1>2. CASE Following(From(d)) # {}
  <2>1. PICK e \in Following(From(d)) : ReconnectedTo(d) = From(e)
    BY <1>2 DEF ReconnectedTo
  <2>2. QED
    BY <2>1 DEF Following
<1>3. QED
  BY <1>1, <1>2

\* Archiving a version that another precedes leaves every instant covered that was.
LEMMA ArchiveCovers ==
    ASSUME IInv, NEW d \in Draft, NEW t \in Instant, ArchiveVersion(d),
           Previous(From(d)) # {}, t >= From(d), InForce(t) # {}
    PROVE  \E e \in Draft : /\ version'[e].status = "ACTIVE"
                            /\ version'[e].window.from <= t
                            /\ t < version'[e].window.to
<1>1. d \in Active /\ t \in Nat
  BY RulesAssumption DEF ArchiveVersion, Instant
<1>2. From(d) \in Nat /\ To(d) \in Nat /\ From(d) < To(d)
  BY <1>1, ActiveBounds
<1>3. PICK c \in Active : From(c) <= t /\ t < To(c)
  BY DEF InForce, Covers
<1>4. From(c) \in Nat /\ To(c) \in Nat /\ To(c) <= Never /\ c \in Draft
  BY ActiveBounds
<1>5. PICK p \in Previous(From(d)) : TRUE
  OBVIOUS
<1>6. p \in Active /\ From(p) < From(d) /\ p \in Draft /\ From(p) \in Nat /\ p # d
  BY <1>2, ActiveBounds DEF Previous
<1>7. version'[p] = [status |-> "ACTIVE", window |-> [from |-> From(p), to |-> ReconnectedTo(d)]]
  BY <1>5, <1>6 DEF ArchiveVersion
<1>8. From(p) <= t
  BY <1>1, <1>2, <1>6
<1>9. CASE ReconnectedTo(d) = Never
  BY <1>1, <1>3, <1>4, <1>6, <1>7, <1>8, <1>9, RulesAssumption
<1>10. ASSUME NEW f \in Active, From(f) > From(d), ReconnectedTo(d) = From(f)
       PROVE  \E e \in Draft : /\ version'[e].status = "ACTIVE"
                               /\ version'[e].window.from <= t
                               /\ t < version'[e].window.to
  <2>1. From(f) \in Nat
    BY ActiveBounds
  <2>2. CASE t < From(f)
    BY <1>6, <1>7, <1>8, <1>10, <2>2
  <2>3. CASE ~(t < From(f))
    <3>1. c # d
      <4>1. To(d) <= From(f) \/ To(f) <= From(d)
        BY <1>1, <1>10, <1>2, <2>1 DEF IInv, NoOverlap
      <4>2. From(f) < To(f) /\ To(f) \in Nat
        BY ActiveBounds
      <4>3. To(d) <= From(f)
        BY <1>2, <1>10, <2>1, <4>1, <4>2
      <4>4. QED
        BY <1>1, <1>2, <1>3, <2>1, <2>3, <4>3
    <3>2. c \notin Previous(From(d))
      <4>1. To(c) <= From(d) \/ To(d) <= From(c)
        BY <1>1, <3>1 DEF IInv, NoOverlap
      <4>2. To(d) <= From(c)
        BY <1>1, <1>2, <1>3, <1>4, <4>1
      <4>3. ~(From(c) < From(d))
        BY <1>2, <1>4, <4>2
      <4>4. QED
        BY <4>3 DEF Previous
    <3>3. version'[c] = version[c]
      BY <1>4, <3>1, <3>2 DEF ArchiveVersion
    <3>4. QED
      BY <1>3, <1>4, <3>3 DEF Active, From, To
  <2>4. QED
    BY <2>2, <2>3
<1>11. QED
  BY <1>1, <1>9, <1>10, Reconnected

\* Publishing a window that lies in the future changes nothing up to now.
LEMMA PublishKeepsPast ==
    ASSUME IInv, NEW d \in Draft, NEW w \in Window, version[d].status = "NONE",
           w.from > now, Publish(d, w), NEW t \in Instant, t <= now
    PROVE  InForce(t)' = InForce(t)
<1>1. /\ w.from \in Nat /\ t \in Nat /\ now \in Nat
  BY WindowBounds, RulesAssumption DEF Instant, IInv, RulesTypeOK
<1>2. ASSUME NEW e \in Draft
      PROVE  /\ version'[e].status = "ACTIVE"
                /\ version'[e].window.from <= t /\ t < version'[e].window.to
             <=> /\ version[e].status = "ACTIVE"
                 /\ version[e].window.from <= t /\ t < version[e].window.to
  <2>1. CASE e = d
    <3>1. version'[e] = [status |-> "ACTIVE", window |-> w]
      BY <2>1 DEF Publish
    <3>2. ~(w.from <= t)
      BY <1>1
    <3>3. QED
      BY <2>1, <3>1, <3>2
  <2>2. CASE e # d /\ e \in Previous(w.from) /\ To(e) > w.from
    <3>1. version'[e] = [status |-> "ACTIVE", window |-> [from |-> From(e), to |-> w.from]]
      BY <2>2 DEF Publish
    <3>2. e \in Active
      BY <2>2 DEF Previous
    <3>3. To(e) \in Nat /\ t < w.from /\ t < To(e)
      BY <1>1, <2>2, <3>2, ActiveBounds
    <3>4. QED
      BY <3>1, <3>2, <3>3 DEF Active, From, To
  <2>3. CASE e # d /\ ~(e \in Previous(w.from) /\ To(e) > w.from)
    BY <2>3 DEF Publish
  <2>4. QED
    BY <2>1, <2>2, <2>3
<1>3. QED
  BY <1>2 DEF InForce, Active, Covers, From, To

\* Each step, for the three action properties.
LEMMA SoundStep ==
    ASSUME IInv, [RulesNext]_rulesVars
    PROVE  /\ \A m \in Manager : PublishDraft(m) =>
                /\ version'[view[m].draft].window = view[m].window
                /\ version[view[m].draft].status = "NONE"
           /\ (\E d \in Draft : Published(d)) =>
                \A t \in Instant : t <= now => InForce(t)' = InForce(t)
<1>1. ASSUME NEW m \in Manager, PublishDraft(m)
      PROVE  /\ view[m].draft \in Draft
             /\ version'[view[m].draft].window = view[m].window
             /\ version[view[m].draft].status = "NONE"
             /\ draft[view[m].draft].window.from > now
             /\ draft[view[m].draft].window \in Window
             /\ Publish(view[m].draft, draft[view[m].draft].window)
  <2>1. view[m].draft \in Draft
    BY <1>1, ViewOfDraft DEF PublishDraft
  <2>2. version[view[m].draft].status = "NONE"
    BY <1>1, <2>1 DEF PublishDraft, IInv, FromPublished
  <2>3. /\ draft[view[m].draft].window = view[m].window
        /\ Acceptable(draft[view[m].draft].window)
        /\ Publish(view[m].draft, draft[view[m].draft].window)
    BY <1>1 DEF PublishDraft, SameContent
  <2>4. version'[view[m].draft].window = view[m].window
    BY <2>1, <2>3 DEF Publish
  <2>5. QED
    BY <2>1, <2>2, <2>3, <2>4 DEF Acceptable
<1>2. ASSUME NEW d \in Draft, Published(d)
      PROVE  \A t \in Instant : t <= now => InForce(t)' = InForce(t)
  <2>1. ASSUME NEW m \in Manager, PublishDraft(m)
        PROVE  \A t \in Instant : t <= now => InForce(t)' = InForce(t)
    BY <1>1, <2>1, PublishKeepsPast
  <2>2. ASSUME NEW e \in Draft, NEW w \in Window, CreateVersion(e, w)
        PROVE  \A t \in Instant : t <= now => InForce(t)' = InForce(t)
    <3>1. version[e].status = "NONE"
      BY <2>2 DEF CreateVersion, IInv, FromPublished
    <3>2. w.from > now /\ Publish(e, w)
      BY <2>2 DEF CreateVersion, Acceptable
    <3>3. QED
      BY <3>1, <3>2, PublishKeepsPast
  <2>3. ASSUME NEW e \in Draft, ArchiveVersion(e) PROVE FALSE
    BY <1>2, <2>3 DEF Published, ArchiveVersion, Previous, Active
  <2>4. version' # version
    BY <1>2 DEF Published
  <2>5. QED
    BY <2>1, <2>2, <2>3, <2>4
    DEF RulesNext, CreateDraft, Read, UpdateDraft, ArchiveDraft, Refer, ClockTicks, rulesVars
<1>3. QED
  BY <1>1, <1>2

\* A manager publishes what he has read or nothing, no publication reaches into
\* the past, and no archival leaves an instant without a rule that had one.
THEOREM RulesAreSound == RulesSpec => RulesChangeSoundly
<1>1. IInv /\ [RulesNext]_rulesVars =>
        [\A m \in Manager : PublishDraft(m) =>
          /\ version'[view[m].draft].window = view[m].window
          /\ version[view[m].draft].status = "NONE"]_rulesVars
  BY SoundStep
<1>2. IInv /\ [RulesNext]_rulesVars =>
        [(\E d \in Draft : Published(d)) =>
         \A t \in Instant : t <= now => InForce(t)' = InForce(t)]_rulesVars
  BY SoundStep
<1>3. IInv =>
        [\A d \in Draft, t \in Instant :
          ArchiveVersion(d) /\ Previous(From(d)) # {} /\ t >= From(d) /\ InForce(t) # {}
          => \E e \in Draft : /\ version'[e].status = "ACTIVE"
                              /\ version'[e].window.from <= t
                              /\ t < version'[e].window.to]_rulesVars
  BY ArchiveCovers
<1>4. RulesSpec => PublishedAsRead
  BY Invariance, <1>1, PTL DEF RulesSpec, PublishedAsRead
<1>5. RulesSpec => PublicationIsProspective
  BY Invariance, <1>2, PTL DEF RulesSpec, PublicationIsProspective
<1>6. RulesSpec => ArchiveLeavesNoGap
  BY Invariance, <1>3, PTL DEF RulesSpec, ArchiveLeavesNoGap
<1>7. QED
  BY <1>4, <1>5, <1>6 DEF RulesChangeSoundly
=============================================================================
