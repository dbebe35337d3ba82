--------------------------- MODULE ContentProofs ----------------------------
(***************************************************************************)
(* Theorems about four components that serve content and share no state:   *)
(* the recurring announcements (AnnouncementSeries), the versions of a     *)
(* service flow (FlowPublishing), the sessions on one (FlowSession) and the*)
(* scripts, their revisions and suggestions (ScriptLibrary).  Each has an  *)
(* inductive invariant, lemmas that its actions preserve it, and theorems  *)
(* of its specification.                                                   *)
(***************************************************************************)
EXTENDS AnnouncementSeries, FlowPublishing, FlowSession, ScriptLibrary, FiniteSetTheorems,
        TLAPS

-----------------------------------------------------------------------------
(* Recurring announcements: types, agreement, publication, cancellation.   *)

\* The statuses of an occurrence that may still be seen, or is.
Live == Pending \cup {"PUBLISHED"}

\* A row agrees with its announcement, belongs to a version, and was published
\* at most once, and not yet while its announcement is scheduled.
RowOK(o) ==
    /\ occ[o].status # "ABSENT" => o.version \in DOMAIN version
    /\ Agree(o)
    /\ announced[o] <= 1
    /\ notice[o] \in {"ABSENT", "SCHEDULED"} => announced[o] = 0

\* What a run remembers: it expires only what its `now' is past, and the claim it
\* publishes under is older than the expiry.
RunOK(r) ==
    /\ \A x \in todo[r] : x.id.version \in DOMAIN version
    /\ pc[r] \in {"expire", "expiring"} =>
          \A x \in todo[r] : ExpiresAt(x.id) <= at[r] /\ x.seen.status \in Live
    /\ pc[r] = "publishing" =>
          /\ cur[r] \in Occurrence
          /\ cur[r].version \in DOMAIN version
          /\ claim[r] < ExpiresAt(cur[r])
    /\ pc[r] = "expiring" => cur[r] \in Occurrence

\* A request to cancel is about a row that exists.
SeriesRequestOK(m) ==
    request[m].kind = "cancel" => occ[request[m].id].status # "ABSENT"

\* The inductive invariant of the series.
SeriesIInv ==
    /\ TypeOK
    /\ \A o \in Occurrence : RowOK(o)
    /\ \A r \in Runner : RunOK(r)
    /\ \A m \in Manager : SeriesRequestOK(m)

-----------------------------------------------------------------------------

\* The times of an occurrence are times.
LEMMA Times ==
    ASSUME TypeOK, NEW o \in Occurrence, o.version \in DOMAIN version
    PROVE  ScheduledFor(o) \in Int /\ ExpiresAt(o) \in Int
<1>1. version[o.version] \in VersionInput
  BY DEF TypeOK
<1>2. version[o.version].hour \in Nat
  BY <1>1, SeriesAssumption DEF SeriesAssumption
<1>3. o.date \in Nat /\ DayTicks \in Nat /\ Duration \in Nat
  BY SeriesAssumption DEF SeriesAssumption, Occurrence
<1>4. o.date * DayTicks \in Int
  BY <1>3
<1> QED
  BY <1>2, <1>3, <1>4 DEF ScheduledFor, ExpiresAt

\* What a request holds, by its kind.
LEMMA SeriesRequests ==
    ASSUME TypeOK, NEW m \in Manager
    PROVE  /\ request[m].kind = "version" => request[m].input \in VersionInput
           /\ request[m].kind = "cancel" => request[m].id \in Occurrence
<1>1. request[m] \in Request
  BY DEF TypeOK
<1>2. CASE request[m] = NoRequest
  BY <1>2 DEF NoRequest
<1>3. CASE request[m] \in [kind : {"version"}, input : VersionInput, number : 1..MaxVersions]
  BY <1>3
<1>4. CASE request[m] \in [kind : {"archive"}]
  BY <1>4
<1>5. CASE request[m] \in [kind : {"cancel"}, id : Occurrence]
  BY <1>5
<1> QED
  BY <1>1, <1>2, <1>3, <1>4, <1>5 DEF Request

\* Types, from here to SeriesNextType: at first,
LEMMA SeriesInitType == Init => TypeOK
<1> SUFFICES ASSUME Init PROVE TypeOK
  OBVIOUS
<1>1. version \in Seq(VersionInput) /\ Len(version) = 1
  <2>1. PICK i \in VersionInput : version = <<i>>
    BY DEF Init
  <2> QED
    BY <2>1
<1>2. NoRow \in Row
  BY DEF NoRow, Row, Status
<1>3. occ \in [Occurrence -> Row]
  BY <1>2 DEF Init
<1>4. request \in [Manager -> Request]
  BY DEF Init, Request
<1> QED
  BY <1>1, <1>3, <1>4, SeriesAssumption DEF Init, TypeOK, SeriesAssumption

\* a request is read,
LEMMA ReadType ==
    ASSUME TypeOK, NEW m \in Manager, NEW q \in Request, Read(m, q)
    PROVE  TypeOK'
  BY DEF Read, TypeOK, table, run

\* occurrences are withdrawn,
LEMMA WithdrawType ==
    ASSUME TypeOK, NEW X \in SUBSET Occurrence, Withdraw(X)
    PROVE  /\ occ' \in [Occurrence -> Row]
           /\ notice' \in [Occurrence -> {"ABSENT", "SCHEDULED", "PUBLISHED", "ARCHIVED", "EXPIRED"}]
<1>1. \A o \in Occurrence : [status |-> "CANCELLED", last |-> occ[o].last] \in Row
  BY DEF TypeOK, Row, Status
<1> QED
  BY <1>1 DEF TypeOK, Withdraw, Withdrawn, Archived

\* a manager acts,
LEMMA ManagerType ==
    ASSUME TypeOK, NEW m \in Manager, Manage(m) \/ Settle(m)
    PROVE  TypeOK'
<1>1. ASSUME NEW i \in VersionInput, AskVersion(m, i) PROVE TypeOK'
  <2>1. Len(version) + 1 \in 1..MaxVersions
    BY <1>1, SeriesAssumption DEF AskVersion, TypeOK, SeriesAssumption
  <2>2. [kind |-> "version", input |-> i, number |-> Len(version) + 1] \in Request
    BY <2>1 DEF Request
  <2> QED
    BY <1>1, <2>2, ReadType DEF AskVersion
<1>2. CASE AskArchive(m)
  <2>1. [kind |-> "archive"] \in Request
    BY DEF Request
  <2> QED
    BY <1>2, <2>1, ReadType DEF AskArchive
<1>3. ASSUME NEW o \in Occurrence, AskCancel(m, o) PROVE TypeOK'
  <2>1. [kind |-> "cancel", id |-> o] \in Request
    BY DEF Request
  <2> QED
    BY <1>3, <2>1, ReadType DEF AskCancel
<1>4. ASSUME Done(m) PROVE request' \in [Manager -> Request]
  BY <1>4 DEF Done, TypeOK, Request
<1>5. CASE CreateVersion(m)
  <2>1. request[m].input \in VersionInput
    BY <1>5, SeriesRequests DEF CreateVersion
  <2>2. request[m].number \in 1..MaxVersions
    <3>1. request[m] \in Request
      BY DEF TypeOK
    <3>2. CASE request[m] \in [kind : {"version"}, input : VersionInput, number : 1..MaxVersions]
      BY <3>2
    <3> QED
      BY <1>5, <3>1, <3>2 DEF CreateVersion, Request, NoRequest
  <2>3. version' \in Seq(VersionInput) /\ Len(version') \in 1..MaxVersions
    BY <1>5, <2>1, <2>2 DEF CreateVersion, TypeOK
  <2>4. PendingFrom(request[m].input.from) \in SUBSET Occurrence
    BY DEF PendingFrom
  <2> QED
    BY <1>4, <1>5, <2>3, <2>4, WithdrawType DEF CreateVersion, Done, TypeOK, run
<1>6. CASE ArchiveSeries(m)
  <2>1. PendingFrom(0) \in SUBSET Occurrence
    BY DEF PendingFrom
  <2> QED
    BY <1>4, <1>6, <2>1, WithdrawType DEF ArchiveSeries, Done, TypeOK, run
<1>7. CASE CancelOccurrence(m)
  <2>1. {request[m].id} \in SUBSET Occurrence
    BY <1>7, SeriesRequests DEF CancelOccurrence
  <2> QED
    BY <1>4, <1>7, <2>1, WithdrawType DEF CancelOccurrence, Done, TypeOK, run
<1>8. CASE Dismiss(m)
  BY <1>4, <1>8 DEF Dismiss, Done, TypeOK, table, run
<1> QED
  BY <1>1, <1>2, <1>3, <1>5, <1>6, <1>7, <1>8 DEF Manage, Settle

\* a run lists occurrences to visit,
LEMMA CandidateVisits ==
    ASSUME NEW X \in SUBSET Occurrence
    PROVE  Ids(X) \in SUBSET Visit
<1>1. NoRow \in Row
  BY DEF NoRow, Row, Status
<1> QED
  BY <1>1 DEF Ids, Visit

\* a run ends, or dies,
LEMMA StopType ==
    ASSUME TypeOK, NEW r \in Runner, Stop(r)
    PROVE  /\ pc' \in [Runner -> {"idle", "create", "expire", "expiring", "select",
                                  "publish", "publishing"}]
           /\ at' \in [Runner -> 0..MaxTime]
           /\ publishes' \in [Runner -> BOOLEAN]
           /\ todo' \in [Runner -> SUBSET Visit]
           /\ cur' \in [Runner -> Occurrence \cup {Nobody}]
           /\ claim' \in [Runner -> Int]
<1>1. 0 \in 0..MaxTime /\ -1 \in Int
  BY SeriesAssumption DEF SeriesAssumption
<1> QED
  BY <1>1 DEF TypeOK, Stop, Goto, Released, Claimed

\* a run starts,
LEMMA StartType ==
    ASSUME TypeOK, NEW r \in Runner, NEW first, NEW last, NEW publish \in BOOLEAN,
           Start(r, first, last, publish), requests' \in 0..MaxRequests
    PROVE  TypeOK'
<1>1. Candidates(first, last) \in SUBSET Occurrence
  BY DEF Candidates
<1>2. (IF series = "ACTIVE" THEN Ids(Candidates(first, last)) ELSE {}) \in SUBSET Visit
  BY <1>1, CandidateVisits
<1> QED
  BY <1>2 DEF TypeOK, Start, Goto, table

\* A step of a run that keeps the clock, the requests and the counters, writes
\* well-typed rows and goes to a place with fewer visits.
LEMMA WriteType ==
    ASSUME TypeOK, NEW r \in Runner, NEW o \in Occurrence, NEW row \in Row,
           NEW place \in {"idle", "create", "expire", "expiring", "select", "publish",
                          "publishing"},
           NEW rest \in SUBSET Visit,
           occ' = occ \/ occ' = [occ EXCEPT ![o] = row],
           notice' = notice \/ \E n \in {"SCHEDULED", "PUBLISHED", "EXPIRED"} :
                                  notice' = [notice EXCEPT ![o] = n],
           announced' = announced \/ announced' = [announced EXCEPT ![o] = @ + 1],
           Goto(r, place, rest),
           \/ UNCHANGED <<cur, claim>>
           \/ \E p \in Occurrence \cup {Nobody}, t \in Int : Claimed(r, p, t),
           UNCHANGED <<series, version, at, publishes>>,
           Unchanged(r)
    PROVE  TypeOK'
<1>1. occ' \in [Occurrence -> Row]
  BY DEF TypeOK
<1>2. notice' \in [Occurrence -> {"ABSENT", "SCHEDULED", "PUBLISHED", "ARCHIVED", "EXPIRED"}]
  BY DEF TypeOK
<1>3. announced' \in [Occurrence -> Nat]
  BY SMTT(30) DEF TypeOK
<1>4. /\ pc' \in [Runner -> {"idle", "create", "expire", "expiring", "select",
                              "publish", "publishing"}]
      /\ todo' \in [Runner -> SUBSET Visit]
  BY DEF TypeOK, Goto
<1>5. cur' \in [Runner -> Occurrence \cup {Nobody}] /\ claim' \in [Runner -> Int]
  <2>1. CASE UNCHANGED <<cur, claim>>
    BY <2>1 DEF TypeOK
  <2>2. CASE \E p \in Occurrence \cup {Nobody}, t \in Int : Claimed(r, p, t)
    <3>1. PICK p \in Occurrence \cup {Nobody}, t \in Int : Claimed(r, p, t)
      BY <2>2
    <3> QED
      BY <3>1 DEF TypeOK, Claimed
  <2> QED
    BY <2>1, <2>2
<1> QED
  BY <1>1, <1>2, <1>3, <1>4, <1>5 DEF TypeOK, Unchanged

\* a run goes on,
LEMMA WorkType ==
    ASSUME TypeOK, NEW r \in Runner, RunOK(r), Work(r)
    PROVE  TypeOK'
<1>1. \A x \in todo[r] : x.id \in Occurrence /\ x.seen \in Row /\ todo[r] \ {x} \in SUBSET Visit
  BY DEF TypeOK, Visit
<1>2. at[r] \in Int /\ -1 \in Int /\ todo[r] \in SUBSET Visit /\ {} \in SUBSET Visit
  BY DEF TypeOK
<1>3. \A t \in Int : [status |-> "PROCESSING", last |-> t] \in Row
                    /\ [status |-> "SCHEDULED", last |-> t] \in Row
                    /\ [status |-> "FAILED", last |-> t] \in Row
                    /\ [status |-> "PUBLISHED", last |-> t] \in Row
                    /\ [status |-> "EXPIRED", last |-> t] \in Row
  BY DEF Row, Status
<1>4. \A o \in Occurrence : occ[o].last \in Int
  BY DEF TypeOK, Row
<1>5. ASSUME NEW x \in todo[r], Create(r, x) PROVE TypeOK'
  <2>1. CASE Creatable(x.id)
    <3>1. [status |-> "SCHEDULED", last |-> -1] \in Row
      BY DEF Row, Status
    <3>2. occ' = [occ EXCEPT ![x.id] = [status |-> "SCHEDULED", last |-> -1]]
      BY <1>5, <2>1 DEF Create
    <3>3. notice' = [notice EXCEPT ![x.id] = "SCHEDULED"]
      BY <1>5, <2>1 DEF Create
    <3>4. /\ Goto(r, "create", todo[r] \ {x})
          /\ UNCHANGED <<series, version, at, publishes, cur, claim, announced>>
          /\ Unchanged(r)
      BY <1>5 DEF Create
    <3>5. x.id \in Occurrence /\ todo[r] \ {x} \in SUBSET Visit
      BY <1>1
    <3> QED
      BY <3>1, <3>2, <3>3, <3>4, <3>5, WriteType
  <2>2. CASE ~Creatable(x.id)
    BY <1>1, <1>2, <1>3, <1>5, <2>2, WriteType DEF Create
  <2> QED
    BY <2>1, <2>2
<1>6. ASSUME NEW x \in todo[r], Throw(r, x) PROVE TypeOK'
  BY <1>6, StopType DEF Throw, TypeOK, Unchanged, table
<1>7. ASSUME NEW x \in todo[r], ClaimElapsed(r, x) PROVE TypeOK'
  <2>1. ClaimTime(r, x) \in Int
    BY <1>1, <1>2 DEF ClaimTime, Row
  <2>2. CASE occ[x.id] = x.seen
    BY <1>1, <1>2, <1>3, <1>7, <2>1, <2>2, WriteType DEF ClaimElapsed
  <2>3. CASE occ[x.id] # x.seen
    BY <1>1, <1>2, <1>3, <1>7, <2>3, WriteType DEF ClaimElapsed
  <2> QED
    BY <2>2, <2>3
<1>8. ASSUME NEW x \in todo[r], ClaimDue(r, x) PROVE TypeOK'
  <2>1. CASE IsPublishable(x.id, at[r])
    BY <1>1, <1>2, <1>3, <1>8, <2>1, WriteType DEF ClaimDue
  <2>2. CASE ~IsPublishable(x.id, at[r])
    BY <1>1, <1>2, <1>3, <1>8, <2>2, WriteType DEF ClaimDue
  <2> QED
    BY <2>1, <2>2
<1>9. CASE FindElapsed(r)
  <2>1. \A o \in Occurrence : [id |-> o, seen |-> occ[o]] \in Visit
    BY DEF Visit, TypeOK
  <2>2. {[id |-> o, seen |-> occ[o]] :
           o \in {p \in Occurrence : IsElapsed(p) /\ ExpiresAt(p) <= at[r]}} \in SUBSET Visit
    BY <2>1
  <2> QED
    BY <1>9, <2>2 DEF FindElapsed, Goto, TypeOK, table, Unchanged
<1>10. CASE Recover(r)
  <2>1. occ' \in [Occurrence -> Row]
    BY <1>3, <1>4, <1>10 DEF Recover, TypeOK
  <2> QED
    BY <1>10, <2>1 DEF Recover, Goto, TypeOK, Unchanged
<1>11. CASE FindDue(r)
  <2>1. {o \in Occurrence : IsPublishable(o, at[r])} \in SUBSET Occurrence
    OBVIOUS
  <2> QED
    BY <1>11, <2>1, CandidateVisits DEF FindDue, Goto, TypeOK, table, Unchanged
<1>12. CASE EndRun(r)
  BY <1>12, StopType DEF EndRun, TypeOK, table, Unchanged
<1>13. CASE pc[r] = "expiring" /\ Expire(r)
  <2>1. cur[r] \in Occurrence
    BY <1>13 DEF RunOK
  <2>2. Nobody \in Occurrence \cup {Nobody}
    OBVIOUS
  <2>3. Claimed(r, Nobody, -1)
    BY <1>13 DEF Expire, Released
  <2>4. [status |-> "EXPIRED", last |-> occ[cur[r]].last] \in Row
    BY <1>3, <1>4, <2>1
  <2>5. CASE Holds(r)
    <3>1. occ' = [occ EXCEPT ![cur[r]] = [status |-> "EXPIRED", last |-> occ[cur[r]].last]]
      BY <1>13, <2>1, <2>5 DEF Expire, TypeOK
    <3>2. notice' = [notice EXCEPT ![cur[r]] = "EXPIRED"]
      BY <1>13, <2>5 DEF Expire
    <3> QED
      BY <1>2, <1>13, <2>1, <2>2, <2>3, <2>4, <3>1, <3>2, WriteType, ZenonT(60) DEF Expire
  <2>6. CASE ~Holds(r)
    BY <1>2, <1>13, <2>1, <2>2, <2>3, <2>4, <2>6, WriteType DEF Expire
  <2> QED
    BY <2>5, <2>6
<1>14. CASE Publish(r)
  <2>1. cur[r] \in Occurrence
    BY <1>14 DEF RunOK, Publish
  <2>2. Nobody \in Occurrence \cup {Nobody}
    OBVIOUS
  <2>3. Claimed(r, Nobody, -1)
    BY <1>14 DEF Publish, Released
  <2>4. [status |-> "PUBLISHED", last |-> occ[cur[r]].last] \in Row
    BY <1>3, <1>4, <2>1
  <2>5. CASE Holds(r)
    <3>1. occ' = [occ EXCEPT ![cur[r]] = [status |-> "PUBLISHED", last |-> occ[cur[r]].last]]
      BY <1>14, <2>1, <2>5 DEF Publish, TypeOK
    <3>2. notice' = [notice EXCEPT ![cur[r]] = "PUBLISHED"]
      BY <1>14, <2>5 DEF Publish
    <3>3. announced' = [announced EXCEPT ![cur[r]] = @ + 1]
      BY <1>14, <2>5 DEF Publish
    <3> QED
      BY <1>2, <1>14, <2>1, <2>2, <2>3, <2>4, <3>1, <3>2, <3>3, WriteType, ZenonT(60) DEF Publish
  <2>6. CASE ~Holds(r)
    BY <1>2, <1>14, <2>1, <2>2, <2>3, <2>4, <2>6, WriteType DEF Publish
  <2> QED
    BY <2>5, <2>6
<1>15. CASE FailPublication(r)
  <2>1. cur[r] \in Occurrence
    BY <1>15 DEF RunOK, FailPublication
  <2>2. Nobody \in Occurrence \cup {Nobody}
    OBVIOUS
  <2>3. Claimed(r, Nobody, -1)
    BY <1>15 DEF FailPublication, Released
  <2>4. [status |-> "FAILED", last |-> occ[cur[r]].last] \in Row
    BY <1>3, <1>4, <2>1
  <2>5. \/ occ' = occ
        \/ occ' = [occ EXCEPT ![cur[r]] = [status |-> "FAILED", last |-> occ[cur[r]].last]]
    BY <1>15, <2>1 DEF FailPublication, TypeOK
  <2> QED
    BY <1>2, <1>15, <2>1, <2>2, <2>3, <2>4, <2>5, WriteType, ZenonT(60) DEF FailPublication
<1> QED
  BY <1>5, <1>6, <1>7, <1>8, <1>9, <1>10, <1>11, <1>12, <1>13, <1>14, <1>15 DEF Work, Expire

\* and whatever happens.
LEMMA SeriesNextType ==
    ASSUME TypeOK, \A r \in Runner : RunOK(r), [Next]_vars
    PROVE  TypeOK'
<1>1. ASSUME NEW r \in Runner, StartRun(r) PROVE TypeOK'
  <2>1. requests' \in 0..MaxRequests
    BY <1>1 DEF StartRun, TypeOK
  <2> QED
    BY <1>1, <2>1, StartType DEF StartRun
<1>2. ASSUME NEW r \in Runner, StartRequest(r) PROVE TypeOK'
  <2>1. requests' \in 0..MaxRequests
    BY <1>2, SeriesAssumption DEF StartRequest, TypeOK, SeriesAssumption
  <2>2. PICK first \in Date, last \in Date, publish \in BOOLEAN : Start(r, first, last, publish)
    BY <1>2 DEF StartRequest
  <2> QED
    BY <2>1, <2>2, StartType
<1>3. ASSUME NEW r \in Runner, Crash(r) PROVE TypeOK'
  <2>1. crashes' \in 0..MaxCrashes
    BY <1>3, SeriesAssumption DEF Crash, TypeOK, SeriesAssumption
  <2> QED
    BY <1>3, <2>1, StopType DEF Crash, TypeOK, table
<1>4. CASE Tick
  BY <1>4, SeriesAssumption DEF Tick, TypeOK, table, run, SeriesAssumption
<1>5. CASE UNCHANGED vars
  BY <1>5 DEF vars, TypeOK
<1> QED
  BY <1>1, <1>2, <1>3, <1>4, <1>5, ManagerType, WorkType DEF Next

-----------------------------------------------------------------------------
(* The rows.  Versions are only ever appended, so dates stay what they were. *)

\* Versions are added, and none is rewritten.
VersionsGrow ==
    \A v \in DOMAIN version : v \in DOMAIN version' /\ version'[v] = version[v]

\* No step rewrites a version.
LEMMA VersionsStay ==
    ASSUME TypeOK, [Next]_vars
    PROVE  VersionsGrow
<1>1. CASE version' = version
  BY <1>1 DEF VersionsGrow
<1>2. ASSUME NEW i, version' = Append(version, i) PROVE VersionsGrow
  BY <1>2 DEF VersionsGrow, TypeOK
<1>3. ASSUME NEW m \in Manager, Manage(m) PROVE version' = version
  BY <1>3 DEF Manage, AskVersion, AskArchive, AskCancel, Read, table
<1>4. ASSUME NEW m \in Manager, Settle(m)
      PROVE  version' = version \/ version' = Append(version, request[m].input)
  BY <1>4 DEF Settle, CreateVersion, ArchiveSeries, CancelOccurrence, Dismiss, table
<1>5. ASSUME NEW r \in Runner, StartRun(r) \/ StartRequest(r) \/ Crash(r)
      PROVE  version' = version
  BY <1>5 DEF StartRun, StartRequest, Start, Crash, table
<1>6. ASSUME NEW r \in Runner, Work(r) PROVE version' = version
  BY <1>6 DEF Work, Create, Throw, ClaimElapsed, ClaimDue, FindElapsed, Expire, Recover,
     FindDue, Publish, FailPublication, EndRun, table
<1> QED
  BY <1>1, <1>2, <1>3, <1>4, <1>5, <1>6 DEF Next, vars, Tick, table

\* So an occurrence keeps its expiry,
LEMMA DatesStay ==
    ASSUME VersionsGrow, NEW o \in Occurrence, o.version \in DOMAIN version
    PROVE  o.version \in DOMAIN version' /\ ExpiresAt(o)' = ExpiresAt(o)
  BY DEF VersionsGrow, ExpiresAt, ScheduledFor

\* and a row nobody touches stays as it should be.
LEMMA RowStays ==
    ASSUME NEW o \in Occurrence, RowOK(o), VersionsGrow,
           occ'[o] = occ[o], notice'[o] = notice[o], announced'[o] = announced[o]
    PROVE  RowOK(o)'
<1>1. occ[o].status = "ABSENT" \/ ExpiresAt(o)' = ExpiresAt(o)
  BY DatesStay DEF RowOK
<1>2. Agree(o)'
  BY <1>1 DEF Agree, RowOK
<1> QED
  BY <1>2, DatesStay DEF RowOK

\* Rows that a manager cancels.
LEMMA WithdrawnOK ==
    ASSUME TypeOK, VersionsGrow, NEW X \in SUBSET Occurrence, Withdraw(X),
           UNCHANGED announced,
           \A o \in X : occ[o].status # "ABSENT",
           NEW o \in Occurrence, RowOK(o)
    PROVE  RowOK(o)'
<1>1. CASE o \in X
  <2>1. occ'[o].status = "CANCELLED" /\ notice'[o] = "ARCHIVED"
    BY <1>1 DEF Withdraw, Withdrawn, Archived
  <2>2. o.version \in DOMAIN version'
    BY <1>1, DatesStay DEF RowOK
  <2> QED
    BY <2>1, <2>2 DEF RowOK, Agree
<1>2. CASE o \notin X
  <2>1. occ'[o] = occ[o] /\ notice'[o] = notice[o]
    BY <1>2 DEF Withdraw, Withdrawn, Archived
  <2> QED
    BY <2>1, RowStays
<1> QED
  BY <1>1, <1>2

\* Rows under the actions of managers,
LEMMA RowsOfManagers ==
    ASSUME SeriesIInv, VersionsGrow, NEW m \in Manager, Manage(m) \/ Settle(m), NEW o \in Occurrence
    PROVE  RowOK(o)'
<1>1. RowOK(o)
  BY DEF SeriesIInv
<1>2. CASE Manage(m)
  <2>1. occ' = occ /\ notice' = notice /\ announced' = announced
    BY <1>2 DEF Manage, AskVersion, AskArchive, AskCancel, Read, table
  <2> QED
    BY <1>1, <2>1, RowStays
<1>3. \A d : /\ PendingFrom(d) \in SUBSET Occurrence
             /\ \A p \in PendingFrom(d) : occ[p].status # "ABSENT"
  BY DEF PendingFrom, Pending
<1>4. CASE CreateVersion(m)
  BY <1>1, <1>3, <1>4, WithdrawnOK DEF CreateVersion, Done, SeriesIInv
<1>5. CASE ArchiveSeries(m)
  BY <1>1, <1>3, <1>5, WithdrawnOK DEF ArchiveSeries, Done, SeriesIInv
<1>6. CASE CancelOccurrence(m)
  <2>1. request[m].id \in Occurrence /\ occ[request[m].id].status # "ABSENT"
    BY <1>6, SeriesRequests DEF CancelOccurrence, SeriesIInv, SeriesRequestOK
  <2>2. {request[m].id} \in SUBSET Occurrence
    BY <2>1
  <2>3. \A p \in {request[m].id} : occ[p].status # "ABSENT"
    BY <2>1
  <2> QED
    BY <1>1, <1>6, <2>2, <2>3, WithdrawnOK DEF CancelOccurrence, Done, SeriesIInv
<1>7. CASE Dismiss(m)
  BY <1>1, <1>7, RowStays DEF Dismiss, Done, table
<1> QED
  BY <1>2, <1>4, <1>5, <1>6, <1>7 DEF Settle

\* An expirer claims rows whose time is over: the only claim that may cover an
\* announcement that is out.
LEMMA RowsOfClaimElapsed ==
    ASSUME SeriesIInv, VersionsGrow, NEW r \in Runner, NEW x \in todo[r], ClaimElapsed(r, x),
           NEW o \in Occurrence
    PROVE  RowOK(o)'
<1>1. RowOK(o) /\ notice' = notice /\ announced' = announced
  BY DEF SeriesIInv, ClaimElapsed
<1>2. CASE occ[x.id] = x.seen /\ o = x.id
  <2>1. occ'[o] = [status |-> "PROCESSING", last |-> ClaimTime(r, x)]
    BY <1>2 DEF ClaimElapsed, SeriesIInv, TypeOK
  <2>2. x.seen.status \in Live /\ ExpiresAt(o) <= at[r]
    BY <1>2 DEF SeriesIInv, RunOK, ClaimElapsed
  <2>3. o.version \in DOMAIN version /\ (notice[o] = "SCHEDULED" \/ notice[o] = "PUBLISHED")
    BY <1>1, <1>2, <2>2 DEF RowOK, Agree, Live, Pending
  <2>4. x.seen.last \in Int /\ at[r] \in Int
    BY DEF SeriesIInv, TypeOK, Visit, Row
  <2>5. ClaimTime(r, x) >= at[r] /\ ClaimTime(r, x) \in Int
    BY <2>4 DEF ClaimTime
  <2>6. o.version \in DOMAIN version' /\ ExpiresAt(o)' = ExpiresAt(o) /\ ExpiresAt(o) \in Int
    BY <2>3, DatesStay, Times DEF SeriesIInv
  <2>7. occ'[o].last >= ExpiresAt(o)'
    BY <2>1, <2>2, <2>4, <2>5, <2>6
  <2>8. Agree(o)'
    BY <1>1, <2>1, <2>3, <2>7 DEF Agree
  <2> QED
    BY <1>1, <2>6, <2>8 DEF RowOK
<1>3. CASE occ'[o] = occ[o]
  BY <1>1, <1>3, RowStays
<1> QED
  BY <1>2, <1>3 DEF ClaimElapsed, SeriesIInv, TypeOK

\* A publisher that still holds its claim finds the announcement scheduled: an
\* expirer's claim would be later than the publisher's.
LEMMA HeldIsScheduled ==
    ASSUME SeriesIInv, NEW r \in Runner, pc[r] = "publishing", Holds(r)
    PROVE  /\ cur[r] \in Occurrence /\ cur[r].version \in DOMAIN version
           /\ notice[cur[r]] = "SCHEDULED" /\ announced[cur[r]] = 0
<1>1. cur[r] \in Occurrence /\ cur[r].version \in DOMAIN version /\ claim[r] < ExpiresAt(cur[r])
  BY DEF SeriesIInv, RunOK
<1>2. RowOK(cur[r])
  BY <1>1 DEF SeriesIInv
<1>3. claim[r] \in Int /\ ExpiresAt(cur[r]) \in Int
  BY <1>1, Times DEF SeriesIInv, TypeOK
<1>4. ~(occ[cur[r]].last >= ExpiresAt(cur[r]))
  BY <1>1, <1>3 DEF Holds
<1> QED
  BY <1>1, <1>2, <1>4 DEF RowOK, Agree, Holds

\* under a publication, or one that fails,
LEMMA RowsOfPublishers ==
    ASSUME SeriesIInv, VersionsGrow, NEW r \in Runner, Publish(r) \/ FailPublication(r),
           NEW o \in Occurrence
    PROVE  RowOK(o)'
<1>1. RowOK(o) /\ pc[r] = "publishing"
  BY DEF SeriesIInv, Publish, FailPublication
<1>2. CASE Holds(r) /\ o = cur[r] /\ Publish(r)
  <2>1. occ'[o].status = "PUBLISHED" /\ notice'[o] = "PUBLISHED" /\ announced'[o] = announced[o] + 1
    BY <1>2 DEF Publish, SeriesIInv, TypeOK
  <2>2. announced[o] = 0 /\ o.version \in DOMAIN version'
    BY <1>1, <1>2, HeldIsScheduled, DatesStay
  <2> QED
    BY <2>1, <2>2 DEF RowOK, Agree
<1>3. CASE Holds(r) /\ o = cur[r] /\ FailPublication(r)
  <2>1. occ'[o].status = "FAILED" /\ notice' = notice /\ announced' = announced
    BY <1>3 DEF FailPublication, SeriesIInv, TypeOK
  <2>2. announced[o] = 0 /\ notice[o] = "SCHEDULED" /\ o.version \in DOMAIN version'
    BY <1>1, <1>3, HeldIsScheduled, DatesStay
  <2> QED
    BY <2>1, <2>2 DEF RowOK, Agree
<1>4. CASE ~(Holds(r) /\ o = cur[r])
  <2>1. occ'[o] = occ[o] /\ notice'[o] = notice[o] /\ announced'[o] = announced[o]
    BY <1>4 DEF Publish, FailPublication, SeriesIInv, TypeOK
  <2> QED
    BY <1>1, <2>1, RowStays
<1> QED
  BY <1>2, <1>3, <1>4

\* under a run,
LEMMA RowsOfRuns ==
    ASSUME SeriesIInv, VersionsGrow, NEW r \in Runner, Work(r), NEW o \in Occurrence
    PROVE  RowOK(o)'
<1>1. RowOK(o) /\ TypeOK
  BY DEF SeriesIInv
<1>2. ASSUME NEW x \in todo[r], Create(r, x) PROVE RowOK(o)'
  <2>1. CASE Creatable(x.id) /\ o = x.id
    <3>1. occ'[o].status = "SCHEDULED" /\ notice'[o] = "SCHEDULED" /\ announced' = announced
      BY <1>1, <1>2, <2>1 DEF Create, TypeOK
    <3>2. o.version \in DOMAIN version'
      BY <1>2, <2>1, DatesStay DEF SeriesIInv, RunOK
    <3>3. announced[o] = 0
      BY <1>1, <2>1 DEF Creatable, NoRow, RowOK, Agree
    <3> QED
      BY <3>1, <3>2, <3>3 DEF RowOK, Agree
  <2>2. CASE ~(Creatable(x.id) /\ o = x.id)
    <3>1. occ'[o] = occ[o] /\ notice'[o] = notice[o] /\ announced'[o] = announced[o]
      BY <1>1, <1>2, <2>2 DEF Create, TypeOK
    <3> QED
      BY <1>1, <3>1, RowStays
  <2> QED
    BY <2>1, <2>2
<1>3. ASSUME NEW x \in todo[r], Throw(r, x) PROVE RowOK(o)'
  BY <1>1, <1>3, RowStays DEF Throw, table
<1>4. ASSUME NEW x \in todo[r], ClaimDue(r, x) PROVE RowOK(o)'
  <2>1. notice' = notice /\ announced' = announced
    BY <1>4 DEF ClaimDue
  <2>2. CASE IsPublishable(x.id, at[r]) /\ o = x.id
    <3>1. occ'[o].status = "PROCESSING"
      BY <1>1, <1>4, <2>2 DEF ClaimDue, TypeOK
    <3>2. notice[o] = "SCHEDULED" /\ o.version \in DOMAIN version'
      BY <1>1, <2>2, DatesStay DEF IsPublishable, RowOK, Agree
    <3> QED
      BY <1>1, <2>1, <3>1, <3>2 DEF RowOK, Agree
  <2>3. CASE ~(IsPublishable(x.id, at[r]) /\ o = x.id)
    <3>1. occ'[o] = occ[o]
      BY <1>1, <1>4, <2>3 DEF ClaimDue, TypeOK
    <3> QED
      BY <1>1, <2>1, <3>1, RowStays
  <2> QED
    BY <2>2, <2>3
<1>5. CASE FindElapsed(r) \/ FindDue(r) \/ EndRun(r)
  BY <1>1, <1>5, RowStays DEF FindElapsed, FindDue, EndRun, table
<1>6. CASE Expire(r)
  <2>1. CASE Holds(r) /\ o = cur[r]
    <3>1. occ'[o].status = "EXPIRED" /\ notice'[o] = "EXPIRED" /\ announced' = announced
      BY <1>1, <1>6, <2>1 DEF Expire, TypeOK
    <3>2. o.version \in DOMAIN version'
      BY <1>1, <2>1, DatesStay DEF Holds, RowOK
    <3> QED
      BY <1>1, <3>1, <3>2 DEF RowOK, Agree
  <2>2. CASE ~(Holds(r) /\ o = cur[r])
    <3>1. occ'[o] = occ[o] /\ notice'[o] = notice[o] /\ announced'[o] = announced[o]
      BY <1>1, <1>6, <2>2 DEF Expire, TypeOK
    <3> QED
      BY <1>1, <3>1, RowStays
  <2> QED
    BY <2>1, <2>2
<1>7. CASE Recover(r)
  <2>1. notice' = notice /\ announced' = announced
    BY <1>7 DEF Recover
  <2>2. CASE IsStale(o, at[r]) /\ IsDue(o, at[r])
    <3>1. occ'[o].status = "FAILED"
      BY <1>7, <2>2 DEF Recover
    <3>2. o.version \in DOMAIN version /\ o.version \in DOMAIN version'
      BY <1>1, <2>2, DatesStay DEF IsStale, RowOK
    <3>3. ExpiresAt(o) \in Int /\ at[r] \in Int /\ occ[o].last \in Int /\ StaleAfter \in Nat
      <4>1. ExpiresAt(o) \in Int
        BY <1>1, <3>2, Times
      <4>2. at[r] \in Int /\ occ[o].last \in Int
        BY <1>1 DEF TypeOK, Row
      <4> QED
        BY <4>1, <4>2, SeriesAssumption DEF SeriesAssumption
    <3>4. ~(occ[o].last >= ExpiresAt(o))
      BY <2>2, <3>3 DEF IsStale, IsDue
    <3>5. notice[o] = "SCHEDULED"
      BY <1>1, <2>2, <3>4 DEF IsStale, RowOK, Agree
    <3> QED
      BY <1>1, <2>1, <3>1, <3>2, <3>5 DEF RowOK, Agree
  <2>3. CASE ~(IsStale(o, at[r]) /\ IsDue(o, at[r]))
    <3>1. occ'[o] = occ[o]
      BY <1>7, <2>3 DEF Recover
    <3> QED
      BY <1>1, <2>1, <3>1, RowStays
  <2> QED
    BY <2>2, <2>3
<1> QED
  BY <1>2, <1>3, <1>4, <1>5, <1>6, <1>7, RowsOfClaimElapsed, RowsOfPublishers DEF Work

\* and under any step.
LEMMA RowsKept ==
    ASSUME SeriesIInv, [Next]_vars, NEW o \in Occurrence
    PROVE  RowOK(o)'
<1>1. RowOK(o) /\ VersionsGrow
  BY VersionsStay DEF SeriesIInv
<1>2. ASSUME NEW r \in Runner, StartRun(r) \/ StartRequest(r) \/ Crash(r) PROVE RowOK(o)'
  BY <1>1, <1>2, RowStays DEF StartRun, StartRequest, Start, Crash, table
<1>3. CASE Tick \/ UNCHANGED vars
  BY <1>1, <1>3, RowStays DEF Tick, vars, table
<1> QED
  BY <1>1, <1>2, <1>3, RowsOfManagers, RowsOfRuns DEF Next

-----------------------------------------------------------------------------
(* What runs and requests remember.                                          *)

\* A run that does not move stays as it should be.
LEMMA RunStays ==
    ASSUME TypeOK, VersionsGrow, NEW r \in Runner, RunOK(r),
           pc'[r] = pc[r], at'[r] = at[r], todo'[r] = todo[r], cur'[r] = cur[r],
           claim'[r] = claim[r]
    PROVE  RunOK(r)'
<1>1. \A x \in todo[r] : /\ x.id.version \in DOMAIN version'
                         /\ ExpiresAt(x.id)' = ExpiresAt(x.id)
  BY DatesStay DEF RunOK, TypeOK, Visit
<1>2. pc[r] = "publishing" => /\ cur[r].version \in DOMAIN version'
                              /\ ExpiresAt(cur[r])' = ExpiresAt(cur[r])
  BY DatesStay DEF RunOK
<1>3. \A x \in todo'[r] : x.id.version \in DOMAIN version'
  BY <1>1
<1>4. pc'[r] \in {"expire", "expiring"} =>
         \A x \in todo'[r] : ExpiresAt(x.id)' <= at'[r] /\ x.seen.status \in Live
  BY <1>1 DEF RunOK
<1>5. pc'[r] = "publishing" =>
         /\ cur'[r] \in Occurrence
         /\ cur'[r].version \in DOMAIN version'
         /\ claim'[r] < ExpiresAt(cur[r])'
  BY <1>2 DEF RunOK
<1>6. pc'[r] = "expiring" => cur'[r] \in Occurrence
  BY DEF RunOK
<1> QED
  BY <1>3, <1>4, <1>5, <1>6 DEF RunOK

\* A run's memory is its own.
LEMMA OthersStay ==
    ASSUME TypeOK, NEW r \in Runner, NEW s \in Runner \ {r},
           \/ Work(r) \/ StartRun(r) \/ StartRequest(r) \/ Crash(r)
    PROVE  /\ pc'[s] = pc[s] /\ at'[s] = at[s] /\ todo'[s] = todo[s]
           /\ cur'[s] = cur[s] /\ claim'[s] = claim[s]
<1>1. CASE Stop(r)
  BY <1>1 DEF Stop, Goto, Released, Claimed, TypeOK
<1>2. CASE StartRun(r) \/ StartRequest(r)
  BY <1>2 DEF StartRun, StartRequest, Start, Goto, TypeOK
<1>3. ASSUME NEW x \in todo[r], Create(r, x) \/ ClaimElapsed(r, x) \/ ClaimDue(r, x)
      PROVE  /\ pc'[s] = pc[s] /\ at'[s] = at[s] /\ todo'[s] = todo[s]
             /\ cur'[s] = cur[s] /\ claim'[s] = claim[s]
  BY <1>3 DEF Create, ClaimElapsed, ClaimDue, Goto, Claimed, TypeOK
<1>4. CASE \/ FindElapsed(r) \/ Recover(r) \/ FindDue(r)
           \/ Expire(r) \/ Publish(r) \/ FailPublication(r)
  BY <1>4 DEF FindElapsed, Recover, FindDue, Expire, Publish, FailPublication, Goto,
     Released, Claimed, TypeOK
<1> QED
  BY <1>1, <1>2, <1>3, <1>4 DEF Work, Throw, EndRun, Crash

\* A run that is over holds nothing.
LEMMA StoppedOK ==
    ASSUME TypeOK, NEW r \in Runner, Stop(r)
    PROVE  RunOK(r)'
  BY DEF Stop, Goto, TypeOK, RunOK

\* A run that is neither expiring nor publishing need only know its versions.
LEMMA IdleVisitsOK ==
    ASSUME TypeOK, NEW r \in Runner, NEW place \in {"create", "select", "publish"},
           NEW rest, Goto(r, place, rest),
           \A x \in rest : x.id.version \in DOMAIN version'
    PROVE  RunOK(r)'
<1>1. pc'[r] = place /\ todo'[r] = rest
  BY DEF Goto, TypeOK
<1> QED
  BY <1>1 DEF RunOK

\* A run that moves is as it should be after its step,
LEMMA OwnRunKept ==
    ASSUME SeriesIInv, NEW r \in Runner, Work(r)
    PROVE  RunOK(r)'
<1>1. TypeOK /\ RunOK(r)
  BY DEF SeriesIInv
<1>2. version' = version
  BY DEF Work, Create, Throw, ClaimElapsed, ClaimDue, FindElapsed, Expire, Recover,
     FindDue, Publish, FailPublication, EndRun, table
<1>3. \A o \in Occurrence : ExpiresAt(o)' = ExpiresAt(o)
  BY <1>2 DEF ExpiresAt, ScheduledFor
<1>4. \A x \in todo[r] : x.id \in Occurrence /\ x.id.version \in DOMAIN version
  BY <1>1 DEF TypeOK, Visit, RunOK
<1>5. ASSUME NEW x \in todo[r], Create(r, x) PROVE RunOK(r)'
  <2>1. Goto(r, "create", todo[r] \ {x})
    BY <1>5 DEF Create
  <2>2. \A y \in todo[r] \ {x} : y.id.version \in DOMAIN version'
    BY <1>2, <1>4
  <2> QED
    BY <1>1, <2>1, <2>2, IdleVisitsOK
<1>6. CASE Stop(r)
  BY <1>1, <1>6, StoppedOK
<1>7. ASSUME NEW x \in todo[r], ClaimElapsed(r, x) PROVE RunOK(r)'
  <2>1. /\ pc[r] = "expire" /\ pc'[r] \in {"expire", "expiring"}
        /\ todo'[r] = todo[r] \ {x} /\ at' = at
    BY <1>1, <1>7 DEF ClaimElapsed, Goto, TypeOK
  <2>2. pc'[r] = "expiring" => cur'[r] \in Occurrence
    BY <1>1, <1>4, <1>7 DEF ClaimElapsed, Goto, Claimed, TypeOK
  <2>3. \A y \in todo[r] : ExpiresAt(y.id) <= at[r] /\ y.seen.status \in Live
    BY <1>1, <2>1 DEF RunOK
  <2> QED
    BY <1>2, <1>3, <1>4, <2>1, <2>2, <2>3 DEF RunOK
<1>8. ASSUME NEW x \in todo[r], ClaimDue(r, x) PROVE RunOK(r)'
  <2>1. CASE ~IsPublishable(x.id, at[r])
    <3>1. Goto(r, "publish", todo[r] \ {x})
      BY <1>8, <2>1 DEF ClaimDue
    <3>2. \A y \in todo[r] \ {x} : y.id.version \in DOMAIN version'
      BY <1>2, <1>4
    <3> QED
      BY <1>1, <3>1, <3>2, IdleVisitsOK
  <2>2. CASE IsPublishable(x.id, at[r])
    <3>1. /\ pc'[r] = "publishing" /\ todo'[r] = todo[r] \ {x}
          /\ cur'[r] = x.id /\ claim'[r] = at[r]
      BY <1>1, <1>8, <2>2 DEF ClaimDue, Goto, Claimed, TypeOK
    <3>2. at[r] < ExpiresAt(x.id)
      BY <2>2 DEF IsPublishable, IsDue
    <3>3. claim'[r] < ExpiresAt(cur[r])'
      BY <1>2, <3>1, <3>2 DEF ExpiresAt, ScheduledFor
    <3> QED
      BY <1>2, <1>4, <3>1, <3>3 DEF RunOK
  <2> QED
    BY <2>1, <2>2
<1>9. CASE FindElapsed(r)
  <2> DEFINE X == {o \in Occurrence : IsElapsed(o) /\ ExpiresAt(o) <= at[r]}
  <2>1. pc'[r] = "expire" /\ todo'[r] = {[id |-> o, seen |-> occ[o]] : o \in X} /\ at' = at
    BY <1>1, <1>9 DEF FindElapsed, Goto, TypeOK
  <2>2. \A o \in X : occ[o].status \in Live /\ ExpiresAt(o) <= at[r]
    BY DEF IsElapsed, Live
  <2>3. \A o \in X : o.version \in DOMAIN version
    BY <2>2 DEF Live, Pending, SeriesIInv, RowOK
  <2>4. \A x \in todo'[r] : x.id \in X /\ x.seen = occ[x.id]
    BY <2>1
  <2>5. \A x \in todo'[r] : x.id.version \in DOMAIN version'
    BY <1>2, <2>3, <2>4
  <2>6. \A x \in todo'[r] : ExpiresAt(x.id)' <= at'[r] /\ x.seen.status \in Live
    BY <1>3, <2>1, <2>2, <2>4
  <2> QED
    BY <2>1, <2>5, <2>6 DEF RunOK
<1>10. CASE Recover(r)
  BY <1>1, <1>10, IdleVisitsOK DEF Recover
<1>11. CASE FindDue(r)
  <2> DEFINE X == {o \in Occurrence : IsPublishable(o, at[r])}
  <2>1. Goto(r, "publish", Ids(X))
    BY <1>11 DEF FindDue
  <2>2. \A o \in X : o.version \in DOMAIN version'
    BY <1>2 DEF IsPublishable, SeriesIInv, RowOK
  <2>3. \A x \in Ids(X) : x.id.version \in DOMAIN version'
    BY <2>2 DEF Ids
  <2> QED
    BY <1>1, <2>1, <2>3, IdleVisitsOK
<1>12. CASE Expire(r)
  <2>1. pc[r] = "expiring" /\ pc'[r] = "expire" /\ todo'[r] = todo[r] /\ at' = at
    BY <1>1, <1>12 DEF Expire, Goto, TypeOK
  <2>2. \A y \in todo[r] : ExpiresAt(y.id) <= at[r] /\ y.seen.status \in Live
    BY <1>1, <2>1 DEF RunOK
  <2> QED
    BY <1>2, <1>3, <1>4, <2>1, <2>2 DEF RunOK
<1>13. CASE Publish(r) \/ FailPublication(r)
  <2>1. Goto(r, "publish", todo[r])
    BY <1>13 DEF Publish, FailPublication
  <2> QED
    BY <1>1, <1>2, <1>4, <2>1, IdleVisitsOK
<1> QED
  BY <1>5, <1>6, <1>7, <1>8, <1>9, <1>10, <1>11, <1>12, <1>13 DEF Work, Throw, EndRun

\* and so is every run after any step.
LEMMA RunsKept ==
    ASSUME SeriesIInv, [Next]_vars, NEW s \in Runner
    PROVE  RunOK(s)'
<1>1. TypeOK /\ RunOK(s) /\ VersionsGrow
  BY VersionsStay DEF SeriesIInv
<1>2. CASE UNCHANGED run
  BY <1>1, <1>2, RunStays DEF run
<1>3. ASSUME NEW r \in Runner, Work(r) \/ StartRun(r) \/ StartRequest(r) \/ Crash(r), s # r
      PROVE  RunOK(s)'
  BY <1>1, <1>3, OthersStay, RunStays
<1>4. CASE Work(s)
  BY <1>4, OwnRunKept
<1>5. CASE Crash(s)
  BY <1>1, <1>5, StoppedOK DEF Crash
<1>6. CASE StartRun(s) \/ StartRequest(s)
  <2>1. PICK first, last, publish : Start(s, first, last, publish)
    BY <1>6 DEF StartRun, StartRequest
  <2>2. \A x \in Ids(Candidates(first, last)) : x.id.version \in DOMAIN version
    BY DEF Ids, Candidates
  <2>3. \A x \in (IF series = "ACTIVE" THEN Ids(Candidates(first, last)) ELSE {}) :
           x.id.version \in DOMAIN version'
    BY <2>1, <2>2 DEF Start, table
  <2> QED
    BY <1>1, <2>1, <2>3, IdleVisitsOK DEF Start
<1>7. ASSUME NEW m \in Manager, Manage(m) \/ Settle(m) PROVE UNCHANGED run
  BY <1>7 DEF Manage, AskVersion, AskArchive, AskCancel, Read, Settle, CreateVersion,
     ArchiveSeries, CancelOccurrence, Dismiss, Done
<1>8. CASE Tick \/ UNCHANGED vars
  BY <1>2, <1>8 DEF Tick, vars, run
<1> QED
  BY <1>2, <1>3, <1>4, <1>5, <1>6, <1>7, <1>8 DEF Next

\* What a step may do to the status of a row that exists.
LEMMA StatusSteps ==
    ASSUME SeriesIInv, [Next]_vars, NEW o \in Occurrence, occ[o].status # "ABSENT"
    PROVE  /\ occ'[o].status # "ABSENT"
           /\ occ[o].status = "CANCELLED" => occ'[o].status = "CANCELLED"
<1>1. TypeOK
  BY DEF SeriesIInv
<1>2. ASSUME NEW X \in SUBSET Occurrence, Withdraw(X)
      PROVE  occ'[o] = occ[o] \/ occ'[o].status = "CANCELLED"
  BY <1>2 DEF Withdraw, Withdrawn
<1>3. ASSUME NEW m \in Manager, Settle(m)
      PROVE  occ'[o] = occ[o] \/ occ'[o].status = "CANCELLED"
  <2>1. \A d : PendingFrom(d) \in SUBSET Occurrence
    BY DEF PendingFrom
  <2>2. CancelOccurrence(m) => {request[m].id} \in SUBSET Occurrence
    BY <1>1, SeriesRequests DEF CancelOccurrence
  <2> QED
    BY <1>2, <1>3, <2>1, <2>2 DEF Settle, CreateVersion, ArchiveSeries, CancelOccurrence,
       Dismiss, table
<1>4. ASSUME NEW m \in Manager, Manage(m) PROVE occ' = occ
  BY <1>4 DEF Manage, AskVersion, AskArchive, AskCancel, Read, table
<1>5. ASSUME NEW r \in Runner, StartRun(r) \/ StartRequest(r) \/ Crash(r) PROVE occ' = occ
  BY <1>5 DEF StartRun, StartRequest, Start, Crash, table
<1>6. ASSUME NEW r \in Runner, Work(r)
      PROVE  \/ occ'[o] = occ[o]
             \/ occ'[o].status # "ABSENT" /\ occ[o].status # "CANCELLED"
  <2>1. ASSUME NEW x \in todo[r], Create(r, x) PROVE occ'[o] = occ[o]
    BY <1>1, <2>1 DEF Create, Creatable, NoRow, TypeOK
  <2>2. ASSUME NEW x \in todo[r], ClaimElapsed(r, x)
        PROVE  \/ occ'[o] = occ[o]
               \/ occ'[o].status = "PROCESSING" /\ occ[o].status # "CANCELLED"
    <3>1. x.seen.status # "CANCELLED"
      BY <2>2 DEF ClaimElapsed, SeriesIInv, RunOK, Live, Pending
    <3> QED
      BY <1>1, <2>2, <3>1 DEF ClaimElapsed, TypeOK
  <2>3. ASSUME NEW x \in todo[r], ClaimDue(r, x)
        PROVE  \/ occ'[o] = occ[o]
               \/ occ'[o].status = "PROCESSING" /\ occ[o].status # "CANCELLED"
    BY <1>1, <2>3 DEF ClaimDue, IsPublishable, TypeOK
  <2>4. CASE Expire(r)
    BY <1>1, <2>4 DEF Expire, Holds, TypeOK
  <2>5. CASE Publish(r)
    BY <1>1, <2>5 DEF Publish, Holds, TypeOK
  <2>6. CASE FailPublication(r)
    BY <1>1, <2>6 DEF FailPublication, Holds, TypeOK
  <2>7. CASE Recover(r)
    BY <1>1, <2>7 DEF Recover, IsStale
  <2>8. ASSUME \/ FindElapsed(r) \/ FindDue(r) \/ EndRun(r)
               \/ \E x \in todo[r] : Throw(r, x)
        PROVE  occ' = occ
    BY <2>8 DEF FindElapsed, FindDue, EndRun, Throw, table
  <2> QED
    BY <1>6, <2>1, <2>2, <2>3, <2>4, <2>5, <2>6, <2>7, <2>8 DEF Work
<1>7. CASE Tick \/ UNCHANGED vars
  BY <1>7 DEF Tick, vars, table
<1> QED
  BY <1>3, <1>4, <1>5, <1>6, <1>7 DEF Next

\* What a request read is still older than what is there, or the same.
LEMMA RequestsKept ==
    ASSUME SeriesIInv, [Next]_vars, NEW n \in Manager
    PROVE  SeriesRequestOK(n)'
<1>1. TypeOK /\ SeriesRequestOK(n)
  BY DEF SeriesIInv
<1>2. CASE request'[n] = request[n]
  <2>1. request[n].kind = "cancel" => request[n].id \in Occurrence
    BY <1>1, SeriesRequests
  <2> QED
    BY <1>1, <1>2, <2>1, StatusSteps DEF SeriesRequestOK
<1>3. CASE request'[n] = NoRequest
  BY <1>3 DEF NoRequest, SeriesRequestOK
<1>4. ASSUME NEW m \in Manager, Settle(m)
      PROVE  request'[n] = request[n] \/ request'[n] = NoRequest
  BY <1>1, <1>4 DEF Settle, CreateVersion, ArchiveSeries, CancelOccurrence, Dismiss, Done, TypeOK
<1>5. ASSUME NEW m \in Manager, Manage(m) PROVE SeriesRequestOK(n)'
  <2>1. CASE m # n
    BY <1>1, <1>2, <1>5, <2>1 DEF Manage, AskVersion, AskArchive, AskCancel, Read, TypeOK
  <2>2. ASSUME m = n, NEW i \in VersionInput, AskVersion(m, i) PROVE SeriesRequestOK(n)'
    <3>1. request'[n].kind = "version"
      BY <1>1, <2>2 DEF AskVersion, Read, TypeOK
    <3> QED
      BY <3>1 DEF SeriesRequestOK
  <2>3. CASE m = n /\ AskArchive(m)
    <3>1. request'[n].kind = "archive"
      BY <1>1, <2>3 DEF AskArchive, Read, TypeOK
    <3> QED
      BY <3>1 DEF SeriesRequestOK
  <2>4. ASSUME m = n, NEW o \in Occurrence, AskCancel(m, o) PROVE SeriesRequestOK(n)'
    <3>1. request'[n].id = o /\ occ'[o].status # "ABSENT"
      BY <1>1, <2>4 DEF AskCancel, Read, TypeOK, Pending, table
    <3> QED
      BY <3>1 DEF SeriesRequestOK
  <2> QED
    BY <1>5, <2>1, <2>2, <2>3, <2>4 DEF Manage
<1>6. ASSUME NEW r \in Runner, StartRun(r) \/ StartRequest(r) \/ Crash(r)
      PROVE  request' = request
  BY <1>6 DEF StartRun, StartRequest, Start, Crash
<1>7. ASSUME NEW r \in Runner, Work(r) PROVE request' = request
  BY <1>7 DEF Work, Create, Throw, ClaimElapsed, ClaimDue, FindElapsed, Expire, Recover,
     FindDue, Publish, FailPublication, EndRun, Unchanged
<1>8. CASE Tick \/ UNCHANGED vars
  BY <1>2, <1>8 DEF Tick, vars
<1> QED
  BY <1>2, <1>3, <1>4, <1>5, <1>6, <1>7, <1>8 DEF Next

-----------------------------------------------------------------------------
(* Theorems.                                                                 *)

\* The invariant holds at first,
LEMMA SeriesStarts == Init => SeriesIInv
<1> SUFFICES ASSUME Init PROVE SeriesIInv
  OBVIOUS
<1>1. \A o \in Occurrence : RowOK(o)
  BY DEF Init, NoRow, RowOK, Agree
<1>2. \A r \in Runner : RunOK(r)
  BY DEF Init, RunOK
<1>3. \A m \in Manager : SeriesRequestOK(m)
  BY DEF Init, NoRequest, SeriesRequestOK
<1> QED
  BY <1>1, <1>2, <1>3, SeriesInitType DEF SeriesIInv

\* is kept by every step,
LEMMA SeriesSteps == SeriesIInv /\ [Next]_vars => SeriesIInv'
<1> SUFFICES ASSUME SeriesIInv, [Next]_vars PROVE SeriesIInv'
  OBVIOUS
<1>1. TypeOK'
  BY SeriesNextType DEF SeriesIInv
<1>2. \A o \in Occurrence : RowOK(o)'
  BY RowsKept
<1>3. \A r \in Runner : RunOK(r)'
  BY RunsKept
<1>4. \A m \in Manager : SeriesRequestOK(m)'
  BY RequestsKept
<1> QED
  BY <1>1, <1>2, <1>3, <1>4 DEF SeriesIInv

\* and so holds in every state.
LEMMA SeriesInvariance == Spec => []SeriesIInv
  BY SeriesStarts, SeriesSteps, PTL DEF Spec

\* Every reachable state of a series, its occurrences and its runs is well typed.
THEOREM SeriesTypeCorrect == Spec => []TypeOK
<1>1. SeriesIInv => TypeOK
  BY DEF SeriesIInv
<1> QED
  BY <1>1, SeriesInvariance, PTL

\* An occurrence and its announcement never disagree: publication, expiry and
\* cancellation write both or neither, and a claim older than the expiry never
\* covers an announcement that is out.
THEOREM OccurrencesAgree == Spec => []StatusesAgree
<1>1. SeriesIInv => StatusesAgree
  BY DEF SeriesIInv, RowOK, StatusesAgree
<1> QED
  BY <1>1, SeriesInvariance, PTL

\* However many runs of publishDueAnnouncementOccurrences race, die and recover
\* each other's claims, no occurrence is published twice.
THEOREM NoSecondPublication == Spec => []PublishedOnce
<1>1. SeriesIInv => PublishedOnce
  BY DEF SeriesIInv, RowOK, PublishedOnce
<1> QED
  BY <1>1, SeriesInvariance, PTL

\* No run and no request takes a cancellation back.
THEOREM CancellationsStand == Spec => CancelledIsFinal
<1>1. ASSUME SeriesIInv, SeriesIInv', [Next]_vars, NEW o \in Occurrence, occ[o].status = "CANCELLED"
      PROVE  occ'[o].status = "CANCELLED" /\ notice'[o] = "ARCHIVED"
  <2>1. occ'[o].status = "CANCELLED"
    BY <1>1, StatusSteps
  <2>2. RowOK(o)'
    BY <1>1 DEF SeriesIInv
  <2> QED
    BY <2>1, <2>2 DEF RowOK, Agree
<1>2. SeriesIInv /\ SeriesIInv' /\ [Next]_vars =>
        [\A o \in Occurrence :
           occ[o].status = "CANCELLED" => occ'[o].status = "CANCELLED" /\ notice'[o] = "ARCHIVED"]_vars
  BY <1>1
<1> QED
  BY <1>2, SeriesInvariance, PTL DEF Spec, CancelledIsFinal

\* An occurrence is published once and agrees with its announcement.
THEOREM OccurrencesHold == Spec => []OccurrencesAreSound
  BY OccurrencesAgree, NoSecondPublication, PTL DEF OccurrencesAreSound

-----------------------------------------------------------------------------
(* One voice for a date, where a manager's request ends on the day it began. *)

\* The instant of an occurrence has come.
Reached(o) == o.version \in DOMAIN version /\ ScheduledFor(o) <= clock

\* What a run is about to publish, or to take down, is due.
RunReached(r) ==
    /\ at[r] <= clock
    /\ pc[r] \in {"expiring", "publishing"} => Reached(cur[r])

\* A version that was asked for begins on a day that has not begun.
AheadOfTime(m) == request[m].kind = "version" => clock < request[m].input.from * DayTicks

\* What stands is what the rule selects now, what is out was due, and no request
\* can change the selection of a day that has begun.
VoiceIInv ==
    /\ \A o \in Occurrence : Standing(o) => Selects(o.version, o.date)
    /\ \A o \in Occurrence : occ[o].status \in {"PUBLISHED", "EXPIRED"} => Reached(o)
    /\ \A r \in Runner : RunReached(r)
    /\ \A m \in Manager : AheadOfTime(m)

\* The rule selects one version for a date.
LEMMA SelectsOne ==
    ASSUME TypeOK, NEW u \in DOMAIN version, NEW v \in DOMAIN version, NEW d,
           Selects(u, d), Selects(v, d)
    PROVE  u = v
<1>1. version[u].from \in Nat /\ version[v].from \in Nat
  BY SeriesAssumption DEF TypeOK, SeriesAssumption
<1>2. u \in Int /\ v \in Int
  BY DEF TypeOK
<1>3. \/ version[u].from < version[v].from
      \/ version[u].from = version[v].from /\ u <= v
  BY DEF Selects
<1>4. \/ version[v].from < version[u].from
      \/ version[u].from = version[v].from /\ v <= u
  BY DEF Selects
<1> QED
  BY <1>1, <1>2, <1>3, <1>4

\* So occurrences that stand and have the date in common are one.
LEMMA VoiceIsOne == SeriesIInv /\ VoiceIInv => OneVoicePerDate
<1> SUFFICES ASSUME SeriesIInv, VoiceIInv,
                    NEW o \in Occurrence, NEW p \in Occurrence,
                    Standing(o), Standing(p), o.date = p.date
             PROVE  o = p
  BY DEF OneVoicePerDate
<1>1. o.version \in DOMAIN version /\ p.version \in DOMAIN version
  BY DEF SeriesIInv, RowOK, Standing
<1>2. o.version = p.version
  BY <1>1, SelectsOne DEF VoiceIInv, SeriesIInv
<1> QED
  BY <1>2 DEF Occurrence

\* What is on an earlier day is before the start of a later one.
LEMMA DayStarts ==
    ASSUME NEW t \in Nat, NEW f \in Nat, f > t \div DayTicks
    PROVE  t < f * DayTicks
<1>1. DayTicks \in Nat \ {0}
  BY SeriesAssumption DEF SeriesAssumption
<1>2. t \div DayTicks \in Nat /\ t < DayTicks * (t \div DayTicks + 1)
  BY <1>1
<1>3. PICK q \in Nat : q = t \div DayTicks
  BY <1>2
<1>4. t < DayTicks * (q + 1) /\ f >= q + 1
  BY <1>2, <1>3
<1>5. PICK k \in Nat : f = q + 1 + k
  BY <1>4
<1>6. f * DayTicks = DayTicks * (q + 1) + k * DayTicks /\ k * DayTicks \in Nat
  BY <1>1, <1>5
<1> QED
  BY <1>1, <1>4, <1>6

\* A day starts at a multiple,
LEMMA DayEnds ==
    ASSUME NEW f \in Nat
    PROVE  (f * DayTicks) % DayTicks = 0
  BY SeriesAssumption DEF SeriesAssumption

\* and what is before the start of a day is on an earlier one.
LEMMA DaysInOrder ==
    ASSUME NEW d \in Nat, NEW f \in Nat, NEW h \in Nat, d * DayTicks + h < f * DayTicks
    PROVE  d < f
<1>1. DayTicks \in Nat \ {0}
  BY SeriesAssumption DEF SeriesAssumption
<1>2. SUFFICES ASSUME d >= f PROVE d * DayTicks >= f * DayTicks
  BY <1>1
<1>3. PICK k \in Nat : d = f + k
  BY <1>2
<1>4. d * DayTicks = f * DayTicks + k * DayTicks
  BY <1>1, <1>3
<1> QED
  BY <1>1, <1>4

-----------------------------------------------------------------------------

\* An occurrence that was reached stays so.
LEMMA ReachedStays ==
    ASSUME TypeOK, VersionsGrow, NEW o \in Occurrence, Reached(o), clock' \in Int, clock <= clock'
    PROVE  Reached(o)'
<1>1. ScheduledFor(o)' = ScheduledFor(o) /\ o.version \in DOMAIN version'
  BY DEF VersionsGrow, ScheduledFor, Reached
<1>2. ScheduledFor(o) \in Int /\ clock \in Int
  BY Times DEF Reached, TypeOK
<1> QED
  BY <1>1, <1>2 DEF Reached

\* The clock does not go back.
LEMMA ClockRuns ==
    ASSUME TypeOK, [Next]_vars
    PROVE  clock' \in Int /\ clock <= clock'
<1>1. clock \in Int
  BY DEF TypeOK
<1>2. ASSUME NEW m \in Manager, Manage(m) \/ Settle(m) PROVE clock' = clock
  BY <1>2 DEF Manage, AskVersion, AskArchive, AskCancel, Read, Settle, CreateVersion,
     ArchiveSeries, CancelOccurrence, Dismiss, Done
<1>3. ASSUME NEW r \in Runner, StartRun(r) \/ StartRequest(r) \/ Work(r) \/ Crash(r)
      PROVE  clock' = clock
  BY <1>3 DEF StartRun, StartRequest, Start, Crash, Work, Create, Throw, ClaimElapsed, ClaimDue,
     FindElapsed, Expire, Recover, FindDue, Publish, FailPublication, EndRun, Unchanged
<1>4. CASE Tick
  BY <1>1, <1>4 DEF Tick
<1>5. ASSUME UNCHANGED vars PROVE clock' = clock
  BY <1>5 DEF vars
<1>6. clock' = clock \/ Tick
  BY <1>2, <1>3, <1>5 DEF Next
<1> QED
  BY <1>1, <1>4, <1>6

\* What an occurrence that is out was before a step of a run.
LEMMA OutSteps ==
    ASSUME SeriesIInv, NEW r \in Runner, Work(r), NEW o \in Occurrence,
           occ'[o].status \in {"PUBLISHED", "EXPIRED"}
    PROVE  \/ occ[o].status \in {"PUBLISHED", "EXPIRED"}
           \/ pc[r] \in {"expiring", "publishing"} /\ o = cur[r]
<1>1. TypeOK
  BY DEF SeriesIInv
<1>2. ASSUME NEW x \in todo[r], Create(r, x) \/ ClaimElapsed(r, x) \/ ClaimDue(r, x)
      PROVE  occ'[o] = occ[o]
  BY <1>1, <1>2 DEF Create, ClaimElapsed, ClaimDue, TypeOK
<1>3. CASE Expire(r) \/ Publish(r)
  BY <1>1, <1>3 DEF Expire, Publish, TypeOK
<1>4. CASE FailPublication(r)
  BY <1>1, <1>4 DEF FailPublication, TypeOK
<1>5. CASE Recover(r)
  BY <1>1, <1>5 DEF Recover
<1>6. ASSUME \/ FindElapsed(r) \/ FindDue(r) \/ EndRun(r)
             \/ \E x \in todo[r] : Throw(r, x)
      PROVE  occ' = occ
  BY <1>6 DEF FindElapsed, FindDue, EndRun, Throw, table
<1> QED
  BY <1>2, <1>3, <1>4, <1>5, <1>6 DEF Work

\* What stands after a step of a run stood before, or was just created.
LEMMA StandingSteps ==
    ASSUME SeriesIInv, NEW r \in Runner, Work(r), NEW o \in Occurrence, Standing(o)'
    PROVE  Standing(o) \/ Selects(o.version, o.date)
<1>1. TypeOK
  BY DEF SeriesIInv
<1>2. ASSUME NEW x \in todo[r], Create(r, x) PROVE Standing(o) \/ Selects(o.version, o.date)
  BY <1>1, <1>2 DEF Create, Creatable, Standing, TypeOK
<1>3. ASSUME NEW x \in todo[r], ClaimElapsed(r, x) PROVE Standing(o)
  <2>1. x.seen.status \in Live
    BY <1>3 DEF ClaimElapsed, SeriesIInv, RunOK
  <2> QED
    BY <1>1, <1>3, <2>1 DEF ClaimElapsed, Live, Pending, Standing, TypeOK
<1>4. ASSUME NEW x \in todo[r], ClaimDue(r, x) PROVE Standing(o)
  BY <1>1, <1>4 DEF ClaimDue, IsPublishable, Standing, TypeOK
<1>5. CASE Expire(r) \/ Publish(r)
  BY <1>1, <1>5 DEF Expire, Publish, Holds, Standing, TypeOK
<1>6. CASE FailPublication(r)
  BY <1>1, <1>6 DEF FailPublication, Holds, Standing, TypeOK
<1>7. CASE Recover(r)
  BY <1>1, <1>7 DEF Recover, IsStale, Standing
<1>8. ASSUME \/ FindElapsed(r) \/ FindDue(r) \/ EndRun(r)
             \/ \E x \in todo[r] : Throw(r, x)
      PROVE  occ' = occ
  BY <1>8 DEF FindElapsed, FindDue, EndRun, Throw, table
<1> QED
  BY <1>2, <1>3, <1>4, <1>5, <1>6, <1>7, <1>8 DEF Work, Standing

\* A run claims what is due, or past.
LEMMA RunReachedKept ==
    ASSUME SeriesIInv, VoiceIInv, [Next]_vars, NEW s \in Runner
    PROVE  RunReached(s)'
<1>1. TypeOK /\ RunReached(s) /\ VersionsGrow /\ clock' \in Int /\ clock <= clock'
  BY VersionsStay, ClockRuns DEF SeriesIInv, VoiceIInv
<1>2. at[s] \in Int /\ clock \in Int
  BY <1>1 DEF TypeOK
<1>3. CASE pc'[s] = pc[s] /\ at'[s] = at[s] /\ cur'[s] = cur[s]
  <2>1. pc[s] \in {"expiring", "publishing"} => cur[s] \in Occurrence
    BY DEF SeriesIInv, RunOK
  <2> QED
    BY <1>1, <1>2, <1>3, <2>1, ReachedStays DEF RunReached
<1>4. ASSUME NEW r \in Runner, Work(r) \/ StartRun(r) \/ StartRequest(r) \/ Crash(r), s # r
      PROVE  RunReached(s)'
  BY <1>1, <1>3, <1>4, OthersStay
<1>5. CASE StartRun(s) \/ StartRequest(s)
  <2>1. pc'[s] = "create" /\ at'[s] = clock /\ clock' = clock
    BY <1>1, <1>5 DEF StartRun, StartRequest, Start, Goto, TypeOK
  <2> QED
    BY <1>2, <2>1 DEF RunReached
<1>6. ASSUME Stop(s) PROVE RunReached(s)'
  <2>1. pc'[s] = "idle" /\ at'[s] = 0
    BY <1>1, <1>6 DEF Stop, Goto, TypeOK
  <2>2. clock' >= 0
    BY <1>1 DEF TypeOK
  <2> QED
    BY <2>1, <2>2 DEF RunReached
<1>7. ASSUME NEW x \in todo[s], ClaimElapsed(s, x) PROVE RunReached(s)'
  <2>1. CASE occ[x.id] = x.seen
    <3>1. cur'[s] = x.id /\ at' = at /\ pc'[s] = "expiring"
      BY <1>1, <1>7, <2>1 DEF ClaimElapsed, Claimed, Goto, TypeOK
    <3>2. x.id \in Occurrence /\ x.id.version \in DOMAIN version /\ ExpiresAt(x.id) <= at[s]
      BY <1>1, <1>7 DEF ClaimElapsed, SeriesIInv, RunOK, TypeOK, Visit
    <3>3. ScheduledFor(x.id) \in Int /\ Duration \in Nat
      BY <1>1, <3>2, Times, SeriesAssumption DEF SeriesAssumption
    <3>4. Reached(x.id)
      BY <1>1, <1>2, <3>2, <3>3 DEF RunReached, Reached, ExpiresAt
    <3>5. Reached(x.id)'
      BY <1>1, <3>2, <3>4, ReachedStays
    <3>6. Reached(cur[s])'
      BY <3>1, <3>5 DEF Reached, ScheduledFor
    <3> QED
      BY <1>1, <1>2, <3>1, <3>6 DEF RunReached
  <2>2. CASE occ[x.id] # x.seen
    <3>1. at' = at /\ pc'[s] = "expire"
      BY <1>1, <1>7, <2>2 DEF ClaimElapsed, Goto, TypeOK
    <3> QED
      BY <1>1, <1>2, <3>1 DEF RunReached
  <2> QED
    BY <2>1, <2>2
<1>8. ASSUME NEW x \in todo[s], ClaimDue(s, x) PROVE RunReached(s)'
  <2>1. CASE IsPublishable(x.id, at[s])
    <3>1. cur'[s] = x.id /\ at' = at /\ pc'[s] = "publishing"
      BY <1>1, <1>8, <2>1 DEF ClaimDue, Claimed, Goto, TypeOK
    <3>2. x.id \in Occurrence /\ x.id.version \in DOMAIN version /\ ScheduledFor(x.id) <= at[s]
      BY <1>1, <2>1 DEF IsPublishable, IsDue, SeriesIInv, RunOK, TypeOK, Visit
    <3>3. ScheduledFor(x.id) \in Int
      BY <1>1, <3>2, Times
    <3>4. Reached(x.id)
      BY <1>1, <1>2, <3>2, <3>3 DEF RunReached, Reached
    <3>5. Reached(x.id)'
      BY <1>1, <3>2, <3>4, ReachedStays
    <3>6. Reached(cur[s])'
      BY <3>1, <3>5 DEF Reached, ScheduledFor
    <3> QED
      BY <1>1, <1>2, <3>1, <3>6 DEF RunReached
  <2>2. CASE ~IsPublishable(x.id, at[s])
    <3>1. at' = at /\ pc'[s] = "publish"
      BY <1>1, <1>8, <2>2 DEF ClaimDue, Goto, TypeOK
    <3> QED
      BY <1>1, <1>2, <3>1 DEF RunReached
  <2> QED
    BY <2>1, <2>2
<1>9. ASSUME \/ \E x \in todo[s] : Create(s, x)
             \/ FindElapsed(s) \/ Expire(s) \/ Recover(s) \/ FindDue(s)
             \/ Publish(s) \/ FailPublication(s)
      PROVE  RunReached(s)'
  <2>1. at' = at /\ pc'[s] \in {"create", "expire", "select", "publish"}
    BY <1>1, <1>9 DEF Create, FindElapsed, Expire, Recover, FindDue, Publish, FailPublication,
       Goto, TypeOK
  <2> QED
    BY <1>1, <1>2, <2>1 DEF RunReached
<1>10. CASE Work(s)
  BY <1>6, <1>7, <1>8, <1>9, <1>10 DEF Work, Throw, EndRun
<1>11. CASE Crash(s)
  BY <1>6, <1>11 DEF Crash
<1>12. ASSUME NEW m \in Manager, Manage(m) \/ Settle(m) PROVE UNCHANGED run
  BY <1>12 DEF Manage, AskVersion, AskArchive, AskCancel, Read, Settle, CreateVersion,
     ArchiveSeries, CancelOccurrence, Dismiss, Done
<1>13. CASE UNCHANGED run
  BY <1>3, <1>13 DEF run
<1>14. CASE Tick \/ UNCHANGED vars
  BY <1>13, <1>14 DEF Tick, vars, run
<1> QED
  BY <1>4, <1>5, <1>10, <1>11, <1>12, <1>13, <1>14 DEF Next

\* A request ends before its version begins, if requests end on the day they began.
LEMMA AheadKept ==
    ASSUME SeriesIInv, VoiceIInv, Prompt, [Next]_vars, NEW n \in Manager
    PROVE  AheadOfTime(n)'
<1>1. TypeOK /\ AheadOfTime(n)
  BY DEF SeriesIInv, VoiceIInv
<1>2. CASE request'[n] = request[n] /\ clock' = clock
  BY <1>1, <1>2 DEF AheadOfTime
<1>3. CASE request'[n] = NoRequest
  BY <1>3 DEF NoRequest, AheadOfTime
<1>4. ASSUME NEW m \in Manager, Settle(m) PROVE AheadOfTime(n)'
  <2>1. request' = [request EXCEPT ![m] = NoRequest] /\ clock' = clock
    BY <1>4 DEF Settle, CreateVersion, ArchiveSeries, CancelOccurrence, Dismiss, Done
  <2> QED
    BY <1>1, <1>2, <1>3, <2>1 DEF TypeOK
<1>5. ASSUME NEW m \in Manager, Manage(m) PROVE AheadOfTime(n)'
  <2>1. CASE m # n
    BY <1>1, <1>2, <1>5, <2>1 DEF Manage, AskVersion, AskArchive, AskCancel, Read, TypeOK
  <2>2. ASSUME m = n, NEW i \in VersionInput, AskVersion(m, i) PROVE AheadOfTime(n)'
    <3>1. request'[n].kind = "version" /\ request'[n].input = i /\ clock' = clock
      BY <1>1, <2>2 DEF AskVersion, Read, TypeOK
    <3>2. i.from \in Nat /\ clock \in Nat /\ i.from > clock \div DayTicks
      BY <1>1, <2>2, SeriesAssumption DEF AskVersion, Today, TypeOK, SeriesAssumption
    <3>3. clock < i.from * DayTicks
      BY <3>2, DayStarts
    <3> QED
      BY <3>1, <3>3 DEF AheadOfTime
  <2>3. CASE m = n /\ AskArchive(m)
    <3>1. request'[n].kind = "archive"
      BY <1>1, <2>3 DEF AskArchive, Read, TypeOK
    <3> QED
      BY <3>1 DEF AheadOfTime
  <2>4. ASSUME m = n, NEW o \in Occurrence, AskCancel(m, o) PROVE AheadOfTime(n)'
    <3>1. request'[n].kind = "cancel"
      BY <1>1, <2>4 DEF AskCancel, Read, TypeOK
    <3> QED
      BY <3>1 DEF AheadOfTime
  <2> QED
    BY <1>5, <2>1, <2>2, <2>3, <2>4 DEF Manage
<1>6. ASSUME NEW r \in Runner, StartRun(r) \/ StartRequest(r) \/ Work(r) \/ Crash(r)
      PROVE  request' = request /\ clock' = clock
  BY <1>6 DEF StartRun, StartRequest, Start, Crash, Work, Create, Throw, ClaimElapsed, ClaimDue,
     FindElapsed, Expire, Recover, FindDue, Publish, FailPublication, EndRun, Unchanged
<1>7. CASE Tick
  <2> SUFFICES ASSUME request[n].kind = "version"
               PROVE  clock' < request[n].input.from * DayTicks
    BY <1>7 DEF Tick, AheadOfTime
  <2>1. PICK f \in Nat : f = request[n].input.from
    BY <1>1, SeriesRequests, SeriesAssumption DEF SeriesAssumption
  <2>2. clock < f * DayTicks /\ clock \in Nat /\ f * DayTicks \in Nat /\ clock' = clock + 1
    BY <1>1, <1>7, <2>1, SeriesAssumption DEF AheadOfTime, TypeOK, Tick, SeriesAssumption
  <2>3. request[n] # NoRequest
    BY DEF NoRequest
  <2>4. (clock + 1) % DayTicks # 0
    BY <1>7, <2>3 DEF Tick
  <2>5. clock + 1 # f * DayTicks
    BY <2>4, DayEnds
  <2> QED
    BY <2>1, <2>2, <2>5
<1>8. CASE UNCHANGED vars
  BY <1>2, <1>8 DEF vars
<1> QED
  BY <1>2, <1>4, <1>5, <1>6, <1>7, <1>8 DEF Next

\* A new version changes no selection but of days from its first on.
LEMMA SelectionStays ==
    ASSUME TypeOK, NEW i \in VersionInput, version' = Append(version, i),
           NEW v \in DOMAIN version, NEW d \in Nat, d < i.from, Selects(v, d)
    PROVE  Selects(v, d)'
<1>1. \A u \in DOMAIN version : version'[u] = version[u] /\ u \in DOMAIN version'
  BY DEF TypeOK
<1>2. \A u \in DOMAIN version' : u \in DOMAIN version \/ version'[u] = i
  BY DEF TypeOK
<1>3. \A u \in DOMAIN version : InEffect(u, d)' <=> InEffect(u, d)
  BY <1>1 DEF InEffect
<1>4. i.from \in Nat
  BY SeriesAssumption DEF SeriesAssumption
<1>5. \A u \in DOMAIN version' : InEffect(u, d)' => u \in DOMAIN version
  BY <1>2, <1>4 DEF InEffect
<1>6. InEffect(v, d)'
  BY <1>3 DEF Selects
<1>7. ASSUME NEW u \in DOMAIN version', InEffect(u, d)'
      PROVE  \/ version'[u].from < version'[v].from
             \/ version'[u].from = version'[v].from /\ u <= v
  <2>1. u \in DOMAIN version /\ InEffect(u, d)
    BY <1>3, <1>5, <1>7
  <2>2. \/ version[u].from < version[v].from
        \/ version[u].from = version[v].from /\ u <= v
    BY <2>1 DEF Selects
  <2> QED
    BY <1>1, <2>1, <2>2
<1> QED
  BY <1>6, <1>7 DEF Selects

\* What is left after a new version is as the versions now select it: what is
\* pending from its first day on is cancelled, and what is out was due before.
LEMMA LeftIsSelected ==
    ASSUME SeriesIInv, VoiceIInv, NEW m \in Manager, CreateVersion(m),
           NEW o \in Occurrence, Standing(o)'
    PROVE  Selects(o.version, o.date)'
<1>1. TypeOK /\ AheadOfTime(m) /\ RowOK(o)
  BY DEF SeriesIInv, VoiceIInv
<1>2. PICK i \in VersionInput : i = request[m].input
  BY <1>1, SeriesRequests DEF CreateVersion
<1>3. version' = Append(version, i) /\ occ' = Withdrawn(PendingFrom(i.from))
  BY <1>2 DEF CreateVersion, Withdraw
<1>4. Standing(o) /\ o \notin PendingFrom(i.from)
  BY <1>3 DEF Standing, Withdrawn
<1>5. o.version \in DOMAIN version /\ Selects(o.version, o.date)
  BY <1>1, <1>4 DEF RowOK, Standing, VoiceIInv
<1>6. i.from \in Nat /\ o.date \in Nat /\ version[o.version].hour \in Nat
  <2>1. version[o.version] \in VersionInput
    BY <1>1, <1>5 DEF TypeOK
  <2> QED
    BY <2>1, SeriesAssumption DEF SeriesAssumption, Occurrence
<1>7. o.date < i.from
  <2>1. CASE occ[o].status \in Pending
    BY <1>4, <1>6, <2>1 DEF PendingFrom
  <2>2. CASE occ[o].status \in {"PUBLISHED", "EXPIRED"}
    <3>1. ScheduledFor(o) <= clock /\ clock < i.from * DayTicks
      BY <1>1, <1>2, <2>2 DEF VoiceIInv, Reached, AheadOfTime, CreateVersion
    <3>2. o.date * DayTicks \in Nat /\ i.from * DayTicks \in Nat
      BY <1>6, SeriesAssumption DEF SeriesAssumption
    <3>3. clock \in Nat
      BY <1>1 DEF TypeOK
    <3>4. o.date * DayTicks + version[o.version].hour < i.from * DayTicks
      BY <1>6, <3>1, <3>2, <3>3 DEF ScheduledFor
    <3> QED
      BY <1>6, <3>4, DaysInOrder
  <2> QED
    BY <1>1, <1>4, <2>1, <2>2 DEF TypeOK, Row, Status, Pending, Standing
<1> QED
  BY <1>1, <1>3, <1>5, <1>6, <1>7, SelectionStays

\* A manager's step publishes nothing and cancels what it touches.
LEMMA ManagersWithdraw ==
    ASSUME TypeOK, NEW m \in Manager, Manage(m) \/ Settle(m), NEW o \in Occurrence
    PROVE  occ'[o].status = occ[o].status \/ occ'[o].status = "CANCELLED"
<1>1. ASSUME NEW X, Withdraw(X)
      PROVE  occ'[o].status = occ[o].status \/ occ'[o].status = "CANCELLED"
  BY <1>1 DEF Withdraw, Withdrawn
<1>2. CASE Manage(m)
  BY <1>2 DEF Manage, AskVersion, AskArchive, AskCancel, Read, table
<1>3. CASE Settle(m)
  BY <1>1, <1>3 DEF Settle, CreateVersion, ArchiveSeries, CancelOccurrence, Dismiss, table
<1> QED
  BY <1>2, <1>3

\* What stands is selected, after any step,
LEMMA StandingKept ==
    ASSUME SeriesIInv, VoiceIInv, [Next]_vars, NEW o \in Occurrence, Standing(o)'
    PROVE  Selects(o.version, o.date)'
<1>1. TypeOK
  BY DEF SeriesIInv
<1>2. ASSUME Standing(o) \/ Selects(o.version, o.date), version' = version
      PROVE  Selects(o.version, o.date)'
  BY <1>2 DEF VoiceIInv, Selects, InEffect
<1>3. ASSUME NEW m \in Manager, Manage(m) \/ Settle(m) PROVE Selects(o.version, o.date)'
  <2>1. CASE CreateVersion(m)
    BY <2>1, LeftIsSelected
  <2>2. Standing(o)
    BY <1>1, <1>3, ManagersWithdraw DEF Standing
  <2>3. ~CreateVersion(m) => version' = version
    BY <1>3 DEF Manage, AskVersion, AskArchive, AskCancel, Read, Settle, ArchiveSeries,
       CancelOccurrence, Dismiss, table
  <2> QED
    BY <1>2, <2>1, <2>2, <2>3
<1>4. ASSUME NEW r \in Runner, Work(r) PROVE Selects(o.version, o.date)'
  <2>1. version' = version
    BY <1>4 DEF Work, Create, Throw, ClaimElapsed, ClaimDue, FindElapsed, Expire, Recover,
       FindDue, Publish, FailPublication, EndRun, table
  <2> QED
    BY <1>2, <1>4, <2>1, StandingSteps
<1>5. ASSUME NEW r \in Runner, StartRun(r) \/ StartRequest(r) \/ Crash(r)
      PROVE  occ' = occ /\ version' = version
  BY <1>5 DEF StartRun, StartRequest, Start, Crash, table
<1>6. CASE Tick \/ UNCHANGED vars
  BY <1>2, <1>6 DEF Tick, vars, table, Standing
<1> QED
  BY <1>2, <1>3, <1>4, <1>5, <1>6 DEF Next, Standing

\* and what is out was due.
LEMMA OutKept ==
    ASSUME SeriesIInv, VoiceIInv, [Next]_vars, NEW o \in Occurrence,
           occ'[o].status \in {"PUBLISHED", "EXPIRED"}
    PROVE  Reached(o)'
<1>1. TypeOK /\ VersionsGrow /\ clock' \in Int /\ clock <= clock'
  BY VersionsStay, ClockRuns DEF SeriesIInv
<1>2. ASSUME occ[o].status \in {"PUBLISHED", "EXPIRED"} PROVE Reached(o)'
  BY <1>1, <1>2, ReachedStays DEF VoiceIInv
<1>3. ASSUME NEW m \in Manager, Manage(m) \/ Settle(m) PROVE Reached(o)'
  BY <1>1, <1>2, <1>3, ManagersWithdraw
<1>4. ASSUME NEW r \in Runner, Work(r) PROVE Reached(o)'
  <2>1. ASSUME pc[r] \in {"expiring", "publishing"}, o = cur[r] PROVE Reached(o)'
    <3>1. Reached(o)
      BY <2>1 DEF VoiceIInv, RunReached
    <3> QED
      BY <1>1, <3>1, ReachedStays
  <2> QED
    BY <1>2, <1>4, <2>1, OutSteps
<1>5. ASSUME NEW r \in Runner, StartRun(r) \/ StartRequest(r) \/ Crash(r) PROVE occ' = occ
  BY <1>5 DEF StartRun, StartRequest, Start, Crash, table
<1>6. CASE Tick \/ UNCHANGED vars
  BY <1>2, <1>6 DEF Tick, vars, table
<1> QED
  BY <1>2, <1>3, <1>4, <1>5, <1>6 DEF Next

\* The two invariants hold at first, and together are kept by every step.
LEMMA VoiceInvariance == ASSUME Prompt PROVE Spec => []VoiceIInv
<1>1. Init => VoiceIInv
  BY DEF Init, NoRow, NoRequest, VoiceIInv, Standing, RunReached, AheadOfTime
<1>2. SeriesIInv /\ VoiceIInv /\ [Next]_vars => VoiceIInv'
  <2> SUFFICES ASSUME SeriesIInv, VoiceIInv, [Next]_vars PROVE VoiceIInv'
    OBVIOUS
  <2>1. \A o \in Occurrence : Standing(o)' => Selects(o.version, o.date)'
    BY StandingKept
  <2>2. \A o \in Occurrence : occ'[o].status \in {"PUBLISHED", "EXPIRED"} => Reached(o)'
    BY OutKept
  <2>3. \A r \in Runner : RunReached(r)'
    BY RunReachedKept
  <2>4. \A m \in Manager : AheadOfTime(m)'
    BY AheadKept
  <2> QED
    BY <2>1, <2>2, <2>3, <2>4 DEF VoiceIInv
<1> QED
  BY <1>1, <1>2, SeriesInvariance, PTL DEF Spec

\* No two versions both speak for one date, however a new version races with the
\* runs that chose from the versions before it: createFutureAnnouncementSeriesVersion
\* cancels what is pending from its first day on, what is out by then was due
\* earlier, and createOccurrence chooses again in its transaction.
THEOREM VoicesDoNotMix == ASSUME Prompt PROVE Spec => []OneVoicePerDate
  BY VoiceIsOne, VoiceInvariance, SeriesInvariance, PTL

-----------------------------------------------------------------------------
(* The versions of a service flow.                                         *)

\* The numbers an edit has in hand are the flow's, and it has steps to tell while
\* it replaces them.
HandsOK ==
    \A e \in Editor :
        /\ edit[e].at = "read" => edit[e].number \in Number /\ edit[e].number < MaxVersion
        /\ edit[e].at = "issuing" => edit[e].number \in Number
        /\ edit[e].at \in {"written", "cleared"} => edit[e].tells # NoGraph

\* The first n numbers are recorded, and no later one is taken by a version.
Upto(n) == \A v \in Number :
    /\ v <= n => revision[v] = "whole"
    /\ v > n => versions[v] = NoGraph

\* Nobody reads half of another's edit.
NoVersionPartial == flow.draft # Partial /\ \A v \in Number : versions[v] # Partial

\* What is published is the current version.
Served == flow.status = "PUBLISHED" => versions[flow.version] = Says(flow)

\* A flow that nobody edits.
AtRest == flow.steps # Partial /\ Upto(flow.version) /\ Served

\* What holds while e alone is at work.
Phase(e) ==
    LET r == edit[e]
    IN  /\ r.draws # Partial /\ r.content # Partial
        /\ flow.steps = Partial <=> r.at = "cleared"
        /\ r.at = "read" =>
            /\ AtRest
            /\ r.number = flow.version
            /\ r.keeps => r.status = flow.status
            /\ r.content # NoGraph => r.content = r.draws /\ r.tells = NoGraph
        /\ r.at # "read" => (r.status = "PUBLISHED" <=> flow.status = "PUBLISHED")
        /\ r.at \in {"written", "cleared", "filled"} => Upto(flow.version - 1)
        /\ r.at \in {"written", "cleared"} => r.content = NoGraph
        /\ r.at \in {"filled", "revised"} /\ r.content # NoGraph => r.content = flow.draft
        /\ r.at \in {"revised", "issuing"} =>
            /\ r.status = "PUBLISHED" /\ Upto(flow.version)
            /\ versions[flow.version] = NoGraph
        /\ r.at = "issuing" => r.number = flow.version /\ r.content = Says(flow)

\* Either nobody is at work or one editor is.
Quiet == (\A e \in Editor : edit[e] = NoEdit) /\ AtRest
\* An editor between its first write and its last.
AtWork(e) ==
    /\ edit[e] # NoEdit /\ \A f \in Editor \ {e} : edit[f] = NoEdit
    /\ Phase(e)

\* The inductive invariant: as long as no two edits of the flow crossed and none
\* broke off half-way, one editor at most is at work, in one of the phases above.
FlowIInv ==
    /\ FlowTypeOK
    /\ HandsOK
    /\ ~disturbed => NoVersionPartial /\ (Quiet \/ \E e \in Editor : AtWork(e))

\* An edit's row, and how a step of one edit is told.
LEMMA EditShape ==
    ASSUME NEW r \in EditRow \cup {NoEdit}
    PROVE  /\ r.at = "idle" <=> r = NoEdit
           /\ r # NoEdit =>
                /\ r.at \in {"read", "written", "cleared", "filled", "revised", "issuing"}
                /\ r.number \in Nat /\ r.status \in FlowStatus /\ r.keeps \in BOOLEAN
                /\ r.draws \in Content \cup {NoGraph} /\ r.tells \in Graph \cup {NoGraph}
                /\ r.content \in Content \cup {NoGraph}
  BY DEF EditRow, NoEdit

\* What Says gives is a content.
LEMMA SaysContent ==
    ASSUME NEW f \in Flow
    PROVE  /\ Says(f) \in Content /\ Says(f) # NoGraph
           /\ f.draft # Partial /\ f.steps # Partial => Says(f) # Partial
  BY FlowAssumption DEF Says, Flow, Content

\* A flow begins at rest, as a draft without versions.
LEMMA FlowStarts == FlowInit => FlowIInv
<1> SUFFICES ASSUME FlowInit PROVE FlowIInv
  OBVIOUS
<1>1. PICK steps \in Graph :
        flow = [status |-> "DRAFT", version |-> 1, draft |-> NoGraph, steps |-> steps]
  BY DEF FlowInit
<1>2. /\ flow.status = "DRAFT" /\ flow.version = 1 /\ flow.draft = NoGraph /\ flow.steps = steps
      /\ flow \in Flow
  BY <1>1 DEF Flow, FlowStatus, Content
<1>3. MaxVersion \in Nat /\ MaxVersion >= 1 /\ NoGraph \notin Graph /\ Partial \notin Graph /\ NoGraph # Partial
  BY FlowAssumption
<1>4. /\ \A v \in Number : versions[v] = NoGraph /\ revision[v] = IF v = 1 THEN "whole" ELSE "none"
      /\ \A e \in Editor : edit[e] = NoEdit
      /\ versions \in [Number -> Content \cup {NoGraph}]
      /\ revision \in [Number -> {"none", "partial", "whole"}]
      /\ edit \in [Editor -> EditRow \cup {NoEdit}]
      /\ disturbed = FALSE
  BY DEF FlowInit
<1>5. FlowTypeOK
  <2>1. flow.version \in Number
    BY <1>2, <1>3 DEF Number
  <2>2. disturbed \in BOOLEAN
    BY <1>4
  <2>3. QED
    BY <1>2, <1>4, <2>1, <2>2, Zenon DEF FlowTypeOK
<1>6. HandsOK
  <2>1. ASSUME NEW e \in Editor PROVE edit[e].at = "idle"
    <3>1. edit[e] = NoEdit
      BY <1>4
    <3>2. QED
      BY <3>1 DEF NoEdit
  <2>2. QED
    BY <2>1 DEF HandsOK
<1>7. Upto(1)
  BY <1>3, <1>4 DEF Upto, Number
<1>8. NoVersionPartial /\ Quiet
  BY <1>2, <1>3, <1>4, <1>7 DEF NoVersionPartial, Quiet, AtRest, Served
<1>9. QED
  BY <1>5, <1>6, <1>8 DEF FlowIInv

\* An edit moves to another step, or ends: the rows and the numbers keep their
\* types, and if nothing disturbed it, it is enough to look at that edit.
LEMMA EditMoves ==
    ASSUME FlowIInv, NEW e \in Editor, NEW n \in EditRow \cup {NoEdit},
           edit' = [edit EXCEPT ![e] = n],
           n.at = "read" => n.number \in Number /\ n.number < MaxVersion,
           n.at = "issuing" => n.number \in Number,
           n.at \in {"written", "cleared"} => n.tells # NoGraph,
           flow' \in Flow, flow'.version \in Number,
           versions' \in [Number -> Content \cup {NoGraph}],
           revision' \in [Number -> {"none", "partial", "whole"}],
           disturbed' \in BOOLEAN,
           ~disturbed' => ~disturbed /\ NoVersionPartial'
                          /\ (\A f \in Editor \ {e} : edit[f] = NoEdit)
                          /\ IF n = NoEdit THEN AtRest' ELSE Phase(e)'
    PROVE  FlowIInv'
<1>0. edit \in [Editor -> EditRow \cup {NoEdit}]
  BY DEF FlowIInv, FlowTypeOK
<1>1. edit' \in [Editor -> EditRow \cup {NoEdit}] /\ edit'[e] = n
      /\ \A f \in Editor \ {e} : edit'[f] = edit[f]
  BY <1>0
<1>2. FlowTypeOK'
  BY <1>1 DEF FlowTypeOK, Number
<1>3. HandsOK'
  <2>1. \A f \in Editor \ {e} :
            /\ edit'[f].at = "read" => edit'[f].number \in Number /\ edit'[f].number < MaxVersion
            /\ edit'[f].at = "issuing" => edit'[f].number \in Number
            /\ edit'[f].at \in {"written", "cleared"} => edit'[f].tells # NoGraph
    BY <1>1 DEF FlowIInv, HandsOK
  <2>2. QED
    BY <1>1, <2>1 DEF HandsOK, Number
<1>4. ASSUME ~disturbed' PROVE Quiet' \/ \E f \in Editor : AtWork(f)'
  <2>1. CASE n = NoEdit
    <3>1. AtRest' /\ \A f \in Editor : edit'[f] = NoEdit
      BY <1>1, <1>4, <2>1
    <3>2. QED
      BY <3>1 DEF Quiet
  <2>2. CASE n # NoEdit
    <3>1. Phase(e)' /\ edit'[e] # NoEdit /\ \A f \in Editor \ {e} : edit'[f] = NoEdit
      BY <1>1, <1>4, <2>2
    <3>2. AtWork(e)'
      BY <3>1 DEF AtWork
    <3>3. QED
      BY <3>2
  <2>3. QED
    BY <2>1, <2>2
<1>5. QED
  BY <1>2, <1>3, <1>4 DEF FlowIInv

\* What is known of an edit at work, when nothing disturbed it.
LEMMA AtWorkAlone ==
    ASSUME FlowIInv, NEW e \in Editor, edit[e].at # "idle"
    PROVE  /\ edit[e] \in EditRow /\ edit[e] # NoEdit
           /\ ~disturbed => /\ NoVersionPartial /\ Phase(e)
                            /\ \A f \in Editor \ {e} : edit[f] = NoEdit
<1>1. edit[e] \in EditRow \cup {NoEdit} /\ edit[e] # NoEdit
  BY DEF FlowIInv, FlowTypeOK, NoEdit
<1>2. ASSUME ~disturbed
      PROVE  NoVersionPartial /\ Phase(e) /\ \A f \in Editor \ {e} : edit[f] = NoEdit
  <2>1. NoVersionPartial /\ \E f \in Editor : AtWork(f)
    BY <1>1, <1>2 DEF FlowIInv, Quiet
  <2>2. PICK f \in Editor : AtWork(f)
    BY <2>1
  <2>3. f = e
    BY <1>1, <2>2 DEF AtWork
  <2>4. QED
    BY <2>1, <2>2, <2>3 DEF AtWork
<1>3. QED
  BY <1>1, <1>2

\* An edit begins.
LEMMA EditBegins ==
    ASSUME FlowIInv, NEW e \in Editor, NEW n \in EditRow,
           edit' = [edit EXCEPT ![e] = n], Begin(e),
           n.at = "read", n.number = flow.version, n.keeps => n.status = flow.status,
           ~disturbed => n.draws # Partial /\ n.content # Partial,
           n.content # NoGraph => n.content = n.draws /\ n.tells = NoGraph
    PROVE  FlowIInv'
<1>1. /\ edit[e] = NoEdit /\ flow.version < MaxVersion
      /\ disturbed' = (disturbed \/ Overlaps(e))
      /\ UNCHANGED <<flow, versions, revision>>
  BY DEF Begin
<1>2. /\ flow \in Flow /\ flow.version \in Number
      /\ versions \in [Number -> Content \cup {NoGraph}]
      /\ revision \in [Number -> {"none", "partial", "whole"}]
      /\ edit \in [Editor -> EditRow \cup {NoEdit}]
      /\ disturbed \in BOOLEAN
  BY DEF FlowIInv, FlowTypeOK
<1>3. disturbed' \in BOOLEAN
  BY <1>1
<1>4. ASSUME ~disturbed'
      PROVE  /\ ~disturbed /\ NoVersionPartial' /\ \A f \in Editor \ {e} : edit[f] = NoEdit
             /\ Phase(e)'
  <2>1. ~disturbed /\ ~Overlaps(e)
    BY <1>1, <1>4, Zenon
  <2>2. \A f \in Editor : edit[f] = NoEdit
    BY <1>1, <2>1 DEF Overlaps
  <2>3. NoVersionPartial /\ AtRest
    BY <2>1, <2>2 DEF FlowIInv, AtWork, Quiet
  <2>4. NoVersionPartial' /\ AtRest'
    BY <1>1, <2>3 DEF NoVersionPartial, AtRest, Upto, Served, Says
  <2>5. edit'[e] = n /\ flow' = flow
    BY <1>1, <1>2
  <2>6. Phase(e)'
    <3>1. n.draws # Partial /\ n.content # Partial /\ flow.steps # Partial
      BY <2>1, <2>3 DEF AtRest
    <3>2. QED
      BY <2>4, <2>5, <3>1 DEF Phase
  <2>7. QED
    BY <2>1, <2>2, <2>4, <2>6
<1>5. n # NoEdit /\ n \in EditRow \cup {NoEdit} /\ n.at # "issuing" /\ n.number \in Number
  BY <1>2 DEF NoEdit
<1>6. QED
  BY <1>1, <1>2, <1>3, <1>4, <1>5, EditMoves

\* The row of a request that has just read the flow.
LEMMA ReadRow ==
    ASSUME FlowIInv, NEW status \in FlowStatus, NEW keeps \in BOOLEAN,
           NEW draws \in Content \cup {NoGraph}, NEW tells \in Graph \cup {NoGraph},
           NEW content \in Content \cup {NoGraph}, NEW n,
           n = [at |-> "read", number |-> flow.version, status |-> status, keeps |-> keeps,
                draws |-> draws, tells |-> tells, content |-> content]
    PROVE  /\ n \in EditRow
           /\ n.at = "read" /\ n.number = flow.version /\ n.status = status
           /\ n.keeps <=> keeps
           /\ n.draws = draws /\ n.tells = tells /\ n.content = content
<1>1. flow.version \in Nat
  BY DEF FlowIInv, FlowTypeOK, Flow
<1>2. n \in EditRow
  BY <1>1 DEF EditRow
<1>3. QED
  BY <1>2

\* An update takes what it read and leaves the flow alone.
LEMMA UpdateBegins ==
    ASSUME FlowIInv, NEW e \in Editor, BeginUpdate(e)
    PROVE  FlowIInv'
<1>1. PICK draws \in Graph \cup {NoGraph}, tells \in Graph \cup {NoGraph} :
        \/ \E status \in FlowStatus : Reads(e, status, FALSE, draws, tells, NoGraph)
        \/ Reads(e, flow.status, TRUE, draws, tells, NoGraph)
  BY DEF BeginUpdate
<1>2. PICK status \in FlowStatus, keeps \in BOOLEAN :
        /\ Reads(e, status, keeps, draws, tells, NoGraph)
        /\ keeps => status = flow.status
  <2>1. flow.status \in FlowStatus
    BY DEF FlowIInv, FlowTypeOK, Flow
  <2>2. QED
    BY <1>1, <2>1
<1>3. PICK n : n = [at |-> "read", number |-> flow.version, status |-> status, keeps |-> keeps,
                    draws |-> draws, tells |-> tells, content |-> NoGraph]
  OBVIOUS
<1>4. edit' = [edit EXCEPT ![e] = n] /\ Begin(e)
  BY <1>2, <1>3 DEF Reads, BeginUpdate
<1>5. draws \in Content \cup {NoGraph} /\ NoGraph \in Content \cup {NoGraph}
      /\ draws # Partial /\ NoGraph # Partial
  BY FlowAssumption DEF Content
<1>6. /\ n \in EditRow /\ n.at = "read" /\ n.number = flow.version /\ n.status = status
      /\ n.keeps <=> keeps
      /\ n.draws = draws /\ n.tells = tells /\ n.content = NoGraph
  BY <1>3, <1>5, ReadRow
<1>7. n.keeps => n.status = flow.status
  BY <1>2, <1>6
<1>8. QED
  BY <1>4, <1>5, <1>6, <1>7, EditBegins

\* A request that gives no graph, or the one it publishes.
LEMMA StatusBegins ==
    ASSUME FlowIInv, NEW e \in Editor,
           BeginPublish(e) \/ BeginArchive(e) \/ BeginRestore(e)
    PROVE  FlowIInv'
<1>1. PICK status \in FlowStatus, draws \in Content \cup {NoGraph} :
        /\ Reads(e, status, FALSE, draws, NoGraph, draws)
        /\ draws = NoGraph \/ \E v \in Number : draws = versions[v]
  <2>1. \A v \in Number : versions[v] \in Content \cup {NoGraph}
    BY DEF FlowIInv, FlowTypeOK
  <2>2. QED
    BY <2>1 DEF BeginPublish, BeginArchive, BeginRestore, FlowStatus
<1>2. PICK n : n = [at |-> "read", number |-> flow.version, status |-> status, keeps |-> FALSE,
                    draws |-> draws, tells |-> NoGraph, content |-> draws]
  OBVIOUS
<1>3. edit' = [edit EXCEPT ![e] = n] /\ Begin(e)
  BY <1>1, <1>2 DEF Reads, BeginPublish, BeginArchive, BeginRestore
<1>4. /\ n \in EditRow /\ n.at = "read" /\ n.number = flow.version /\ n.status = status
      /\ ~n.keeps
      /\ n.draws = draws /\ n.tells = NoGraph /\ n.content = draws
  <2>1. PICK no \in BOOLEAN, nothing \in Graph \cup {NoGraph} : no = FALSE /\ nothing = NoGraph
    OBVIOUS
  <2>2. n = [at |-> "read", number |-> flow.version, status |-> status, keeps |-> no,
             draws |-> draws, tells |-> nothing, content |-> draws]
    BY <1>2, <2>1
  <2>3. /\ n \in EditRow /\ n.at = "read" /\ n.number = flow.version /\ n.status = status
        /\ n.keeps <=> no
        /\ n.draws = draws /\ n.tells = nothing /\ n.content = draws
    BY <2>2, ReadRow
  <2>4. QED
    BY <2>1, <2>3
<1>5. ~disturbed => draws # Partial
  BY <1>1, FlowAssumption DEF FlowIInv, NoVersionPartial
<1>6. QED
  BY <1>3, <1>4, <1>5, EditBegins

\* An edit goes on to a phase, with its number, what it tells and what it records.
GoesOn(e, phase, number, tells, content) ==
    \E n \in EditRow :
        /\ edit' = [edit EXCEPT ![e] = n]
        /\ n.at = phase /\ n.number = number /\ n.tells = tells /\ n.content = content
        /\ n.status = "PUBLISHED" <=> edit[e].status = "PUBLISHED"
        /\ n.draws = NoGraph

\* The row of an edit that goes on.
LEMMA NextRow ==
    ASSUME FlowIInv, NEW e \in Editor, edit[e] \in EditRow,
           NEW phase \in {"written", "cleared", "filled", "revised", "issuing"},
           NEW number \in Nat, NEW tells \in Graph \cup {NoGraph},
           NEW content \in Content \cup {NoGraph},
           Advance(e, phase, number, tells, content)
    PROVE  GoesOn(e, phase, number, tells, content)
<1>1. PICK s \in FlowStatus : s = IF edit[e].status = "PUBLISHED" THEN "PUBLISHED" ELSE "DRAFT"
  BY DEF FlowStatus
<1>2. PICK n : n = [at |-> phase, number |-> number, status |-> s, keeps |-> FALSE,
                    draws |-> NoGraph, tells |-> tells, content |-> content]
  OBVIOUS
<1>3. n \in EditRow
  BY <1>2 DEF EditRow
<1>4. edit' = [edit EXCEPT ![e] = n]
  BY <1>1, <1>2 DEF Advance
<1>5. /\ n.at = phase /\ n.number = number /\ n.tells = tells /\ n.content = content
      /\ n.status = s /\ n.draws = NoGraph
  BY <1>2
<1>6. s = "PUBLISHED" <=> edit[e].status = "PUBLISHED"
  BY <1>1
<1>7. QED
  BY <1>3, <1>4, <1>5, <1>6 DEF GoesOn

\* The flow's row is written: its steps are to be replaced, or its number told.
LEMMA FlowWritten ==
    ASSUME FlowIInv, NEW e \in Editor, WriteFlow(e)
    PROVE  FlowIInv'
<1>1. edit[e].at = "read" /\ UNCHANGED <<versions, revision, disturbed>>
  BY DEF WriteFlow
<1>2. PICK r : r = edit[e]
  OBVIOUS
<1>3. /\ r \in EditRow /\ r.at = "read" /\ r.number \in Nat /\ r.status \in FlowStatus
      /\ r.draws \in Content \cup {NoGraph} /\ r.tells \in Graph \cup {NoGraph}
      /\ r.content \in Content \cup {NoGraph}
      /\ r.number \in Number /\ r.number < MaxVersion
  BY <1>1, <1>2, AtWorkAlone, EditShape DEF FlowIInv, HandsOK
<1>4. /\ flow \in Flow /\ flow.status \in FlowStatus /\ flow.version \in Number
      /\ flow.draft \in Content \cup {NoGraph} /\ flow.steps \in Content
      /\ versions \in [Number -> Content \cup {NoGraph}]
      /\ revision \in [Number -> {"none", "partial", "whole"}] /\ disturbed \in BOOLEAN
  BY DEF FlowIInv, FlowTypeOK, Flow
<1>5. PICK s, d : /\ s = IF r.keeps THEN flow.status ELSE r.status
                  /\ d = IF r.draws # NoGraph THEN r.draws ELSE flow.draft
  OBVIOUS
<1>6. s \in FlowStatus /\ d \in Content \cup {NoGraph}
  BY <1>3, <1>4, <1>5
<1>7. flow' = [status |-> s, version |-> r.number + 1, draft |-> d, steps |-> flow.steps]
  BY <1>2, <1>5 DEF WriteFlow, NextNumber
<1>8. /\ flow' \in Flow /\ flow'.version \in Number
      /\ flow'.status = s /\ flow'.version = r.number + 1 /\ flow'.draft = d
      /\ flow'.steps = flow.steps
  BY <1>3, <1>4, <1>6, <1>7, FlowAssumption DEF Flow, Number
<1>9. PICK phase \in {"written", "filled"} :
        /\ phase = "written" <=> r.tells # NoGraph
        /\ Advance(e, phase, 0, r.tells, r.content)
  BY <1>2 DEF WriteFlow
<1>10. PICK n \in EditRow :
             /\ edit' = [edit EXCEPT ![e] = n]
             /\ n.at = phase /\ n.number = 0 /\ n.tells = r.tells /\ n.content = r.content
             /\ n.status = "PUBLISHED" <=> r.status = "PUBLISHED"
             /\ n.draws = NoGraph
  <2>1. PICK tells \in Graph \cup {NoGraph}, content \in Content \cup {NoGraph} :
             tells = r.tells /\ content = r.content
    BY <1>3
  <2>2. /\ edit[e] \in EditRow /\ 0 \in Nat
        /\ phase \in {"written", "cleared", "filled", "revised", "issuing"}
    BY <1>2, <1>3, <1>9
  <2>3. Advance(e, phase, 0, tells, content)
    BY <1>9, <2>1
  <2>4. GoesOn(e, phase, 0, tells, content)
    BY <2>2, <2>3, NextRow
  <2>5. QED
    BY <1>2, <2>1, <2>4 DEF GoesOn
<1>11. /\ n # NoEdit /\ n \in EditRow \cup {NoEdit} /\ n.at # "issuing" /\ n.at # "read"
       /\ n.at \in {"written", "cleared"} => n.tells # NoGraph
  BY <1>9, <1>10 DEF NoEdit
<1>12. ASSUME ~disturbed'
       PROVE  /\ ~disturbed /\ NoVersionPartial' /\ \A f \in Editor \ {e} : edit[f] = NoEdit
              /\ Phase(e)'
  <2>1. ~disturbed
    BY <1>1, <1>12, Zenon
  <2>2. NoVersionPartial /\ Phase(e) /\ \A f \in Editor \ {e} : edit[f] = NoEdit
    BY <1>1, <2>1, AtWorkAlone
  <2>3. /\ r.draws # Partial /\ r.content # Partial /\ AtRest /\ r.number = flow.version
        /\ r.keeps => r.status = flow.status
        /\ r.content # NoGraph => r.content = r.draws /\ r.tells = NoGraph
    BY <1>2, <1>3, <2>2 DEF Phase
  <2>4. s = r.status
    BY <1>5, <2>3
  <2>5. d # Partial /\ (r.content # NoGraph => r.content = d)
    BY <1>5, <2>2, <2>3 DEF NoVersionPartial
  <2>6. NoVersionPartial'
    BY <1>1, <1>8, <2>2, <2>5 DEF NoVersionPartial
  <2>7. flow'.version - 1 = flow.version
    BY <1>8, <1>3, <2>3
  <2>8. \A v \in Number : (v <= flow.version => revision'[v] = "whole")
                          /\ (v > flow.version => versions'[v] = NoGraph)
    BY <1>1, <2>3 DEF AtRest, Upto
  <2>9. edit'[e] = n
    BY <1>10 DEF FlowIInv, FlowTypeOK
  <2>10. flow.steps # Partial
    BY <2>3 DEF AtRest
  <2>11. /\ NoGraph # Partial
         /\ n.status = "PUBLISHED" <=> flow'.status = "PUBLISHED"
    BY <1>8, <1>10, <2>4, FlowAssumption
  <2>12. Upto(flow.version - 1)'
    BY <2>7, <2>8 DEF Upto
  <2>13. Phase(e)'
    BY <1>8, <1>9, <1>10, <2>3, <2>5, <2>9, <2>10, <2>11, <2>12 DEF Phase
  <2>14. QED
    BY <2>1, <2>2, <2>6, <2>13
<1>13. /\ versions' \in [Number -> Content \cup {NoGraph}]
       /\ revision' \in [Number -> {"none", "partial", "whole"}]
       /\ disturbed' \in BOOLEAN
  BY <1>1, <1>4
<1>14. QED
  BY <1>8, <1>10, <1>11, <1>12, <1>13, EditMoves

\* The steps are taken away, then written anew.
LEMMA StepsReplaced ==
    ASSUME FlowIInv, NEW e \in Editor, ClearSteps(e) \/ FillSteps(e)
    PROVE  FlowIInv'
<1>1. UNCHANGED <<versions, revision, disturbed>>
  BY DEF ClearSteps, FillSteps
<1>2. PICK r : r = edit[e]
  OBVIOUS
<1>3. /\ r \in EditRow /\ r.at \in {"written", "cleared"}
      /\ r.tells \in Graph \cup {NoGraph} /\ r.content \in Content \cup {NoGraph}
  BY <1>2, AtWorkAlone, EditShape DEF ClearSteps, FillSteps
<1>4. /\ flow \in Flow /\ flow.status \in FlowStatus /\ flow.version \in Number /\ flow.version \in Nat
      /\ flow.draft \in Content \cup {NoGraph} /\ flow.steps \in Content
      /\ versions \in [Number -> Content \cup {NoGraph}]
      /\ revision \in [Number -> {"none", "partial", "whole"}] /\ disturbed \in BOOLEAN
  BY DEF FlowIInv, FlowTypeOK, Flow
<1>5. ASSUME NEW steps \in Content, NEW phase \in {"cleared", "filled"},
             NEW tells \in Graph \cup {NoGraph},
             flow' = [status |-> flow.status, version |-> flow.version, draft |-> flow.draft,
                      steps |-> steps],
             Advance(e, phase, 0, tells, r.content),
             phase = "cleared" => steps = Partial /\ tells # NoGraph,
             phase = "filled" => steps # Partial
      PROVE  FlowIInv'
  <2>1. /\ flow' \in Flow /\ flow'.version \in Number
        /\ flow'.status = flow.status /\ flow'.version = flow.version
        /\ flow'.draft = flow.draft /\ flow'.steps = steps
    BY <1>4, <1>5 DEF Flow
  <2>2. PICK n \in EditRow :
             /\ edit' = [edit EXCEPT ![e] = n]
             /\ n.at = phase /\ n.number = 0 /\ n.tells = tells /\ n.content = r.content
             /\ n.status = "PUBLISHED" <=> r.status = "PUBLISHED"
             /\ n.draws = NoGraph
    <3>1. /\ edit[e] \in EditRow /\ 0 \in Nat
          /\ phase \in {"written", "cleared", "filled", "revised", "issuing"}
      BY <1>2, <1>3, <1>5
    <3>2. GoesOn(e, phase, 0, tells, r.content)
      BY <1>3, <1>5, <3>1, NextRow
    <3>3. QED
      BY <1>2, <3>2 DEF GoesOn
  <2>3. /\ n # NoEdit /\ n \in EditRow \cup {NoEdit} /\ n.at # "issuing" /\ n.at # "read"
        /\ n.at \in {"written", "cleared"} => n.tells # NoGraph
    BY <1>5, <2>2 DEF NoEdit
  <2>4. ASSUME ~disturbed'
        PROVE  /\ ~disturbed /\ NoVersionPartial' /\ \A f \in Editor \ {e} : edit[f] = NoEdit
               /\ Phase(e)'
    <3>1. ~disturbed
      BY <1>1, <2>4, Zenon
    <3>2. NoVersionPartial /\ Phase(e) /\ \A f \in Editor \ {e} : edit[f] = NoEdit
      BY <1>2, <1>3, <3>1, AtWorkAlone
    <3>3. /\ r.status = "PUBLISHED" <=> flow.status = "PUBLISHED"
          /\ Upto(flow.version - 1) /\ r.content = NoGraph
      BY <1>2, <1>3, <3>2 DEF Phase
    <3>4. NoVersionPartial' /\ Upto(flow.version - 1)'
      BY <1>1, <2>1, <3>2, <3>3 DEF NoVersionPartial, Upto
    <3>5. edit'[e] = n
      BY <2>2 DEF FlowIInv, FlowTypeOK
    <3>6. /\ NoGraph # Partial
          /\ n.status = "PUBLISHED" <=> flow'.status = "PUBLISHED"
          /\ steps = Partial <=> n.at = "cleared"
      BY <1>5, <2>1, <2>2, <3>1, <3>3, FlowAssumption
    <3>7. Phase(e)'
      BY <1>5, <2>1, <2>2, <3>3, <3>4, <3>5, <3>6 DEF Phase
    <3>8. QED
      BY <3>1, <3>2, <3>4, <3>7
  <2>5. /\ versions' \in [Number -> Content \cup {NoGraph}]
        /\ revision' \in [Number -> {"none", "partial", "whole"}]
        /\ disturbed' \in BOOLEAN
    BY <1>1, <1>4
  <2>6. QED
    BY <2>1, <2>2, <2>3, <2>4, <2>5, EditMoves
<1>6. r.tells \in Graph
  BY <1>2, <1>3 DEF FlowIInv, HandsOK
<1>7. CASE ClearSteps(e)
  <2>1. Partial \in Content
    BY DEF Content
  <2>2. QED
    <3>1. /\ flow' = [status |-> flow.status, version |-> flow.version, draft |-> flow.draft,
                      steps |-> Partial]
          /\ Advance(e, "cleared", 0, r.tells, r.content)
      BY <1>2, <1>7 DEF ClearSteps
    <3>2. r.tells \in Graph \cup {NoGraph} /\ r.tells # NoGraph
      BY <1>6, FlowAssumption
    <3>3. QED
      BY <1>5, <2>1, <3>1, <3>2
<1>8. CASE FillSteps(e)
  <2>1. /\ flow' = [status |-> flow.status, version |-> flow.version, draft |-> flow.draft,
                    steps |-> r.tells]
        /\ Advance(e, "filled", 0, NoGraph, r.content)
    BY <1>2, <1>8 DEF FillSteps, NewSteps
  <2>2. r.tells \in Content /\ r.tells # Partial /\ NoGraph \in Graph \cup {NoGraph}
    BY <1>6, FlowAssumption DEF Content
  <2>3. QED
    BY <1>5, <2>1, <2>2
<1>9. QED
  BY <1>7, <1>8

\* A step that leaves the flow and ends the edit, or takes it on to a later step.
LEMMA LaterStep ==
    ASSUME FlowIInv, NEW e \in Editor, edit[e].at \in {"filled", "revised", "issuing"},
           UNCHANGED <<flow, disturbed>>,
           versions' \in [Number -> Content \cup {NoGraph}],
           revision' \in [Number -> {"none", "partial", "whole"}],
           NEW n \in EditRow \cup {NoEdit}, edit' = [edit EXCEPT ![e] = n],
           n # NoEdit => n.at \in {"revised", "issuing"},
           n.at = "issuing" => n.number \in Number,
           ~disturbed => NoVersionPartial' /\ IF n = NoEdit THEN AtRest' ELSE Phase(e)'
    PROVE  FlowIInv'
<1>1. /\ flow' \in Flow /\ flow'.version \in Number /\ disturbed' \in BOOLEAN
  <2>1. flow \in Flow /\ flow.version \in Number /\ disturbed \in BOOLEAN
    BY DEF FlowIInv, FlowTypeOK
  <2>2. QED
    BY <2>1
<1>2. ~disturbed' => ~disturbed
  BY Zenon
<1>3. ~disturbed => \A f \in Editor \ {e} : edit[f] = NoEdit
  BY AtWorkAlone
<1>4. n.at # "read" /\ n.at \notin {"written", "cleared"}
  BY DEF NoEdit
<1>5. QED
  BY <1>1, <1>2, <1>3, <1>4, EditMoves

\* What is known before such a step.
LEMMA BeforeLater ==
    ASSUME FlowIInv, NEW e \in Editor, edit[e].at \in {"filled", "revised", "issuing"}
    PROVE  /\ edit[e] \in EditRow /\ edit[e].number \in Nat
           /\ edit[e].content \in Content \cup {NoGraph}
           /\ flow \in Flow /\ flow.version \in Number /\ flow.version \in Nat
           /\ flow.draft \in Content \cup {NoGraph} /\ flow.steps \in Content
           /\ versions \in [Number -> Content \cup {NoGraph}]
           /\ revision \in [Number -> {"none", "partial", "whole"}]
           /\ ~disturbed =>
                /\ NoVersionPartial /\ flow.steps # Partial /\ edit[e].content # Partial
                /\ edit[e].status = "PUBLISHED" <=> flow.status = "PUBLISHED"
<1>1. edit[e] \in EditRow /\ edit[e].number \in Nat /\ edit[e].content \in Content \cup {NoGraph}
  BY AtWorkAlone, EditShape
<1>2. /\ flow \in Flow /\ flow.version \in Number
      /\ versions \in [Number -> Content \cup {NoGraph}]
      /\ revision \in [Number -> {"none", "partial", "whole"}]
  BY DEF FlowIInv, FlowTypeOK
<1>3. /\ flow.draft \in Content \cup {NoGraph} /\ flow.steps \in Content /\ flow.version \in Nat
  BY <1>2 DEF Flow
<1>4. ASSUME ~disturbed
      PROVE  /\ NoVersionPartial /\ flow.steps # Partial /\ edit[e].content # Partial
             /\ edit[e].status = "PUBLISHED" <=> flow.status = "PUBLISHED"
  BY <1>4, AtWorkAlone DEF Phase
<1>5. QED
  BY <1>1, <1>2, <1>3, <1>4

\* The revision is recorded: the edit ends, or goes on to publish.
LEMMA Revised ==
    ASSUME FlowIInv, NEW e \in Editor, Revise(e)
    PROVE  FlowIInv'
<1>1. edit[e].at = "filled" /\ UNCHANGED <<flow, versions, disturbed>>
  BY DEF Revise
<1>2. PICK r : r = edit[e]
  OBVIOUS
<1>3. /\ r \in EditRow /\ r.at = "filled" /\ r.content \in Content \cup {NoGraph}
      /\ flow.version \in Number /\ flow.version \in Nat
      /\ versions \in [Number -> Content \cup {NoGraph}]
      /\ revision \in [Number -> {"none", "partial", "whole"}]
  BY <1>1, <1>2, BeforeLater
<1>4. PICK w \in {"partial", "whole"} :
        /\ revision' = [revision EXCEPT ![flow.version] = w]
        /\ w = "whole" <=> flow.steps # Partial
  BY DEF Revise
<1>5. revision' \in [Number -> {"none", "partial", "whole"}]
  BY <1>3, <1>4
<1>6. ASSUME ~disturbed
      PROVE  /\ NoVersionPartial' /\ flow'.steps # Partial /\ Upto(flow.version)'
             /\ versions'[flow.version] = NoGraph
             /\ r.status = "PUBLISHED" <=> flow'.status = "PUBLISHED"
             /\ r.content # Partial /\ (r.content # NoGraph => r.content = flow'.draft)
  <2>1. NoVersionPartial /\ Phase(e)
    BY <1>1, <1>6, AtWorkAlone
  <2>2. /\ Upto(flow.version - 1)
        /\ r.status = "PUBLISHED" <=> flow.status = "PUBLISHED"
        /\ r.content # Partial /\ (r.content # NoGraph => r.content = flow.draft)
        /\ flow.steps # Partial
    BY <1>2, <1>3, <2>1 DEF Phase
  <2>3. NoVersionPartial'
    BY <1>1, <2>1 DEF NoVersionPartial
  <2>4. \A v \in Number : v \in Nat
    BY FlowAssumption DEF Number
  <2>5. \A v \in Number : (v <= flow.version => revision'[v] = "whole")
                          /\ (v > flow.version => versions'[v] = NoGraph)
    BY <1>1, <1>3, <1>4, <2>2, <2>4 DEF Upto
  <2>6. versions'[flow.version] = NoGraph
    BY <1>1, <1>3, <2>2 DEF Upto
  <2>7. Upto(flow.version)'
    BY <1>1, <2>5 DEF Upto
  <2>8. QED
    BY <1>1, <2>2, <2>3, <2>6, <2>7
<1>7. CASE r.status = "PUBLISHED"
  <2>1. Advance(e, "revised", 0, NoGraph, r.content)
    BY <1>2, <1>7 DEF Revise
  <2>2. PICK n \in EditRow :
             /\ edit' = [edit EXCEPT ![e] = n]
             /\ n.at = "revised" /\ n.number = 0 /\ n.content = r.content
             /\ n.status = "PUBLISHED" <=> r.status = "PUBLISHED"
             /\ n.draws = NoGraph
    <3>1. /\ edit[e] \in EditRow /\ 0 \in Nat /\ NoGraph \in Graph \cup {NoGraph}
          /\ "revised" \in {"written", "cleared", "filled", "revised", "issuing"}
      BY <1>2, <1>3
    <3>2. GoesOn(e, "revised", 0, NoGraph, r.content)
      BY <1>3, <2>1, <3>1, NextRow
    <3>3. QED
      BY <1>2, <3>2 DEF GoesOn
  <2>3. n # NoEdit /\ edit'[e] = n
    BY <2>2 DEF NoEdit, FlowIInv, FlowTypeOK
  <2>4. ~disturbed => Phase(e)'
    BY <1>1, <1>6, <1>7, <2>2, <2>3, FlowAssumption DEF Phase
  <2>5. QED
    BY <1>1, <1>3, <1>5, <1>6, <2>2, <2>3, <2>4, LaterStep
<1>8. CASE r.status # "PUBLISHED"
  <2>1. edit' = [edit EXCEPT ![e] = NoEdit]
    BY <1>2, <1>8 DEF Revise, Closes
  <2>2. ~disturbed => AtRest'
    BY <1>1, <1>6, <1>8 DEF AtRest, Served
  <2>3. NoEdit.at = "idle" /\ NoEdit \in EditRow \cup {NoEdit}
    BY DEF NoEdit
  <2>4. QED
    BY <1>1, <1>3, <1>5, <1>6, <2>1, <2>2, <2>3, LaterStep
<1>9. QED
  BY <1>7, <1>8

\* Nothing but the edit changes.
LEMMA VersionLookedUp ==
    ASSUME FlowIInv, NEW e \in Editor, LookUpVersion(e)
    PROVE  FlowIInv'
<1>1. edit[e].at = "revised" /\ UNCHANGED <<flow, versions, revision, disturbed>>
  BY DEF LookUpVersion
<1>2. PICK r : r = edit[e]
  OBVIOUS
<1>3. /\ r \in EditRow /\ r.at = "revised" /\ r.content \in Content \cup {NoGraph}
      /\ flow \in Flow /\ flow.version \in Number /\ flow.version \in Nat
      /\ versions \in [Number -> Content \cup {NoGraph}]
      /\ revision \in [Number -> {"none", "partial", "whole"}]
  BY <1>1, <1>2, BeforeLater
<1>4. /\ versions' \in [Number -> Content \cup {NoGraph}]
      /\ revision' \in [Number -> {"none", "partial", "whole"}]
  BY <1>1, <1>3
<1>5. ASSUME ~disturbed
      PROVE  /\ NoVersionPartial' /\ flow'.steps # Partial /\ Upto(flow.version)'
             /\ Says(flow) # Partial
             /\ versions[flow.version] = NoGraph /\ versions'[flow.version] = NoGraph
             /\ r.status = "PUBLISHED" /\ flow'.status = "PUBLISHED"
             /\ (r.content # NoGraph => r.content = Says(flow))
  <2>1. NoVersionPartial /\ Phase(e)
    BY <1>1, <1>5, AtWorkAlone
  <2>2. /\ Upto(flow.version) /\ r.status = "PUBLISHED" /\ flow.status = "PUBLISHED"
        /\ r.content # NoGraph => r.content = flow.draft
        /\ flow.steps # Partial /\ versions[flow.version] = NoGraph
    BY <1>2, <1>3, <2>1 DEF Phase
  <2>3. NoVersionPartial' /\ Upto(flow.version)'
    BY <1>1, <2>1, <2>2 DEF NoVersionPartial, Upto
  <2>4. r.content # NoGraph => r.content = Says(flow)
    BY <2>2 DEF Says
  <2>5. Says(flow) # Partial
    BY <2>1, <2>2 DEF Says, NoVersionPartial
  <2>6. QED
    BY <1>1, <2>2, <2>3, <2>4, <2>5
<1>6. CASE Unissued(flow.version)
  <2>1. PICK content : content = IF r.content # NoGraph THEN r.content ELSE Says(flow)
    OBVIOUS
  <2>2. content \in Content \cup {NoGraph} /\ (~disturbed => content = Says(flow))
    BY <1>3, <1>5, <2>1, SaysContent
  <2>3. Advance(e, "issuing", flow.version, NoGraph, content)
    BY <1>2, <1>6, <2>1 DEF LookUpVersion
  <2>4. PICK n \in EditRow :
             /\ edit' = [edit EXCEPT ![e] = n]
             /\ n.at = "issuing" /\ n.number = flow.version /\ n.content = content
             /\ n.status = "PUBLISHED" <=> r.status = "PUBLISHED"
             /\ n.draws = NoGraph
    <3>1. /\ edit[e] \in EditRow /\ NoGraph \in Graph \cup {NoGraph}
          /\ "issuing" \in {"written", "cleared", "filled", "revised", "issuing"}
      BY <1>2, <1>3
    <3>2. GoesOn(e, "issuing", flow.version, NoGraph, content)
      BY <1>3, <2>2, <2>3, <3>1, NextRow
    <3>3. QED
      BY <1>2, <3>2 DEF GoesOn
  <2>5. n # NoEdit /\ edit'[e] = n
    BY <2>4 DEF NoEdit, FlowIInv, FlowTypeOK
  <2>6. ASSUME ~disturbed PROVE Phase(e)'
    <3>1. content # Partial
      BY <1>5, <2>2, <2>6
    <3>2. content = Says(flow)' /\ flow' = flow
      BY <1>1, <2>2, <2>6 DEF Says
    <3>3. QED
      BY <1>5, <2>4, <2>5, <2>6, <3>1, <3>2, FlowAssumption DEF Phase
  <2>7. QED
    BY <1>1, <1>3, <1>4, <1>5, <2>4, <2>5, <2>6, LaterStep
<1>7. CASE ~Unissued(flow.version)
  <2>1. edit' = [edit EXCEPT ![e] = NoEdit]
    BY <1>7 DEF LookUpVersion, Closes
  <2>2. disturbed
    BY <1>5, <1>7 DEF Unissued
  <2>3. NoEdit.at = "idle" /\ NoEdit \in EditRow \cup {NoEdit}
    BY DEF NoEdit
  <2>4. QED
    BY <1>1, <1>4, <2>1, <2>2, <2>3, LaterStep
<1>8. QED
  BY <1>6, <1>7

\* The version is taken under the number that was looked up.
LEMMA VersionIssued ==
    ASSUME FlowIInv, NEW e \in Editor, IssueVersion(e)
    PROVE  FlowIInv'
<1>1. /\ edit[e].at = "issuing" /\ UNCHANGED <<flow, revision, disturbed>>
      /\ edit' = [edit EXCEPT ![e] = NoEdit]
  BY DEF IssueVersion, Closes
<1>2. PICK r : r = edit[e]
  OBVIOUS
<1>3. /\ r \in EditRow /\ r.at = "issuing" /\ r.content \in Content \cup {NoGraph}
      /\ flow \in Flow /\ flow.version \in Number
      /\ versions \in [Number -> Content \cup {NoGraph}]
      /\ revision \in [Number -> {"none", "partial", "whole"}]
      /\ r.number \in Number
  BY <1>1, <1>2, BeforeLater DEF FlowIInv, HandsOK
<1>4. /\ versions' \in [Number -> Content \cup {NoGraph}]
      /\ revision' \in [Number -> {"none", "partial", "whole"}]
  BY <1>1, <1>2, <1>3 DEF IssueVersion
<1>5. ASSUME ~disturbed PROVE NoVersionPartial' /\ AtRest'
  <2>1. NoVersionPartial /\ Phase(e)
    BY <1>1, <1>5, AtWorkAlone
  <2>2. /\ Upto(flow.version) /\ flow.status = "PUBLISHED"
        /\ r.number = flow.version /\ r.content = Says(flow) /\ r.content # Partial
        /\ flow.steps # Partial /\ versions[flow.version] = NoGraph
    BY <1>2, <1>3, <2>1 DEF Phase
  <2>3. versions' = [versions EXCEPT ![flow.version] = Says(flow)]
    BY <1>2, <2>2 DEF IssueVersion, Unissued
  <2>4. /\ versions'[flow.version] = Says(flow)
        /\ \A v \in Number : v # flow.version => versions'[v] = versions[v]
    BY <1>3, <2>3
  <2>5. flow.version \in Nat /\ \A v \in Number : v \in Nat
    BY <1>3, FlowAssumption DEF Number
  <2>6. Upto(flow.version)'
    BY <1>1, <2>2, <2>4, <2>5 DEF Upto
  <2>7. NoVersionPartial'
    BY <1>1, <2>1, <2>2, <2>4 DEF NoVersionPartial
  <2>8. Served'
    BY <1>1, <2>4 DEF Served, Says
  <2>9. QED
    BY <1>1, <2>2, <2>6, <2>7, <2>8 DEF AtRest
<1>6. NoEdit.at = "idle" /\ NoEdit \in EditRow \cup {NoEdit}
  BY DEF NoEdit
<1>7. QED
  BY <1>1, <1>4, <1>5, <1>6, LaterStep

\* An edit that breaks off counts as a disturbance.
LEMMA EditBroken ==
    ASSUME FlowIInv, NEW e \in Editor, Break(e)
    PROVE  FlowIInv'
<1>1. edit' = [edit EXCEPT ![e] = NoEdit] /\ disturbed' = TRUE /\ UNCHANGED <<flow, versions, revision>>
  BY DEF Break, Closes
<1>2. NoEdit.at = "idle" /\ NoEdit \in EditRow \cup {NoEdit}
  BY DEF NoEdit
<1>3. /\ flow' \in Flow /\ flow'.version \in Number
      /\ versions' \in [Number -> Content \cup {NoGraph}]
      /\ revision' \in [Number -> {"none", "partial", "whole"}]
  BY <1>1 DEF FlowIInv, FlowTypeOK
<1>4. QED
  BY <1>1, <1>2, <1>3, EditMoves

\* One step for each thing an editor does.
LEMMA FlowSteps == FlowIInv /\ [FlowNext]_flowVars => FlowIInv'
<1> SUFFICES ASSUME FlowIInv, [FlowNext]_flowVars PROVE FlowIInv'
  OBVIOUS
<1>1. CASE UNCHANGED flowVars
  <2>1. UNCHANGED <<flow, versions, revision, edit, disturbed>>
    BY <1>1 DEF flowVars
  <2>2. FlowTypeOK' /\ HandsOK'
    BY <2>1 DEF FlowIInv, FlowTypeOK, HandsOK, Number
  <2>3. Quiet' <=> Quiet
    BY <2>1 DEF Quiet, AtRest, Upto, Served, Says
  <2>4. ASSUME NEW e \in Editor, AtWork(e) PROVE AtWork(e)'
    <3>1. /\ Phase(e) /\ Upto(flow.version - 1)' = Upto(flow.version - 1)
          /\ Upto(flow.version)' = Upto(flow.version)
          /\ Served' = Served /\ Says(flow)' = Says(flow)
      BY <2>1, <2>4 DEF AtWork, Upto, Served, Says
    <3>2. Phase(e)'
      BY <2>1, <3>1 DEF Phase, AtRest
    <3>3. QED
      BY <2>1, <2>4, <3>2 DEF AtWork
  <2>5. NoVersionPartial' <=> NoVersionPartial
    BY <2>1 DEF NoVersionPartial
  <2>6. disturbed' <=> disturbed
    BY <2>1
  <2>7. QED
    BY <2>2, <2>3, <2>4, <2>5, <2>6 DEF FlowIInv
<1>2. CASE FlowNext
  BY <1>2, UpdateBegins, StatusBegins, FlowWritten, StepsReplaced, Revised, VersionLookedUp,
     VersionIssued, EditBroken
  DEF FlowNext
<1>3. QED
  BY <1>1, <1>2

\* It holds of every state.
THEOREM FlowInvariance == FlowSpec => []FlowIInv
  BY FlowStarts, FlowSteps, PTL DEF FlowSpec

\* For every flow, set of editors and number of versions: a flow whose edits did not
\* cross serves what its editor drew, under its last number, and has every revision
\* and version whole (updateServiceFlow, publishServiceFlow, restoreServiceFlow).
THEOREM EditsAreComplete == FlowSpec => []EditsAreWhole
<1>1. ASSUME FlowIInv PROVE EditsAreWhole
  <2>1. ASSUME ~disturbed, \A e \in Editor : edit[e] = NoEdit PROVE NoVersionPartial /\ AtRest
    BY <1>1, <2>1 DEF FlowIInv, AtWork, Quiet
  <2>2. PublishedIsServed
    <3>1. SUFFICES ASSUME flow.status = "PUBLISHED", ~disturbed, \A e \in Editor : edit[e] = NoEdit
                   PROVE  Latest(flow.version) /\ versions[flow.version] = Says(flow)
      BY <1>1 DEF PublishedIsServed, FlowIInv, FlowTypeOK
    <3>2. AtRest
      BY <2>1, <3>1
    <3>3. flow \in Flow /\ flow.version \in Number /\ \A v \in Number : v \in Nat
      BY <1>1, FlowAssumption DEF FlowIInv, FlowTypeOK, Number
    <3>4. versions[flow.version] = Says(flow) /\ Says(flow) # NoGraph
      BY <3>1, <3>2, <3>3, SaysContent DEF AtRest, Served
    <3>5. \A v \in Number : versions[v] # NoGraph => v <= flow.version
      BY <3>2, <3>3 DEF AtRest, Upto
    <3>6. QED
      BY <3>4, <3>5 DEF Latest
  <2>3. HistoryIsWhole
    <3>1. SUFFICES ASSUME ~disturbed, \A e \in Editor : edit[e] = NoEdit
                   PROVE  /\ \A v \in Number : versions[v] # Partial
                          /\ \A v \in 1 .. flow.version : revision[v] = "whole"
      BY DEF HistoryIsWhole
    <3>2. NoVersionPartial /\ AtRest
      BY <2>1, <3>1
    <3>3. flow.version \in 1 .. MaxVersion /\ MaxVersion \in Nat
      BY <1>1, FlowAssumption DEF FlowIInv, FlowTypeOK, Number
    <3>4. \A v \in 1 .. flow.version : v \in Number /\ v <= flow.version
      BY <3>3 DEF Number
    <3>5. QED
      BY <3>2, <3>4 DEF NoVersionPartial, AtRest, Upto
  <2>4. QED
    BY <1>1, <2>2, <2>3 DEF EditsAreWhole, FlowIInv
<1>2. QED
  BY <1>1, FlowInvariance, PTL

\* Whatever editors do at once, a published version never changes: sessions on it
\* keep the graph they started with.
THEOREM VersionsAreFinal == FlowSpec => VersionsStand
<1>1. FlowIInv /\ [FlowNext]_flowVars =>
        [\A v \in Number : versions[v] # NoGraph => versions'[v] = versions[v]]_flowVars
  <2> SUFFICES ASSUME FlowIInv, [FlowNext]_flowVars, NEW v \in Number, versions[v] # NoGraph
               PROVE  versions'[v] = versions[v]
    OBVIOUS
  <2>1. ASSUME NEW e \in Editor, IssueVersion(e) PROVE versions'[v] = versions[v]
    BY <2>1 DEF IssueVersion, Unissued, FlowIInv, FlowTypeOK
  <2>2. CASE UNCHANGED versions
    BY <2>2
  <2>3. QED
    BY <2>1, <2>2
    DEF FlowNext, flowVars, Begin, BeginUpdate, BeginPublish, BeginArchive, BeginRestore,
        WriteFlow, ClearSteps, FillSteps, Revise, LookUpVersion, Break
<1>2. QED
  BY <1>1, FlowInvariance, PTL DEF FlowSpec, VersionsStand

-----------------------------------------------------------------------------
(* Sessions of a version.                                                  *)

\* What a request has read of a session holds of it as long as nothing was written
\* on the session since.
AsRead(r) ==
    /\ session[r.on] = "OPEN"
    /\ r.op = "answer" /\ ~r.along.loop =>
        IF r.found THEN r.along.to \in StepAfter(r.on, r.node) ELSE StepAfter(r.on, r.node) = {}
    /\ r.op \in {"discard", "reconfirm"} => r.order = step[r.on][r.node].order
    /\ r.op = "complete" => Completable(r.on)

\* A request is on a session that was started.
SessionRequestOK(r) ==
    /\ r.op = "answer" => r.along \in Edge /\ r.along.from = r.node
    /\ session[r.on] # "NONE"
    /\ r.fresh => AsRead(r)

\* So are all of them.
SessionRequestsOK == \A t \in Tab : inFlight[t] # Nothing => SessionRequestOK(inFlight[t])

\* A session that was not started has nothing.
UnstartedOK ==
    \A s \in Session : session[s] = "NONE" =>
        /\ step[s] = [n \in Node |-> NoStep] /\ via[s] = [n \in Node |-> StartNode]
        /\ ~raced[s] /\ ~looped[s]

\* A session that was restarted is closed.
RestartsOK ==
    \A u \in Session : restartOf[u] # NoSession => session[restartOf[u]] \in {"RESTARTED", "COMPLETED"}

\* The steps are numbered from the start, each one after the step it was reached from.
Walk(s) ==
    /\ StartNode \in Materialised(s) /\ step[s][StartNode].order = 0
    /\ \A n \in Materialised(s) : step[s][n].order < Cardinality(Materialised(s))
    /\ \A i \in 0 .. (Cardinality(Materialised(s)) - 1) :
            \E n \in Materialised(s) : step[s][n].order = i
    /\ \A m \in Materialised(s) : via[s][m] \in Materialised(s)
    /\ \A n \in Materialised(s), m \in Materialised(s) :
            /\ step[s][n].order = step[s][m].order => n = m
            /\ Joined(s, n, m)
            /\ via[s][m] = n /\ m # n => step[s][n].order < step[s][m].order

\* The premise of every claim about a walk: no crossing, no loop.
WalksOK == \A s \in Session : session[s] # "NONE" /\ ~raced[s] /\ ~looped[s] => Walk(s)

\* The inductive invariant.
SessionIInv ==
    /\ SessionTypeOK
    /\ SessionRequestsOK
    /\ UnstartedOK
    /\ RestartsOK /\ RestartedOnce
    /\ WalksOK
    /\ CompletedIsSettled

\* A request that is in flight.
LEMMA RequestShape ==
    ASSUME SessionTypeOK, NEW t \in Tab, inFlight[t] # Nothing
    PROVE  LET r == inFlight[t]
           IN  /\ r \in RequestRow
               /\ r.op \in {"answer", "finish", "reopen", "facts", "discard", "reconfirm",
                            "restart", "complete"}
               /\ r.on \in Session /\ r.node \in Node /\ r.along \in Edge \cup {NoSession}
               /\ r.found \in BOOLEAN /\ r.order \in Nat /\ r.facts \in SUBSET Fact
               /\ r.fresh \in BOOLEAN
<1>1. inFlight[t] \in RequestRow
  BY DEF SessionTypeOK
<1>2. QED
  BY <1>1 DEF RequestRow

\* A session whose steps stay has the walk it had.
LEMMA WalkStays ==
    ASSUME NEW s \in Session, step'[s] = step[s], via'[s] = via[s]
    PROVE  /\ Materialised(s)' = Materialised(s)
           /\ \A n \in Node : StepAfter(s, n)' = StepAfter(s, n)
           /\ Completable(s)' <=> Completable(s)
           /\ Walk(s)' <=> Walk(s)
<1>1. Materialised(s)' = Materialised(s)
  BY DEF Materialised
<1>2. \A n \in Node : StepAfter(s, n)' = StepAfter(s, n)
  BY <1>1 DEF StepAfter
<1>3. Completable(s)' <=> Completable(s)
  BY <1>1 DEF Completable
<1>4. Walk(s)' <=> Walk(s)
  BY <1>1 DEF Walk, Joined
<1>5. QED
  BY <1>1, <1>2, <1>3, <1>4

\* What was read of a session stays read while nothing is written on it.
LEMMA ReadStays ==
    ASSUME NEW r, r.on \in Session, r.op = "answer" \/ r.op \in {"discard", "reconfirm"} => r.node \in Node,
           session'[r.on] = session[r.on], step'[r.on] = step[r.on], AsRead(r)
    PROVE  AsRead(r)'
<1>1. Materialised(r.on)' = Materialised(r.on)
  BY DEF Materialised
<1>2. StepAfter(r.on, r.node)' = StepAfter(r.on, r.node)
  BY <1>1 DEF StepAfter
<1>3. Completable(r.on)' <=> Completable(r.on)
  BY <1>1 DEF Completable
<1>4. QED
  BY <1>2, <1>3 DEF AsRead

\* Nothing is started at first.
LEMMA SessionStarts == SessionInit => SessionIInv
<1> SUFFICES ASSUME SessionInit PROVE SessionIInv
  OBVIOUS
<1>1. \A s \in Session :
        /\ session[s] = "NONE" /\ step[s] = [n \in Node |-> NoStep]
        /\ via[s] = [n \in Node |-> StartNode] /\ restartOf[s] = NoSession
        /\ raced[s] = FALSE /\ looped[s] = FALSE
  BY DEF SessionInit
<1>2. \A t \in Tab : inFlight[t] = Nothing
  BY DEF SessionInit
<1>3. SessionTypeOK
  <2>1. StartNode \in Node /\ NoStep \in StepRow
    BY SessionAssumption DEF StepRow
  <2>2. QED
    BY <2>1 DEF SessionInit, SessionTypeOK
<1>4. SessionRequestsOK
  BY <1>2 DEF SessionRequestsOK
<1>5. UnstartedOK
  BY <1>1 DEF UnstartedOK
<1>6. RestartsOK /\ RestartedOnce /\ WalksOK /\ CompletedIsSettled
  BY <1>1 DEF RestartsOK, RestartedOnce, WalksOK, CompletedIsSettled
<1>7. QED
  BY <1>3, <1>4, <1>5, <1>6 DEF SessionIInv

\* The requests of the next state, one by one.
LEMMA RequestsNext ==
    ASSUME \A t \in Tab : \A r : r = inFlight'[t] /\ r # Nothing => SessionRequestOK(r)'
    PROVE  SessionRequestsOK'
<1>1. SUFFICES ASSUME NEW t \in Tab, inFlight'[t] # Nothing PROVE SessionRequestOK(inFlight[t])'
  BY DEF SessionRequestsOK, Nothing
<1>2. PICK r : r = inFlight'[t]
  OBVIOUS
<1>3. SessionRequestOK(r)'
  BY <1>1, <1>2
<1>4. QED
  BY <1>2, <1>3 DEF SessionRequestOK, AsRead, StepAfter, Completable, Materialised

\* A request reads.
LEMMA SessionAsked ==
    ASSUME SessionIInv, NEW n \in RequestRow, NEW t \in Tab,
           inFlight' = [inFlight EXCEPT ![t] = n], SessionRequestOK(n),
           UNCHANGED <<session, step, facts, restartOf, via, raced, looped>>
    PROVE  SessionIInv'
<1>1. inFlight'[t] = n /\ \A u \in Tab \ {t} : inFlight'[u] = inFlight[u]
  BY DEF SessionIInv, SessionTypeOK
<1>2. SessionTypeOK'
  BY DEF SessionIInv, SessionTypeOK
<1>3. \A s \in Session : /\ Walk(s)' <=> Walk(s)
                         /\ Materialised(s)' = Materialised(s)
  BY WalkStays
<1>4. \A r \in RequestRow : SessionRequestOK(r) => SessionRequestOK(r)'
  <2>1. SUFFICES ASSUME NEW r \in RequestRow, SessionRequestOK(r) PROVE SessionRequestOK(r)'
    OBVIOUS
  <2>2. r.on \in Session /\ r.node \in Node
    BY DEF RequestRow
  <2>3. r.fresh => AsRead(r)'
    BY <2>1, <2>2, ReadStays DEF SessionRequestOK
  <2>4. QED
    BY <2>1, <2>3 DEF SessionRequestOK
<1>5. SessionRequestsOK'
  <2>1. SUFFICES ASSUME NEW u \in Tab, NEW r, r = inFlight'[u], r # Nothing PROVE SessionRequestOK(r)'
    BY RequestsNext
  <2>2. CASE u = t
    BY <1>1, <1>4, <2>1, <2>2
  <2>3. CASE u # t
    <3>1. r = inFlight[u] /\ r \in RequestRow /\ SessionRequestOK(r)
      BY <1>1, <2>1, <2>3, RequestShape DEF SessionIInv, SessionRequestsOK
    <3>2. QED
      BY <1>4, <3>1
  <2>4. QED
    BY <2>2, <2>3
<1>6. UnstartedOK' /\ RestartsOK' /\ RestartedOnce'
  BY DEF SessionIInv, UnstartedOK, RestartsOK, RestartedOnce
<1>7. WalksOK' /\ CompletedIsSettled'
  BY <1>3 DEF SessionIInv, WalksOK, CompletedIsSettled
<1>8. QED
  BY <1>2, <1>5, <1>6, <1>7 DEF SessionIInv

\* A request ends without a write.
LEMMA SessionEnded ==
    ASSUME SessionIInv, NEW t \in Tab, Refused(t)
    PROVE  SessionIInv'
<1>1. /\ inFlight' = [inFlight EXCEPT ![t] = Nothing]
      /\ UNCHANGED <<session, step, facts, restartOf, via, raced, looped>>
  BY DEF Refused
<1>2. inFlight'[t] = Nothing /\ \A u \in Tab \ {t} : inFlight'[u] = inFlight[u]
  BY <1>1 DEF SessionIInv, SessionTypeOK
<1>3. SessionTypeOK'
  BY <1>1 DEF SessionIInv, SessionTypeOK
<1>4. \A s \in Session : /\ Walk(s)' <=> Walk(s)
                         /\ Materialised(s)' = Materialised(s)
  BY <1>1, WalkStays
<1>5. SessionRequestsOK'
  <2>1. SUFFICES ASSUME NEW u \in Tab, NEW r, r = inFlight'[u], r # Nothing PROVE SessionRequestOK(r)'
    BY RequestsNext
  <2>2. r = inFlight[u] /\ r.on \in Session /\ r.node \in Node /\ SessionRequestOK(r)
    BY <1>2, <2>1, RequestShape DEF SessionIInv, SessionRequestsOK
  <2>3. r.fresh => AsRead(r)'
    BY <1>1, <2>2, ReadStays DEF SessionRequestOK
  <2>4. QED
    BY <1>1, <2>2, <2>3 DEF SessionRequestOK
<1>6. UnstartedOK' /\ RestartsOK' /\ RestartedOnce'
  BY <1>1 DEF SessionIInv, UnstartedOK, RestartsOK, RestartedOnce
<1>7. WalksOK' /\ CompletedIsSettled'
  BY <1>1, <1>4 DEF SessionIInv, WalksOK, CompletedIsSettled
<1>8. QED
  BY <1>3, <1>5, <1>6, <1>7 DEF SessionIInv

\* What a write leaves in flight: the requests on other sessions as they were,
\* those on this one with what they read out of date.
LEMMA LeftInFlight ==
    ASSUME SessionIInv, NEW t \in Tab, NEW s \in Session, Answers(t, s), inFlight[t] # Nothing,
           NEW u \in Tab, NEW r, r = inFlight'[u], r # Nothing
    PROVE  /\ u # t /\ inFlight[u] # Nothing
           /\ r \in RequestRow /\ r.on = inFlight[u].on
           /\ r.op = "answer" => r.along \in Edge /\ r.along.from = r.node
           /\ r.on # s => r = inFlight[u]
           /\ r.on = s => ~r.fresh
<1>1. /\ u # t /\ inFlight[u] # Nothing
      /\ inFlight'[u] = IF inFlight[u].on # s THEN inFlight[u]
                        ELSE [op |-> inFlight[u].op, on |-> s, node |-> inFlight[u].node,
                              along |-> inFlight[u].along, found |-> inFlight[u].found,
                              order |-> inFlight[u].order, facts |-> inFlight[u].facts,
                              fresh |-> FALSE]
  BY DEF Answers
<1>2. PICK q : q = inFlight[u]
  OBVIOUS
<1>3. /\ q \in RequestRow /\ q.on \in Session /\ SessionRequestOK(q)
      /\ q.op \in {"answer", "finish", "reopen", "facts", "discard", "reconfirm",
                            "restart", "complete"}
      /\ q.node \in Node /\ q.along \in Edge \cup {NoSession}
      /\ q.found \in BOOLEAN /\ q.order \in Nat /\ q.facts \in SUBSET Fact
  BY <1>1, <1>2, RequestShape DEF SessionIInv, SessionRequestsOK
<1>4. CASE q.on # s
  BY <1>1, <1>2, <1>3, <1>4 DEF SessionRequestOK
<1>5. CASE q.on = s
  <2>1. r = [op |-> q.op, on |-> s, node |-> q.node, along |-> q.along, found |-> q.found,
             order |-> q.order, facts |-> q.facts, fresh |-> FALSE]
    BY <1>1, <1>2, <1>5
  <2>2. r \in RequestRow
    BY <1>3, <2>1 DEF RequestRow
  <2>3. r.op = q.op /\ r.on = s /\ r.node = q.node /\ r.along = q.along /\ r.fresh = FALSE
    BY <2>1
  <2>4. q.op = "answer" => q.along \in Edge /\ q.along.from = q.node
    BY <1>3 DEF SessionRequestOK
  <2>5. QED
    BY <1>1, <1>2, <1>5, <2>2, <2>3, <2>4
<1>6. QED
  BY <1>4, <1>5

\* A write: it is enough to look at the session it is on, and at one that it starts.
LEMMA SessionWritten ==
    ASSUME SessionIInv, NEW t \in Tab, NEW s \in Session, Answers(t, s),
           inFlight[t] # Nothing, inFlight[t].on = s,
           session' \in [Session -> SessionStatus \cup {"NONE"}],
           step' \in [Session -> [Node -> StepRow]],
           facts' \in [Session -> SUBSET Fact],
           restartOf' \in [Session -> Session \cup {NoSession}],
           via' \in [Session -> [Node -> Node]],
           looped' \in [Session -> BOOLEAN],
           RestartsOK', RestartedOnce',
           session'[s] # "NONE",
           \A u \in Session \ {s} :
              \/ session'[u] = session[u] /\ step'[u] = step[u] /\ via'[u] = via[u]
                 /\ (looped'[u] <=> looped[u])
              \/ session[u] = "NONE" /\ session'[u] = "OPEN" /\ Walk(u)',
           inFlight[t].fresh /\ ~raced[s] =>
              /\ ~looped'[s] => Walk(s)'
              /\ session'[s] = "COMPLETED" =>
                    /\ \A n \in Materialised(s)' : step'[s][n].status = "DONE"
                    /\ \E n \in Terminal : step'[s][n].status = "DONE"
    PROVE  SessionIInv'
<1>0. /\ inFlight[t] \in RequestRow /\ SessionRequestOK(inFlight[t]) /\ inFlight[t].fresh \in BOOLEAN
      /\ raced \in [Session -> BOOLEAN] /\ session[s] # "NONE"
  BY RequestShape DEF SessionIInv, SessionRequestsOK, SessionTypeOK, SessionRequestOK
<1>1. /\ raced' = [raced EXCEPT ![s] = raced[s] \/ ~inFlight[t].fresh]
      /\ DOMAIN inFlight' = Tab
  BY DEF Answers
<1>2. /\ raced' \in [Session -> BOOLEAN]
      /\ \A u \in Session \ {s} : raced'[u] = raced[u]
      /\ ~raced'[s] => inFlight[t].fresh /\ ~raced[s]
  <2>1. \A u \in Session \ {s} : raced'[u] = raced[u]
    BY <1>0, <1>1
  <2>2. raced'[s] = (raced[s] \/ ~inFlight[t].fresh)
    BY <1>0, <1>1, Zenon
  <2>3. raced' \in [Session -> BOOLEAN]
    BY <1>0, <1>1
  <2>4. QED
    BY <2>1, <2>2, <2>3, Zenon
<1>3. SessionTypeOK'
  <2>1. \A u \in Tab : inFlight'[u] \in RequestRow \cup {Nothing}
    BY LeftInFlight
  <2>2. inFlight' \in [Tab -> RequestRow \cup {Nothing}]
    BY <2>1 DEF Answers
  <2>3. QED
    BY <1>2, <2>2 DEF SessionTypeOK
<1>4. SessionRequestsOK'
  <2>1. SUFFICES ASSUME NEW u \in Tab, NEW r, r = inFlight'[u], r # Nothing PROVE SessionRequestOK(r)'
    BY RequestsNext
  <2>2. /\ r \in RequestRow /\ inFlight[u] # Nothing /\ r.on = inFlight[u].on
        /\ r.op = "answer" => r.along \in Edge /\ r.along.from = r.node
        /\ r.on # s => r = inFlight[u]
        /\ r.on = s => ~r.fresh
    BY <2>1, LeftInFlight
  <2>3. CASE r.on = s
    BY <2>2, <2>3 DEF SessionRequestOK
  <2>4. CASE r.on # s
    <3>1. SessionRequestOK(r) /\ r.on \in Session \ {s} /\ r.node \in Node
      BY <2>2, <2>4, RequestShape DEF SessionIInv, SessionRequestsOK
    <3>2. session[r.on] # "NONE"
      BY <3>1 DEF SessionRequestOK
    <3>3. session'[r.on] = session[r.on] /\ step'[r.on] = step[r.on]
      BY <3>1, <3>2
    <3>4. r.fresh => AsRead(r)'
      BY <3>1, <3>3, ReadStays DEF SessionRequestOK
    <3>5. QED
      BY <2>2, <3>2, <3>3, <3>4 DEF SessionRequestOK
  <2>5. QED
    BY <2>3, <2>4
<1>5. UnstartedOK'
  <2>1. SUFFICES ASSUME NEW u \in Session, session'[u] = "NONE"
                 PROVE  /\ step'[u] = [n \in Node |-> NoStep] /\ via'[u] = [n \in Node |-> StartNode]
                        /\ ~raced'[u] /\ ~looped'[u]
    BY DEF UnstartedOK
  <2>2. /\ u # s /\ session[u] = "NONE" /\ step'[u] = step[u] /\ via'[u] = via[u]
        /\ looped'[u] <=> looped[u]
    BY <2>1
  <2>3. /\ step[u] = [n \in Node |-> NoStep] /\ via[u] = [n \in Node |-> StartNode]
        /\ ~raced[u] /\ ~looped[u]
    BY <2>2 DEF SessionIInv, UnstartedOK
  <2>4. raced'[u] = raced[u]
    BY <1>2, <2>2
  <2>5. ~raced'[u]
    BY <2>3, <2>4, Zenon
  <2>6. QED
    BY <2>2, <2>3, <2>5
<1>6. WalksOK'
  <2>1. SUFFICES ASSUME NEW u \in Session, session'[u] # "NONE", ~raced'[u], ~looped'[u]
                 PROVE  Walk(u)'
    BY DEF WalksOK
  <2>2. CASE u = s
    BY <1>2, <2>1, <2>2
  <2>3. CASE u # s
    <3>1. CASE session'[u] = session[u] /\ step'[u] = step[u] /\ via'[u] = via[u]
               /\ (looped'[u] <=> looped[u])
      <4>1. raced'[u] = raced[u]
        BY <1>2, <2>3
      <4>2. ~raced[u]
        BY <2>1, <4>1, Zenon
      <4>3. Walk(u)
        BY <2>1, <3>1, <4>2 DEF SessionIInv, WalksOK
      <4>4. QED
        BY <3>1, <4>3, WalkStays
    <3>2. QED
      BY <2>3, <3>1
  <2>4. QED
    BY <2>2, <2>3
<1>7. CompletedIsSettled'
  <2>1. SUFFICES ASSUME NEW u \in Session, session'[u] = "COMPLETED", ~raced'[u]
                 PROVE  /\ \A n \in Materialised(u)' : step'[u][n].status = "DONE"
                        /\ \E n \in Terminal : step'[u][n].status = "DONE"
    BY DEF CompletedIsSettled
  <2>2. CASE u = s
    BY <1>2, <2>1, <2>2
  <2>3. CASE u # s
    <3>1. session[u] = "COMPLETED" /\ step'[u] = step[u] /\ via'[u] = via[u] /\ raced'[u] = raced[u]
      BY <1>2, <2>1, <2>3
    <3>2. ~raced[u]
      BY <2>1, <3>1, Zenon
    <3>3. /\ \A n \in Materialised(u) : step[u][n].status = "DONE"
          /\ \E n \in Terminal : step[u][n].status = "DONE"
      BY <3>1, <3>2 DEF SessionIInv, CompletedIsSettled
    <3>4. Materialised(u)' = Materialised(u)
      BY <3>1, WalkStays
    <3>5. QED
      BY <3>1, <3>3, <3>4
  <2>4. QED
    BY <2>2, <2>3
<1>8. QED
  BY <1>3, <1>4, <1>5, <1>6, <1>7 DEF SessionIInv

\* A write that leaves every session's status, or closes one.
LEMMA RestartsStay ==
    ASSUME SessionIInv, UNCHANGED restartOf, NEW s \in Session,
           session'[s] = session[s] \/ session'[s] \in {"RESTARTED", "COMPLETED"},
           \A u \in Session \ {s} : session'[u] = session[u]
    PROVE  RestartsOK' /\ RestartedOnce'
<1>1. RestartedOnce'
  BY DEF SessionIInv, RestartedOnce
<1>2. RestartsOK'
  <2>1. SUFFICES ASSUME NEW u \in Session, restartOf'[u] # NoSession
                 PROVE  session'[restartOf'[u]] \in {"RESTARTED", "COMPLETED"}
    BY DEF RestartsOK
  <2>2. restartOf[u] \in Session /\ session[restartOf[u]] \in {"RESTARTED", "COMPLETED"}
    BY <2>1 DEF SessionIInv, RestartsOK, SessionTypeOK
  <2>3. QED
    BY <2>1, <2>2
<1>3. QED
  BY <1>1, <1>2

\* A step that is given another status.
LEMMA StepSet ==
    ASSUME SessionTypeOK, NEW s \in Session, NEW n \in Materialised(s), NEW status \in StepStatus
    PROVE  /\ Sets(s, n, status) \in [Node -> StepRow]
           /\ Sets(s, n, status)[n].status = status
           /\ \A k \in Node : /\ Sets(s, n, status)[k].order = step[s][k].order
                              /\ Sets(s, n, status)[k] # NoStep <=> step[s][k] # NoStep
                              /\ k # n => Sets(s, n, status)[k] = step[s][k]
<1>1. /\ step[s] \in [Node -> StepRow] /\ n \in Node /\ step[s][n] # NoStep
  BY DEF SessionTypeOK, Materialised
<1>2. PICK x : x = [status |-> status, order |-> step[s][n].order]
  OBVIOUS
<1>3. step[s][n] \in [status : StepStatus, order : Nat]
  BY <1>1 DEF StepRow
<1>4. x \in StepRow /\ x # NoStep /\ x.status = status /\ x.order = step[s][n].order
  BY <1>2, <1>3 DEF StepRow, StepStatus, NoStep
<1>5. Sets(s, n, status) = [step[s] EXCEPT ![n] = x]
  BY <1>2 DEF Sets
<1>6. QED
  BY <1>1, <1>4, <1>5

\* A walk whose steps keep their numbers is still a walk.
LEMMA WalkKept ==
    ASSUME NEW s \in Session, Walk(s), Materialised(s)' = Materialised(s),
           \A n \in Materialised(s) : step'[s][n].order = step[s][n].order,
           via'[s] = via[s]
    PROVE  Walk(s)'
<1>1. StartNode \in Materialised(s)
  BY DEF Walk
<1>2. QED
  BY <1>1 DEF Walk, Joined

\* The sessions that a write is not on.
LEMMA OthersKept ==
    ASSUME NEW s \in Session, session \in [Session -> SessionStatus \cup {"NONE"}],
           step \in [Session -> [Node -> StepRow]],
           NEW x, step' = [step EXCEPT ![s] = x]
    PROVE  /\ \A u \in Session \ {s} : step'[u] = step[u]
           /\ step'[s] = x
  OBVIOUS

\* A step is finished, or opened again.
LEMMA StatusGiven ==
    ASSUME SessionIInv, NEW t \in Tab, NEW status \in StepStatus,
           NEW op \in {"finish", "reopen"}, WriteStatus(t, op, status)
    PROVE  SessionIInv'
<1>1. inFlight[t] # Nothing
  BY DEF WriteStatus, Nothing
<1>2. PICK s \in Session, n \in Node : s = inFlight[t].on /\ n = inFlight[t].node
  BY <1>1, RequestShape DEF SessionIInv
<1>3. SessionTypeOK /\ SessionRequestOK(inFlight[t])
  BY <1>1 DEF SessionIInv, SessionRequestsOK
<1>4. CASE n \in Materialised(s) /\ ~Refused(t)
  <2>1. /\ step' = [step EXCEPT ![s] = Sets(s, n, status)]
        /\ Answers(t, s)
        /\ UNCHANGED <<session, facts, restartOf, via, looped>>
    BY <1>2, <1>4 DEF WriteStatus
  <2>2. PICK x : x = Sets(s, n, status)
    OBVIOUS
  <2>3. /\ x \in [Node -> StepRow]
        /\ \A k \in Node : x[k].order = step[s][k].order /\ (x[k] # NoStep <=> step[s][k] # NoStep)
    BY <1>3, <1>4, <2>2, StepSet
  <2>4. step'[s] = x /\ \A u \in Session \ {s} : step'[u] = step[u]
    BY <1>3, <2>1, <2>2 DEF SessionTypeOK
  <2>5. step' \in [Session -> [Node -> StepRow]]
    BY <1>3, <2>1, <2>2, <2>3 DEF SessionTypeOK
  <2>6. Materialised(s)' = Materialised(s)
    BY <2>3, <2>4 DEF Materialised
  <2>7. ASSUME inFlight[t].fresh, ~raced[s]
        PROVE  session'[s] = "OPEN" /\ (~looped'[s] => Walk(s)')
    <3>1. session[s] = "OPEN"
      BY <1>2, <1>3, <2>7 DEF SessionRequestOK, AsRead
    <3>2. ASSUME ~looped[s] PROVE Walk(s)'
      <4>1. Walk(s)
        BY <2>7, <3>1, <3>2 DEF SessionIInv, WalksOK
      <4>2. \A k \in Materialised(s) : step'[s][k].order = step[s][k].order
        BY <2>3, <2>4 DEF Materialised
      <4>3. via'[s] = via[s]
        BY <2>1
      <4>4. QED
        BY <2>6, <4>1, <4>2, <4>3, WalkKept
    <3>3. QED
      BY <2>1, <3>1, <3>2
  <2>8. RestartsOK' /\ RestartedOnce'
    BY <2>1, RestartsStay
  <2>9. session[s] # "NONE"
    BY <1>2, <1>3 DEF SessionRequestOK
  <2>10. /\ session' \in [Session -> SessionStatus \cup {"NONE"}]
         /\ facts' \in [Session -> SUBSET Fact]
         /\ restartOf' \in [Session -> Session \cup {NoSession}]
         /\ via' \in [Session -> [Node -> Node]]
         /\ looped' \in [Session -> BOOLEAN]
    BY <1>3, <2>1 DEF SessionTypeOK
  <2>11. \A u \in Session \ {s} :
            session'[u] = session[u] /\ step'[u] = step[u] /\ via'[u] = via[u]
            /\ (looped'[u] <=> looped[u])
    BY <2>1, <2>4
  <2>12. session'[s] # "NONE" /\ (inFlight[t].fresh /\ ~raced[s] => session'[s] # "COMPLETED")
    BY <2>1, <2>7, <2>9
  <2>13. QED
    BY <1>1, <1>2, <2>1, <2>5, <2>7, <2>8, <2>10, <2>11, <2>12, SessionWritten
<1>5. CASE Refused(t)
  BY <1>5, SessionEnded
<1>6. QED
  BY <1>2, <1>4, <1>5 DEF WriteStatus

\* The facts are stored, or the session completed.
LEMMA FactsWritten ==
    ASSUME SessionIInv, NEW t \in Tab, WriteFacts(t) \/ WriteComplete(t)
    PROVE  SessionIInv'
<1>1. inFlight[t] # Nothing
  BY DEF WriteFacts, WriteComplete, Nothing
<1>2. PICK s \in Session : s = inFlight[t].on /\ inFlight[t].facts \in SUBSET Fact
  BY <1>1, RequestShape DEF SessionIInv
<1>3. SessionTypeOK /\ SessionRequestOK(inFlight[t])
  BY <1>1 DEF SessionIInv, SessionRequestsOK
<1>4. /\ Answers(t, s) /\ UNCHANGED <<step, restartOf, via, looped>>
      /\ \/ UNCHANGED session /\ facts' = [facts EXCEPT ![s] = inFlight[t].facts]
         \/ /\ UNCHANGED facts /\ session' = [session EXCEPT ![s] = "COMPLETED"]
            /\ inFlight[t].op = "complete"
  BY <1>2 DEF WriteFacts, WriteComplete
<1>5. /\ session' \in [Session -> SessionStatus \cup {"NONE"}]
      /\ step' \in [Session -> [Node -> StepRow]]
      /\ facts' \in [Session -> SUBSET Fact]
      /\ restartOf' \in [Session -> Session \cup {NoSession}]
      /\ via' \in [Session -> [Node -> Node]]
      /\ looped' \in [Session -> BOOLEAN]
  BY <1>2, <1>3, <1>4 DEF SessionTypeOK, SessionStatus
<1>6. /\ session'[s] = session[s] \/ (session'[s] = "COMPLETED" /\ inFlight[t].op = "complete")
      /\ \A u \in Session \ {s} : session'[u] = session[u]
  BY <1>3, <1>4 DEF SessionTypeOK
<1>7. RestartsOK' /\ RestartedOnce'
  BY <1>4, <1>6, RestartsStay
<1>8. session[s] # "NONE"
  BY <1>2, <1>3 DEF SessionRequestOK
<1>9. ASSUME inFlight[t].fresh, ~raced[s]
      PROVE  /\ ~looped'[s] => Walk(s)'
             /\ session'[s] = "COMPLETED" =>
                    /\ \A n \in Materialised(s)' : step'[s][n].status = "DONE"
                    /\ \E n \in Terminal : step'[s][n].status = "DONE"
  <2>1. /\ session[s] = "OPEN"
        /\ inFlight[t].op = "complete" => Completable(s)
    BY <1>2, <1>3, <1>9 DEF SessionRequestOK, AsRead
  <2>2. ~looped'[s] => Walk(s)'
    <3>1. ASSUME ~looped[s] PROVE Walk(s)
      BY <1>9, <2>1, <3>1 DEF SessionIInv, WalksOK
    <3>2. Walk(s)' <=> Walk(s)
      BY <1>4, WalkStays
    <3>3. QED
      BY <1>4, <3>1, <3>2
  <2>3. ASSUME session'[s] = "COMPLETED"
        PROVE  /\ \A n \in Materialised(s)' : step'[s][n].status = "DONE"
               /\ \E n \in Terminal : step'[s][n].status = "DONE"
    <3>1. Completable(s)
      BY <1>6, <2>1, <2>3
    <3>2. step[s] \in [Node -> StepRow]
      BY <1>3 DEF SessionTypeOK
    <3>3. \A n \in Materialised(s) : step[s][n].status \in StepStatus
      BY <3>2 DEF Materialised, StepRow
    <3>4. \A n \in Materialised(s) : step[s][n].status = "DONE"
      BY <3>1, <3>3 DEF Completable, StepStatus
    <3>5. Materialised(s)' = Materialised(s)
      BY <1>4 DEF Materialised
    <3>6. QED
      BY <1>4, <3>1, <3>4, <3>5 DEF Completable
  <2>4. QED
    BY <2>2, <2>3
<1>10. \A u \in Session \ {s} :
            session'[u] = session[u] /\ step'[u] = step[u] /\ via'[u] = via[u]
            /\ (looped'[u] <=> looped[u])
  BY <1>4, <1>6
<1>11. session'[s] # "NONE"
  BY <1>6, <1>8
<1>12. QED
  BY <1>1, <1>2, <1>4, <1>5, <1>7, <1>9, <1>10, <1>11, SessionWritten

\* The steps there are can be counted.
LEMMA StepsFinite ==
    ASSUME SessionTypeOK, NEW s \in Session
    PROVE  /\ IsFiniteSet(Materialised(s)) /\ Cardinality(Materialised(s)) \in Nat
           /\ \A n \in Materialised(s) : n \in Node /\ step[s][n].order \in Nat
<1>1. Materialised(s) \in SUBSET Node
  BY DEF Materialised
<1>2. IsFiniteSet(Materialised(s))
  BY <1>1, SessionAssumption, FS_Subset
<1>3. step[s] \in [Node -> StepRow]
  BY DEF SessionTypeOK
<1>4. \A n \in Materialised(s) : n \in Node /\ step[s][n].order \in Nat
  BY <1>3 DEF Materialised, StepRow
<1>5. QED
  BY <1>2, <1>4, FS_CardinalityType

\* A step that is done and the next one, at the end of the walk.
LEMMA NextSet ==
    ASSUME SessionTypeOK, NEW s \in Session, NEW n \in Materialised(s), NEW m \in Node
    PROVE  /\ WithNext(s, n, m) \in [Node -> StepRow]
           /\ WithNext(s, n, m)[m].order = Cardinality(Materialised(s))
           /\ WithNext(s, n, m)[m] # NoStep
           /\ \A k \in Node \ {m} :
                /\ WithNext(s, n, m)[k].order = step[s][k].order
                /\ WithNext(s, n, m)[k] # NoStep <=> step[s][k] # NoStep
<1>1. PICK x : x = Sets(s, n, "DONE")
  OBVIOUS
<1>2. /\ x \in [Node -> StepRow]
      /\ \A k \in Node : /\ x[k].order = step[s][k].order
                         /\ x[k] # NoStep <=> step[s][k] # NoStep
  <2>1. "DONE" \in StepStatus
    BY DEF StepStatus
  <2>2. QED
    BY <1>1, <2>1, StepSet
<1>3. PICK y : y = [status |-> "PENDING", order |-> Cardinality(Materialised(s))]
  OBVIOUS
<1>4. y \in StepRow /\ y # NoStep /\ y.order = Cardinality(Materialised(s))
  BY <1>3, StepsFinite DEF StepRow, StepStatus, NoStep
<1>5. WithNext(s, n, m) = [x EXCEPT ![m] = y]
  BY <1>1, <1>3 DEF WithNext
<1>6. QED
  BY <1>2, <1>4, <1>5

\* A walk of the next state, told by its steps.
LEMMA WalkOf ==
    ASSUME NEW s \in Session, NEW L, NEW C, Materialised(s)' = L,
           Cardinality(L) = C,
           StartNode \in L, step'[s][StartNode].order = 0,
           \A k \in L : step'[s][k].order < C,
           \A i \in 0 .. (C - 1) : \E k \in L : step'[s][k].order = i,
           \A k \in L : via'[s][k] \in L,
           \A k \in L, l \in L : step'[s][k].order = step'[s][l].order => k = l,
           \A k \in L, l \in L : Joined(s, k, l)',
           \A k \in L, l \in L :
                via'[s][l] = k /\ l # k => step'[s][k].order < step'[s][l].order
    PROVE  Walk(s)'
<1>1. Cardinality(Materialised(s)') = C
  OBVIOUS
<1>2. QED
  BY <1>1 DEF Walk, Joined

\* A walk that goes on to a step not visited.
LEMMA WalkGrows ==
    ASSUME SessionTypeOK, NEW s \in Session, Walk(s), NEW n \in Materialised(s),
           NEW m \in Node \ Materialised(s), StepAfter(s, n) = {},
           NEW e \in Edge, e.from = n, e.to = m,
           step'[s] = WithNext(s, n, m), via'[s] = [via[s] EXCEPT ![m] = n]
    PROVE  Walk(s)'
<1>k. PICK K : K = Cardinality(Materialised(s))
  OBVIOUS
<1>m. PICK M : M = Materialised(s)
  OBVIOUS
<1>1. /\ K \in Nat /\ IsFiniteSet(M) /\ m \notin M /\ m \in Node /\ n \in M
      /\ \A k \in M : k \in Node /\ step[s][k].order \in Nat /\ step[s][k].order < K
  BY <1>k, <1>m, StepsFinite DEF Walk
<1>2. /\ step'[s][m].order = K /\ step'[s][m] # NoStep
      /\ \A k \in Node \ {m} : /\ step'[s][k].order = step[s][k].order
                               /\ step'[s][k] # NoStep <=> step[s][k] # NoStep
  BY <1>k, NextSet
<1>3. Materialised(s)' = M \cup {m}
  BY <1>1, <1>2, <1>m DEF Materialised
<1>4. Cardinality(M \cup {m}) = K + 1
  BY <1>1, <1>k, <1>m, FS_AddElement
<1>5. \A k \in M : step'[s][k].order = step[s][k].order
  BY <1>1, <1>2
<1>6. /\ StartNode \in M /\ step[s][StartNode].order = 0
      /\ \A i \in 0 .. (K - 1) : \E k \in M : step[s][k].order = i
      /\ \A k \in M : via[s][k] \in M
      /\ \A k \in M, l \in M :
            /\ step[s][k].order = step[s][l].order => k = l
            /\ Joined(s, k, l)
            /\ via[s][l] = k /\ l # k => step[s][k].order < step[s][l].order
  BY <1>k, <1>m DEF Walk
<1>7. \A k \in M : step[s][k].order <= step[s][n].order
  BY <1>1, <1>m DEF StepAfter
<1>8. /\ via'[s][m] = n /\ \A k \in M : via'[s][k] = via[s][k]
  BY <1>1 DEF SessionTypeOK
<1>9. \A i \in 0 .. K : \E k \in M \cup {m} : step'[s][k].order = i
  <2>1. SUFFICES ASSUME NEW i \in 0 .. K PROVE \E k \in M \cup {m} : step'[s][k].order = i
    OBVIOUS
  <2>2. i = K \/ i \in 0 .. (K - 1)
    BY <1>1
  <2>3. CASE i = K
    BY <1>2, <2>3
  <2>4. CASE i \in 0 .. (K - 1)
    <3>1. PICK k \in M : step[s][k].order = i
      BY <1>6, <2>4
    <3>2. QED
      BY <1>5, <3>1
  <2>5. QED
    BY <2>2, <2>3, <2>4
<1>10. \A k \in M \cup {m} : step'[s][k].order < K + 1
  BY <1>1, <1>2, <1>5
<1>11. ASSUME NEW k \in M \cup {m}, NEW l \in M \cup {m}
       PROVE  /\ step'[s][k].order = step'[s][l].order => k = l
              /\ step'[s][l].order = step'[s][k].order + 1 => \E d \in Edge : d.from = k /\ d.to = l
              /\ via'[s][l] = k /\ l # k => step'[s][k].order < step'[s][l].order
  <2>1. CASE k \in M /\ l \in M
    BY <1>1, <1>5, <1>6, <1>8, <2>1 DEF Joined
  <2>2. CASE k \in M /\ l = m
    <3>1. step'[s][l].order = K /\ step'[s][k].order = step[s][k].order /\ step[s][k].order < K
      BY <1>1, <1>2, <1>5, <2>2
    <3>2. step'[s][l].order = step'[s][k].order + 1 => k = n
      BY <1>1, <1>6, <1>7, <2>2, <3>1
    <3>3. QED
      BY <1>1, <2>2, <3>1, <3>2
  <2>3. CASE k = m /\ l \in M
    <3>1. step'[s][k].order = K /\ step'[s][l].order = step[s][l].order /\ step[s][l].order < K
      BY <1>1, <1>2, <1>5, <2>3
    <3>2. via'[s][l] # m \/ l = m
      <4>1. via[s][l] # m
        BY <1>1, <1>6, <2>3
      <4>2. QED
        BY <1>8, <2>3, <4>1
    <3>3. QED
      BY <1>1, <2>3, <3>1, <3>2
  <2>4. CASE k = m /\ l = m
    BY <1>1, <1>2, <2>4
  <2>5. QED
    BY <2>1, <2>2, <2>3, <2>4
<1>12. /\ \A k \in M \cup {m} : via'[s][k] \in M \cup {m}
       /\ step'[s][StartNode].order = 0
  BY <1>1, <1>2, <1>5, <1>6, <1>8
<1>13. \A k \in M \cup {m}, l \in M \cup {m} : Joined(s, k, l)'
  BY <1>11 DEF Joined
<1>14. QED
  <2>1. PICK L : L = M \cup {m}
    OBVIOUS
  <2>2. PICK C : C = K + 1
    OBVIOUS
  <2>3. Materialised(s)' = L /\ Cardinality(L) = C
    BY <1>3, <1>4, <2>1, <2>2
  <2>4. StartNode \in L /\ step'[s][StartNode].order = 0
    BY <1>6, <1>12, <2>1
  <2>5. \A k \in L : step'[s][k].order < C
    BY <1>10, <2>1, <2>2
  <2>6. \A i \in 0 .. (C - 1) : \E k \in L : step'[s][k].order = i
    <3>1. C - 1 = K
      BY <1>1, <2>2
    <3>2. QED
      BY <1>9, <2>1, <3>1
  <2>7. \A k \in L : via'[s][k] \in L
    BY <1>12, <2>1
  <2>8. \A k \in L, l \in L : step'[s][k].order = step'[s][l].order => k = l
    BY <1>11, <2>1
  <2>9. \A k \in L, l \in L : Joined(s, k, l)'
    BY <1>13, <2>1
  <2>10. \A k \in L, l \in L :
            via'[s][l] = k /\ l # k => step'[s][k].order < step'[s][l].order
    BY <1>11, <2>1
  <2>11. QED
    BY <2>3, <2>4, <2>5, <2>6, <2>7, <2>8, <2>9, <2>10, WalkOf

\* A walk with a step that was reached again, from one before it.
LEMMA WalkRejoined ==
    ASSUME SessionTypeOK, NEW s \in Session, Walk(s), NEW n \in Materialised(s),
           NEW m \in Materialised(s), step[s][n].order < step[s][m].order,
           Materialised(s)' = Materialised(s),
           \A k \in Materialised(s) : step'[s][k].order = step[s][k].order,
           via'[s] = [via[s] EXCEPT ![m] = n]
    PROVE  Walk(s)'
<1>1. m \in Node /\ via[s] \in [Node -> Node]
  BY DEF Materialised, SessionTypeOK
<1>2. PICK L : L = Materialised(s)
  OBVIOUS
<1>3. PICK C : C = Cardinality(Materialised(s))
  OBVIOUS
<1>4. /\ \A k \in L : k \in Node /\ via'[s][k] = (IF k = m THEN n ELSE via[s][k])
      /\ m \in L /\ n \in L
  BY <1>1, <1>2 DEF Materialised
<1>5. /\ StartNode \in L /\ step[s][StartNode].order = 0
      /\ \A k \in L : step[s][k].order < C
      /\ \A i \in 0 .. (C - 1) : \E k \in L : step[s][k].order = i
      /\ \A k \in L : via[s][k] \in L
      /\ \A k \in L, l \in L : step[s][k].order = step[s][l].order => k = l
  BY <1>2, <1>3 DEF Walk
<1>6. \A k \in L, l \in L : Joined(s, k, l)
  BY <1>2 DEF Walk
<1>7. \A k \in L, l \in L : via[s][l] = k /\ l # k => step[s][k].order < step[s][l].order
  BY <1>2 DEF Walk
<1>8. \A k \in L : step'[s][k].order = step[s][k].order
  BY <1>2
<1>9. Materialised(s)' = L /\ Cardinality(L) = C
  BY <1>2, <1>3
<1>10. StartNode \in L /\ step'[s][StartNode].order = 0
  BY <1>5, <1>8
<1>11. \A k \in L : step'[s][k].order < C
  BY <1>5, <1>8
<1>12. \A i \in 0 .. (C - 1) : \E k \in L : step'[s][k].order = i
  BY <1>5, <1>8
<1>13. \A k \in L : via'[s][k] \in L
  BY <1>4, <1>5
<1>14. \A k \in L, l \in L : step'[s][k].order = step'[s][l].order => k = l
  BY <1>5, <1>8
<1>15. \A k \in L, l \in L : Joined(s, k, l)'
  BY <1>6, <1>8 DEF Joined
<1>16. \A k \in L, l \in L :
            via'[s][l] = k /\ l # k => step'[s][k].order < step'[s][l].order
  BY <1>4, <1>7, <1>8
<1>17. QED
  BY <1>9, <1>10, <1>11, <1>12, <1>13, <1>14, <1>15, <1>16, WalkOf

\* An answer is written along its transition, or refused.
LEMMA AnswerWritten ==
    ASSUME SessionIInv, NEW t \in Tab, WriteAnswer(t)
    PROVE  SessionIInv'
<1>1. inFlight[t] # Nothing
  BY DEF WriteAnswer, Nothing
<1>2. PICK r : r = inFlight[t]
  OBVIOUS
<1>3. /\ SessionTypeOK /\ SessionRequestOK(r) /\ r \in RequestRow /\ r.op = "answer"
      /\ r.on \in Session /\ r.node \in Node /\ r.found \in BOOLEAN /\ r.fresh \in BOOLEAN
  BY <1>1, <1>2, RequestShape DEF SessionIInv, SessionRequestsOK, WriteAnswer
<1>4. r.along \in Edge /\ r.along.from = r.node /\ session[r.on] # "NONE"
  BY <1>3 DEF SessionRequestOK
<1>5. PICK s \in Session, n \in Node, e \in Edge, m \in Node :
        s = r.on /\ n = r.node /\ e = r.along /\ m = e.to /\ e.from = n /\ e.loop \in BOOLEAN
  BY <1>3, <1>4, SessionAssumption
<1>6. CASE Refused(t)
  BY <1>6, SessionEnded
<1>7. CASE ~Refused(t)
  <2>1. /\ n \in Materialised(s)
        /\ \/ /\ e.loop /\ r.found /\ m \in Materialised(s)
              /\ step' = [step EXCEPT ![s] = WithNext(s, n, m)]
           \/ /\ ~r.found /\ m \notin Materialised(s)
              /\ step' = [step EXCEPT ![s] = WithNext(s, n, m)]
           \/ /\ ~e.loop /\ r.found
              /\ step' = [step EXCEPT ![s] = Sets(s, n, "DONE")]
        /\ looped' = [looped EXCEPT ![s] = looped[s] \/ e.loop]
        /\ via' = [via EXCEPT ![s][m] = n]
        /\ Answers(t, s)
        /\ UNCHANGED <<session, facts, restartOf>>
    BY <1>2, <1>5, <1>7, Zenon DEF WriteAnswer
  <2>2. PICK x : step' = [step EXCEPT ![s] = x] /\ (x = WithNext(s, n, m) \/ x = Sets(s, n, "DONE"))
    BY <2>1
  <2>3. x \in [Node -> StepRow]
    <3>1. "DONE" \in StepStatus
      BY DEF StepStatus
    <3>2. QED
      BY <1>3, <2>1, <2>2, <3>1, StepSet, NextSet
  <2>4. step'[s] = x /\ \A u \in Session \ {s} : step'[u] = step[u]
    BY <1>3, <2>2 DEF SessionTypeOK
  <2>5. step' \in [Session -> [Node -> StepRow]]
    BY <1>3, <2>2, <2>3 DEF SessionTypeOK
  <2>6. /\ via' \in [Session -> [Node -> Node]]
        /\ via'[s] = [via[s] EXCEPT ![m] = n]
        /\ \A u \in Session \ {s} : via'[u] = via[u]
    BY <1>3, <2>1 DEF SessionTypeOK
  <2>7. /\ looped' \in [Session -> BOOLEAN]
        /\ \A u \in Session \ {s} : looped'[u] = looped[u]
    BY <1>3, <1>5, <2>1 DEF SessionTypeOK
  <2>8. looped'[s] = (looped[s] \/ e.loop)
    BY <1>3, <2>1, Zenon DEF SessionTypeOK
  <2>9. ASSUME r.fresh, ~raced[s], ~looped'[s] PROVE Walk(s)'
    <3>1. ~looped[s] /\ ~e.loop
      BY <2>8, <2>9, Zenon
    <3>2. /\ session[s] = "OPEN"
          /\ IF r.found THEN m \in StepAfter(s, n) ELSE StepAfter(s, n) = {}
      BY <1>3, <1>5, <2>9, <3>1 DEF SessionRequestOK, AsRead
    <3>3. Walk(s)
      BY <2>9, <3>1, <3>2 DEF SessionIInv, WalksOK
    <3>4. CASE r.found
      <4>1. /\ step' = [step EXCEPT ![s] = Sets(s, n, "DONE")]
            /\ m \in Materialised(s) /\ step[s][n].order < step[s][m].order
        <5>1. m \in Materialised(s) /\ step[s][m].order > step[s][n].order
          BY <3>2, <3>4 DEF StepAfter
        <5>2. step[s][n].order \in Nat /\ step[s][m].order \in Nat
          BY <1>3, <2>1, <5>1, StepsFinite
        <5>3. QED
          BY <2>1, <3>1, <3>4, <5>1, <5>2
      <4>2. "DONE" \in StepStatus
        BY DEF StepStatus
      <4>3. PICK z : z = Sets(s, n, "DONE")
        OBVIOUS
      <4>4. \A k \in Node : z[k].order = step[s][k].order /\ (z[k] # NoStep <=> step[s][k] # NoStep)
        BY <1>3, <2>1, <4>2, <4>3, StepSet
      <4>5. step'[s] = z
        BY <1>3, <4>1, <4>3 DEF SessionTypeOK
      <4>6. Materialised(s)' = Materialised(s)
        BY <4>4, <4>5 DEF Materialised
      <4>7. \A k \in Materialised(s) : step'[s][k].order = step[s][k].order
        BY <4>4, <4>5 DEF Materialised
      <4>8. QED
        BY <1>3, <2>1, <2>6, <3>3, <4>1, <4>6, <4>7, WalkRejoined
    <3>5. CASE ~r.found
      <4>1. m \in Node \ Materialised(s) /\ step' = [step EXCEPT ![s] = WithNext(s, n, m)]
        BY <2>1, <3>1, <3>5
      <4>2. step'[s] = WithNext(s, n, m)
        BY <1>3, <4>1 DEF SessionTypeOK
      <4>3. StepAfter(s, n) = {}
        BY <3>2, <3>5
      <4>4. QED
        BY <1>3, <1>5, <2>1, <2>6, <3>3, <4>1, <4>2, <4>3, WalkGrows
    <3>6. QED
      BY <3>4, <3>5
  <2>10. RestartsOK' /\ RestartedOnce'
    BY <2>1, RestartsStay
  <2>11. session'[s] # "NONE" /\ (r.fresh => session'[s] # "COMPLETED")
    <3>1. r.fresh => session[s] = "OPEN"
      BY <1>3, <1>5 DEF SessionRequestOK, AsRead
    <3>2. QED
      BY <1>4, <1>5, <2>1, <3>1
  <2>12. /\ session' \in [Session -> SessionStatus \cup {"NONE"}]
         /\ facts' \in [Session -> SUBSET Fact]
         /\ restartOf' \in [Session -> Session \cup {NoSession}]
    BY <1>3, <2>1 DEF SessionTypeOK
  <2>13. \A u \in Session \ {s} :
            session'[u] = session[u] /\ step'[u] = step[u] /\ via'[u] = via[u]
            /\ (looped'[u] <=> looped[u])
    BY <2>1, <2>4, <2>6, <2>7
  <2>14. inFlight[t].on = s /\ (inFlight[t].fresh <=> r.fresh)
    BY <1>2, <1>5
  <2>15. Answers(t, s)
    BY <2>1
  <2>16. inFlight[t].fresh /\ ~raced[s] =>
            /\ ~looped'[s] => Walk(s)'
            /\ session'[s] # "COMPLETED"
    BY <2>9, <2>11, <2>14
  <2>17. looped' \in [Session -> BOOLEAN] /\ via' \in [Session -> [Node -> Node]]
    BY <2>6, <2>7
  <2>18. QED
    BY <1>1, <2>5, <2>10, <2>11, <2>12, <2>13, <2>14, <2>15, <2>16, <2>17, SessionWritten
<1>8. QED
  BY <1>6, <1>7

\* Numbered from 0 to j, a set has j + 1 members.
LEMMA Numbered ==
    ASSUME NEW L, NEW j \in Nat, NEW ord, IsFiniteSet(L),
           \A k \in L : ord[k] \in 0 .. j,
           \A i \in 0 .. j : \E k \in L : ord[k] = i,
           \A k \in L, l \in L : ord[k] = ord[l] => k = l
    PROVE  Cardinality(L) = j + 1
<1>1. PICK f : f = [k \in L |-> ord[k]]
  OBVIOUS
<1>2. f \in [L -> 0 .. j] /\ \A k \in L : f[k] = ord[k]
  BY <1>1
<1>3. f \in Surjection(L, 0 .. j)
  BY <1>2 DEF Surjection
<1>4. f \in Injection(L, 0 .. j)
  BY <1>2 DEF Injection, IsInjective
<1>5. Cardinality(0 .. j) = Cardinality(L)
  BY <1>3, <1>4, FS_Surjection
<1>6. Cardinality(0 .. j) = j + 1
  <2>1. 0 \in Int /\ j \in Int /\ ~(0 > j) /\ j - 0 + 1 = j + 1
    OBVIOUS
  <2>2. Cardinality(0 .. j) = IF 0 > j THEN 0 ELSE j - 0 + 1
    BY <2>1, FS_Interval
  <2>3. QED
    BY <2>1, <2>2, Zenon
<1>7. QED
  BY <1>5, <1>6

\* A walk that is cut after one of its steps.
LEMMA WalkCut ==
    ASSUME SessionTypeOK, NEW s \in Session, Walk(s), NEW n \in Materialised(s),
           NEW j, j = step[s][n].order,
           Materialised(s)' = {k \in Materialised(s) : step[s][k].order <= j},
           \A k \in Materialised(s)' :
                step'[s][k].order = step[s][k].order /\ via'[s][k] = via[s][k]
    PROVE  Walk(s)'
<1>1. PICK M : M = Materialised(s)
  OBVIOUS
<1>2. PICK L : L = {k \in M : step[s][k].order <= j}
  OBVIOUS
<1>3. PICK K : K = Cardinality(Materialised(s))
  OBVIOUS
<1>4. /\ StartNode \in M /\ step[s][StartNode].order = 0
      /\ \A k \in M : step[s][k].order < K
      /\ \A i \in 0 .. (K - 1) : \E k \in M : step[s][k].order = i
      /\ \A k \in M : via[s][k] \in M
      /\ \A k \in M, l \in M : step[s][k].order = step[s][l].order => k = l
  BY <1>1, <1>3 DEF Walk
<1>5. \A k \in M, l \in M : Joined(s, k, l)
  BY <1>1 DEF Walk
<1>6. \A k \in M, l \in M : via[s][l] = k /\ l # k => step[s][k].order < step[s][l].order
  BY <1>1 DEF Walk
<1>7. /\ K \in Nat /\ j \in Nat /\ j < K
      /\ \A k \in M : step[s][k].order \in Nat
      /\ IsFiniteSet(M)
  BY <1>1, <1>3, <1>4, StepsFinite
<1>8. IsFiniteSet(L)
  BY <1>2, <1>7, FS_Subset
<1>9. \A i \in 0 .. j : \E k \in L : step[s][k].order = i
  <2>1. SUFFICES ASSUME NEW i \in 0 .. j PROVE \E k \in L : step[s][k].order = i
    OBVIOUS
  <2>2. i \in 0 .. (K - 1)
    BY <1>7
  <2>3. PICK k \in M : step[s][k].order = i
    BY <1>4, <2>2
  <2>4. QED
    BY <1>2, <1>7, <2>3
<1>10. Cardinality(L) = j + 1
  <2>1. PICK ord : ord = [k \in M |-> step[s][k].order]
    OBVIOUS
  <2>2. \A k \in L : ord[k] = step[s][k].order
    BY <1>2, <2>1
  <2>3. \A k \in L : ord[k] \in 0 .. j
    BY <1>2, <1>7, <2>2
  <2>4. \A i \in 0 .. j : \E k \in L : ord[k] = i
    BY <1>9, <2>2
  <2>5. \A k \in L, l \in L : ord[k] = ord[l] => k = l
    BY <1>2, <1>4, <2>2
  <2>6. j \in Nat /\ IsFiniteSet(L)
    BY <1>7, <1>8
  <2>7. QED
    BY <2>3, <2>4, <2>5, <2>6, Numbered
<1>11. PICK C : C = j + 1
  OBVIOUS
<1>12. Materialised(s)' = L /\ Cardinality(L) = C
  BY <1>1, <1>2, <1>10, <1>11
<1>13. \A k \in L : k \in M /\ step'[s][k].order = step[s][k].order /\ via'[s][k] = via[s][k]
  BY <1>1, <1>2
<1>14. StartNode \in L /\ step'[s][StartNode].order = 0
  BY <1>2, <1>4, <1>7, <1>13
<1>15. \A k \in L : step'[s][k].order < C
  BY <1>2, <1>7, <1>11, <1>13
<1>16. \A i \in 0 .. (C - 1) : \E k \in L : step'[s][k].order = i
  <2>1. C - 1 = j
    BY <1>7, <1>11
  <2>2. QED
    BY <1>9, <1>13, <2>1
<1>17. \A k \in L : via'[s][k] \in L
  <2>1. SUFFICES ASSUME NEW k \in L PROVE via[s][k] \in L
    BY <1>13
  <2>2. k \in M /\ via[s][k] \in M /\ step[s][k].order <= j
    BY <1>2, <1>4
  <2>3. via[s][k] = k \/ step[s][via[s][k]].order < step[s][k].order
    BY <1>6, <2>2
  <2>4. step[s][via[s][k]].order <= j
    BY <1>7, <2>2, <2>3
  <2>5. QED
    BY <1>2, <2>2, <2>4
<1>18. \A k \in L, l \in L : step'[s][k].order = step'[s][l].order => k = l
  BY <1>4, <1>13
<1>19. \A k \in L, l \in L : Joined(s, k, l)'
  BY <1>5, <1>13 DEF Joined
<1>20. \A k \in L, l \in L :
            via'[s][l] = k /\ l # k => step'[s][k].order < step'[s][l].order
  BY <1>6, <1>13
<1>21. QED
  BY <1>12, <1>14, <1>15, <1>16, <1>17, <1>18, <1>19, <1>20, WalkOf

\* What a rewind makes of the steps.
Rewound(s, n, j, op) ==
    [m \in Node |->
        IF Later(s, m, j)
        THEN IF op = "discard" THEN NoStep
             ELSE [status |-> "RECONFIRMATION_REQUIRED", order |-> step[s][m].order]
        ELSE IF m = n THEN [status |-> "PENDING", order |-> step[s][m].order]
        ELSE step[s][m]]

\* A rewind keeps the numbers of the steps, and discards the later ones or none.
LEMMA StepsRewound ==
    ASSUME SessionTypeOK, NEW s \in Session, NEW n \in Node, step[s][n] # NoStep, NEW j \in Nat,
           NEW op, NEW x,
           x = Rewound(s, n, j, op)
    PROVE  /\ x \in [Node -> StepRow]
           /\ \A m \in Node :
                /\ op = "discard" /\ Later(s, m, j) => x[m] = NoStep
                /\ ~(op = "discard" /\ Later(s, m, j)) =>
                        /\ x[m].order = step[s][m].order
                        /\ x[m] # NoStep <=> step[s][m] # NoStep
<1>1. step[s] \in [Node -> StepRow]
  BY DEF SessionTypeOK
<1>2. ASSUME NEW m \in Node, NEW status \in StepStatus, step[s][m] # NoStep
      PROVE  \A y : y = [status |-> status, order |-> step[s][m].order] =>
                y \in StepRow /\ y # NoStep /\ y.order = step[s][m].order
  <2>1. step[s][m].order \in Nat
    BY <1>1, <1>2 DEF StepRow
  <2>2. QED
    BY <2>1 DEF StepRow, StepStatus, NoStep
<1>0. \A m \in Node : x[m] =
        IF Later(s, m, j)
        THEN IF op = "discard" THEN NoStep
             ELSE [status |-> "RECONFIRMATION_REQUIRED", order |-> step[s][m].order]
        ELSE IF m = n THEN [status |-> "PENDING", order |-> step[s][m].order]
        ELSE step[s][m]
  BY DEF Rewound
<1>3. "RECONFIRMATION_REQUIRED" \in StepStatus /\ "PENDING" \in StepStatus /\ NoStep \in StepRow
  BY DEF StepStatus, StepRow
<1>4. ASSUME NEW m \in Node
      PROVE  /\ x[m] \in StepRow
             /\ op = "discard" /\ Later(s, m, j) => x[m] = NoStep
             /\ ~(op = "discard" /\ Later(s, m, j)) =>
                        /\ x[m].order = step[s][m].order
                        /\ x[m] # NoStep <=> step[s][m] # NoStep
  <2>1. CASE Later(s, m, j) /\ op = "discard"
    BY <1>0, <1>3, <2>1
  <2>2. CASE Later(s, m, j) /\ op # "discard"
    <3>1. step[s][m] # NoStep
      BY <2>2 DEF Later
    <3>2. x[m] = [status |-> "RECONFIRMATION_REQUIRED", order |-> step[s][m].order]
      BY <1>0, <2>2
    <3>3. QED
      BY <1>2, <1>3, <2>2, <3>1, <3>2
  <2>3. CASE ~Later(s, m, j) /\ m = n
    <3>1. x[m] = [status |-> "PENDING", order |-> step[s][m].order]
      BY <1>0, <2>3
    <3>2. QED
      BY <1>2, <1>3, <2>3, <3>1
  <2>4. CASE ~Later(s, m, j) /\ m # n
    BY <1>0, <1>1, <2>4
  <2>5. QED
    BY <2>1, <2>2, <2>3, <2>4
<1>5. QED
  BY <1>4 DEF Rewound

\* A rewind is written, or refused.
LEMMA RewindWritten ==
    ASSUME SessionIInv, NEW t \in Tab, WriteRewind(t)
    PROVE  SessionIInv'
<1>1. inFlight[t] # Nothing
  BY DEF WriteRewind, Nothing
<1>2. PICK r : r = inFlight[t]
  OBVIOUS
<1>3. /\ SessionTypeOK /\ SessionRequestOK(r) /\ r \in RequestRow /\ r.op \in {"discard", "reconfirm"}
      /\ r.on \in Session /\ r.node \in Node /\ r.fresh \in BOOLEAN /\ r.order \in Nat
  BY <1>1, <1>2, RequestShape DEF SessionIInv, SessionRequestsOK, WriteRewind
<1>4. PICK s \in Session, n \in Node, j \in Nat, op \in {"discard", "reconfirm"} :
        /\ s = r.on /\ n = r.node /\ j = r.order
        /\ op = r.op
  BY <1>3
<1>5. CASE Refused(t)
  BY <1>5, SessionEnded
<1>6. CASE ~Refused(t)
  <2>1. PICK x : x = Rewound(s, n, j, op)
    OBVIOUS
  <2>2. PICK y : y = [m \in Node |-> IF op = "discard" /\ Later(s, m, j) THEN StartNode ELSE via[s][m]]
    OBVIOUS
  <2>3. /\ n \in Materialised(s)
        /\ step' = [step EXCEPT ![s] = x]
        /\ via' = [via EXCEPT ![s] = y]
        /\ Answers(t, s)
        /\ UNCHANGED <<session, facts, restartOf, looped>>
    BY <1>2, <1>4, <1>6, <2>1, <2>2 DEF WriteRewind, Rewound
  <2>4. step[s][n] # NoStep
    BY <2>3 DEF Materialised
  <2>5. /\ x \in [Node -> StepRow]
        /\ \A m \in Node :
                /\ op = "discard" /\ Later(s, m, j) => x[m] = NoStep
                /\ ~(op = "discard" /\ Later(s, m, j)) =>
                        /\ x[m].order = step[s][m].order
                        /\ x[m] # NoStep <=> step[s][m] # NoStep
    BY <1>3, <2>1, <2>4, StepsRewound
  <2>6. y \in [Node -> Node] /\ \A m \in Node : ~(op = "discard" /\ Later(s, m, j)) => y[m] = via[s][m]
    BY <1>3, <2>2, SessionAssumption DEF SessionTypeOK
  <2>7. /\ step' \in [Session -> [Node -> StepRow]] /\ via' \in [Session -> [Node -> Node]]
        /\ step'[s] = x /\ via'[s] = y
        /\ \A u \in Session \ {s} : step'[u] = step[u] /\ via'[u] = via[u]
    BY <1>3, <2>3, <2>5, <2>6 DEF SessionTypeOK
  <2>8. ASSUME r.fresh, ~raced[s], ~looped[s] PROVE Walk(s)'
    <3>1. session[s] = "OPEN" /\ j = step[s][n].order
      BY <1>3, <1>4, <2>8 DEF SessionRequestOK, AsRead
    <3>2. Walk(s)
      BY <2>8, <3>1 DEF SessionIInv, WalksOK
    <3>3. CASE op = "discard"
      <4>1. \A k \in Materialised(s) : Later(s, k, j) <=> ~(step[s][k].order <= j)
        <5>1. \A k \in Materialised(s) : k \in Node /\ step[s][k].order \in Nat /\ step[s][k] # NoStep
          BY <1>3, StepsFinite DEF Materialised
        <5>2. QED
          BY <5>1 DEF Later
      <4>2. \A k \in Node : step'[s][k] # NoStep <=> (step[s][k] # NoStep /\ ~Later(s, k, j))
        BY <2>5, <2>7, <3>3 DEF Later
      <4>3. Materialised(s)' = {k \in Node : step'[s][k] # NoStep}
        BY DEF Materialised
      <4>4. Materialised(s)' = {k \in Materialised(s) : step[s][k].order <= j}
        BY <4>1, <4>2, <4>3 DEF Materialised
      <4>5. \A k \in Materialised(s)' :
                step'[s][k].order = step[s][k].order /\ via'[s][k] = via[s][k]
        <5>1. SUFFICES ASSUME NEW k \in Node, step'[s][k] # NoStep
                       PROVE  step'[s][k].order = step[s][k].order /\ via'[s][k] = via[s][k]
          BY <4>3
        <5>2. ~Later(s, k, j)
          BY <4>2, <5>1
        <5>3. QED
          BY <2>5, <2>6, <2>7, <5>2
      <4>6. QED
        BY <1>3, <2>3, <3>1, <3>2, <4>4, <4>5, WalkCut
    <3>4. CASE op # "discard"
      <4>1. Materialised(s)' = Materialised(s)
        BY <2>5, <2>7, <3>4 DEF Materialised
      <4>2. \A k \in Materialised(s) : step'[s][k].order = step[s][k].order
        BY <2>5, <2>7, <3>4 DEF Materialised
      <4>3. via[s] \in [Node -> Node]
        BY <1>3 DEF SessionTypeOK
      <4>4. via'[s] = via[s]
        BY <2>6, <2>7, <3>4, <4>3
      <4>5. QED
        BY <3>2, <4>1, <4>2, <4>4, WalkKept
    <3>5. QED
      BY <3>3, <3>4
  <2>9. RestartsOK' /\ RestartedOnce'
    BY <2>3, RestartsStay
  <2>10. session[s] # "NONE"
    BY <1>3, <1>4 DEF SessionRequestOK
  <2>11. r.fresh => session[s] = "OPEN"
    BY <1>3, <1>4 DEF SessionRequestOK, AsRead
  <2>12. session'[s] # "NONE" /\ (r.fresh => session'[s] # "COMPLETED")
    BY <2>3, <2>10, <2>11
  <2>13. /\ session' \in [Session -> SessionStatus \cup {"NONE"}]
         /\ facts' \in [Session -> SUBSET Fact]
         /\ restartOf' \in [Session -> Session \cup {NoSession}]
         /\ looped' \in [Session -> BOOLEAN]
    BY <1>3, <2>3 DEF SessionTypeOK
  <2>14. \A u \in Session \ {s} :
            session'[u] = session[u] /\ step'[u] = step[u] /\ via'[u] = via[u]
            /\ (looped'[u] <=> looped[u])
    BY <2>3, <2>7
  <2>15. inFlight[t].on = s /\ (inFlight[t].fresh <=> r.fresh)
    BY <1>2, <1>4
  <2>16. Answers(t, s)
    BY <2>3
  <2>17. inFlight[t].fresh /\ ~raced[s] =>
            /\ ~looped'[s] => Walk(s)'
            /\ session'[s] # "COMPLETED"
    BY <2>3, <2>8, <2>12, <2>15
  <2>18. step' \in [Session -> [Node -> StepRow]] /\ via' \in [Session -> [Node -> Node]]
    BY <2>7
  <2>19. QED
    BY <1>1, <2>9, <2>12, <2>13, <2>14, <2>15, <2>16, <2>17, <2>18, SessionWritten
<1>7. QED
  BY <1>5, <1>6

\* The first steps are a walk.
LEMMA FirstWalk ==
    ASSUME NEW s \in Session, NEW e \in Outgoing(StartNode),
           step'[s] = FirstSteps(e), via'[s] = [n \in Node |-> StartNode]
    PROVE  FirstSteps(e) \in [Node -> StepRow] /\ Walk(s)'
<1>1. e \in Edge /\ e.from = StartNode /\ e.to \in Node /\ StartNode \in Node
  BY SessionAssumption DEF Outgoing
<1>2. PICK a : a = [status |-> "DONE", order |-> 0]
  OBVIOUS
<1>3. PICK b : b = [status |-> "PENDING", order |-> 1]
  OBVIOUS
<1>4. /\ a \in StepRow /\ b \in StepRow /\ NoStep \in StepRow /\ a # NoStep /\ b # NoStep
      /\ a.order = 0 /\ b.order = 1
  BY <1>2, <1>3 DEF StepRow, StepStatus, NoStep
<1>5. FirstSteps(e) = [n \in Node |-> CASE n = StartNode -> a
                                        [] n = e.to /\ n # StartNode -> b
                                        [] OTHER -> NoStep]
  BY <1>2, <1>3 DEF FirstSteps
<1>6. PICK x : x = FirstSteps(e)
  OBVIOUS
<1>7. \A n \in Node : x[n] = IF n = StartNode THEN a ELSE IF n = e.to THEN b ELSE NoStep
  BY <1>5, <1>6
<1>8. x \in [Node -> StepRow]
  BY <1>4, <1>5, <1>6
<1>9. PICK L : L = {StartNode, e.to}
  OBVIOUS
<1>10. Materialised(s)' = L
  BY <1>1, <1>4, <1>6, <1>7, <1>9 DEF Materialised
<1>11. PICK C : C = IF e.to = StartNode THEN 1 ELSE 2
  OBVIOUS
<1>12. Cardinality(L) = C
  <2>1. IsFiniteSet({StartNode}) /\ Cardinality({StartNode}) = 1
    BY FS_Singleton
  <2>2. CASE e.to = StartNode
    <3>1. L = {StartNode}
      BY <1>9, <2>2
    <3>2. QED
      BY <1>11, <2>1, <2>2, <3>1
  <2>3. CASE e.to # StartNode
    <3>1. L = {StartNode} \cup {e.to} /\ e.to \notin {StartNode}
      BY <1>9, <2>3
    <3>2. Cardinality({StartNode} \cup {e.to}) = Cardinality({StartNode}) + 1
      BY <2>1, <3>1, FS_AddElement
    <3>3. Cardinality(L) = 2
      BY <2>1, <3>1, <3>2
    <3>4. QED
      BY <1>11, <2>3, <3>3
  <2>4. QED
    BY <2>2, <2>3
<1>13. /\ StartNode \in L /\ step'[s][StartNode].order = 0
       /\ e.to # StartNode => step'[s][e.to].order = 1
  BY <1>1, <1>4, <1>6, <1>7, <1>9
<1>14. \A k \in L : step'[s][k].order < C
  BY <1>9, <1>11, <1>13
<1>15. \A i \in 0 .. (C - 1) : \E k \in L : step'[s][k].order = i
  <2>1. SUFFICES ASSUME NEW i \in 0 .. (C - 1) PROVE \E k \in L : step'[s][k].order = i
    OBVIOUS
  <2>2. i = 0 \/ (i = 1 /\ e.to # StartNode)
    BY <1>11
  <2>3. QED
    BY <1>9, <1>13, <2>2
<1>16. \A k \in L : via'[s][k] = StartNode
  BY <1>1, <1>9
<1>17. \A k \in L, l \in L : step'[s][k].order = step'[s][l].order => k = l
  BY <1>9, <1>13
<1>18. \A k \in L, l \in L : Joined(s, k, l)'
  <2>1. SUFFICES ASSUME NEW k \in L, NEW l \in L,
                        step'[s][l].order = step'[s][k].order + 1
                 PROVE  \E d \in Edge : d.from = k /\ d.to = l
    BY DEF Joined
  <2>2. k = StartNode /\ l = e.to
    BY <1>9, <1>13, <2>1
  <2>3. QED
    BY <1>1, <2>2
<1>19. \A k \in L, l \in L :
            via'[s][l] = k /\ l # k => step'[s][k].order < step'[s][l].order
  BY <1>9, <1>13, <1>16
<1>20. \A k \in L : via'[s][k] \in L
  BY <1>13, <1>16
<1>21. Walk(s)'
  BY <1>10, <1>12, <1>13, <1>14, <1>15, <1>17, <1>18, <1>19, <1>20, WalkOf
<1>22. QED
  BY <1>6, <1>8, <1>21

\* A session is created with its first steps.
LEMMA SessionStarted ==
    ASSUME SessionIInv, NEW s \in Worked, StartSession(s)
    PROVE  SessionIInv'
<1>1. s \in Session /\ SessionTypeOK
  BY SessionAssumption DEF SessionIInv
<1>2. PICK e \in Outgoing(StartNode) :
        /\ session[s] = "NONE" /\ session' = [session EXCEPT ![s] = "OPEN"]
        /\ step' = [step EXCEPT ![s] = FirstSteps(e)]
        /\ UNCHANGED <<facts, restartOf, inFlight, via, raced, looped>>
  BY DEF StartSession
<1>3. /\ step'[s] = FirstSteps(e) /\ session'[s] = "OPEN"
      /\ \A u \in Session \ {s} : session'[u] = session[u] /\ step'[u] = step[u]
  BY <1>1, <1>2 DEF SessionTypeOK
<1>4. via'[s] = [n \in Node |-> StartNode]
  BY <1>1, <1>2 DEF SessionIInv, UnstartedOK
<1>5. FirstSteps(e) \in [Node -> StepRow] /\ Walk(s)'
  BY <1>1, <1>3, <1>4, FirstWalk
<1>6. SessionTypeOK'
  BY <1>1, <1>2, <1>5 DEF SessionTypeOK, SessionStatus
<1>7. SessionRequestsOK'
  <2>1. SUFFICES ASSUME NEW u \in Tab, NEW r, r = inFlight'[u], r # Nothing PROVE SessionRequestOK(r)'
    BY RequestsNext
  <2>2. r = inFlight[u] /\ r.on \in Session /\ r.node \in Node /\ SessionRequestOK(r)
    BY <1>2, <2>1, RequestShape DEF SessionIInv, SessionRequestsOK
  <2>3. r.on # s /\ session'[r.on] = session[r.on] /\ step'[r.on] = step[r.on]
    BY <1>2, <1>3, <2>2 DEF SessionRequestOK
  <2>4. r.fresh => AsRead(r)'
    BY <2>2, <2>3, ReadStays DEF SessionRequestOK
  <2>5. QED
    BY <2>2, <2>3, <2>4 DEF SessionRequestOK
<1>8. UnstartedOK'
  BY <1>2, <1>3 DEF SessionIInv, UnstartedOK
<1>9. RestartsOK' /\ RestartedOnce'
  <2>1. RestartedOnce'
    BY <1>2 DEF SessionIInv, RestartedOnce
  <2>2. RestartsOK'
    BY <1>1, <1>2, <1>3 DEF SessionIInv, RestartsOK, SessionTypeOK
  <2>3. QED
    BY <2>1, <2>2
<1>10. WalksOK'
  <2>1. SUFFICES ASSUME NEW u \in Session, session'[u] # "NONE", ~raced'[u], ~looped'[u], u # s
                 PROVE  Walk(u)'
    BY <1>5 DEF WalksOK
  <2>2. Walk(u)
    BY <1>2, <1>3, <2>1 DEF SessionIInv, WalksOK
  <2>3. QED
    BY <1>2, <1>3, <2>1, <2>2, WalkStays
<1>11. CompletedIsSettled'
  <2>1. SUFFICES ASSUME NEW u \in Session, session'[u] = "COMPLETED", ~raced'[u]
                 PROVE  /\ \A n \in Materialised(u)' : step'[u][n].status = "DONE"
                        /\ \E n \in Terminal : step'[u][n].status = "DONE"
    BY DEF CompletedIsSettled
  <2>2. u # s /\ session[u] = "COMPLETED" /\ step'[u] = step[u] /\ via'[u] = via[u] /\ ~raced[u]
    BY <1>2, <1>3, <2>1
  <2>3. Materialised(u)' = Materialised(u)
    BY <2>2 DEF Materialised
  <2>4. QED
    BY <2>2, <2>3 DEF SessionIInv, CompletedIsSettled
<1>12. QED
  BY <1>6, <1>7, <1>8, <1>9, <1>10, <1>11 DEF SessionIInv

\* A session is closed and the one that goes on from it created, or neither.
LEMMA RestartWritten ==
    ASSUME SessionIInv, NEW t \in Tab, NEW new \in Session \ Worked, WriteRestart(t, new)
    PROVE  SessionIInv'
<1>1. inFlight[t] # Nothing
  BY DEF WriteRestart, Nothing
<1>2. PICK s \in Session : s = inFlight[t].on
  BY <1>1, RequestShape DEF SessionIInv
<1>3. SessionTypeOK /\ session[new] = "NONE"
  BY DEF SessionIInv, WriteRestart
<1>4. CASE Refused(t)
  BY <1>4, SessionEnded
<1>5. CASE ~Refused(t)
  <2>1. PICK e \in Outgoing(StartNode) :
          /\ session[s] = "OPEN"
          /\ session' = [session EXCEPT ![s] = "RESTARTED", ![new] = "OPEN"]
          /\ step' = [step EXCEPT ![new] = FirstSteps(e)]
          /\ restartOf' = [restartOf EXCEPT ![new] = s]
          /\ Answers(t, s)
          /\ UNCHANGED <<facts, via, looped>>
    BY <1>2, <1>5 DEF WriteRestart, Restartable, IsOpen
  <2>2. new # s
    BY <1>3, <2>1
  <2>3. /\ step'[new] = FirstSteps(e) /\ session'[new] = "OPEN" /\ session'[s] = "RESTARTED"
        /\ \A u \in Session \ {new} : step'[u] = step[u]
        /\ \A u \in Session \ {s, new} : session'[u] = session[u]
        /\ restartOf'[new] = s /\ \A u \in Session \ {new} : restartOf'[u] = restartOf[u]
    BY <1>3, <2>1, <2>2 DEF SessionTypeOK
  <2>4. via'[new] = [n \in Node |-> StartNode]
    BY <1>3, <2>1 DEF SessionIInv, UnstartedOK
  <2>5. FirstSteps(e) \in [Node -> StepRow] /\ Walk(new)'
    BY <2>3, <2>4, FirstWalk
  <2>6. /\ session' \in [Session -> SessionStatus \cup {"NONE"}]
        /\ step' \in [Session -> [Node -> StepRow]]
        /\ facts' \in [Session -> SUBSET Fact]
        /\ restartOf' \in [Session -> Session \cup {NoSession}]
        /\ via' \in [Session -> [Node -> Node]]
        /\ looped' \in [Session -> BOOLEAN]
    BY <1>3, <2>1, <2>5 DEF SessionTypeOK, SessionStatus
  <2>7. \A u \in Session : restartOf[u] # s
    BY <2>1, SessionAssumption DEF SessionIInv, RestartsOK, SessionTypeOK
  <2>8. RestartsOK'
    <3>1. SUFFICES ASSUME NEW u \in Session, restartOf'[u] # NoSession
                   PROVE  session'[restartOf'[u]] \in {"RESTARTED", "COMPLETED"}
      BY DEF RestartsOK
    <3>2. CASE u = new
      BY <2>3, <3>2
    <3>3. CASE u # new
      <4>1. restartOf[u] \in Session /\ session[restartOf[u]] \in {"RESTARTED", "COMPLETED"}
        BY <2>3, <3>1, <3>3 DEF SessionIInv, RestartsOK, SessionTypeOK
      <4>2. restartOf[u] \notin {s, new}
        BY <1>3, <2>1, <4>1
      <4>3. QED
        BY <2>3, <3>3, <4>1, <4>2
    <3>4. QED
      BY <3>2, <3>3
  <2>9. RestartedOnce'
    <3>1. SUFFICES ASSUME NEW u \in Session, NEW v \in Session,
                          restartOf'[u] = restartOf'[v], restartOf'[u] # NoSession
                   PROVE  u = v
      BY DEF RestartedOnce
    <3>2. QED
      BY <2>3, <2>7, <3>1 DEF SessionIInv, RestartedOnce
  <2>10. \A u \in Session \ {s} :
              \/ session'[u] = session[u] /\ step'[u] = step[u] /\ via'[u] = via[u]
                 /\ (looped'[u] <=> looped[u])
              \/ session[u] = "NONE" /\ session'[u] = "OPEN" /\ Walk(u)'
    <3>1. SUFFICES ASSUME NEW u \in Session \ {s, new}
                   PROVE  session'[u] = session[u] /\ step'[u] = step[u] /\ via'[u] = via[u]
                          /\ (looped'[u] <=> looped[u])
      BY <1>3, <2>3, <2>5
    <3>2. QED
      BY <2>1, <2>3
  <2>11. ASSUME ~raced[s], ~looped'[s] PROVE Walk(s)'
    <3>1. Walk(s)
      BY <2>1, <2>11 DEF SessionIInv, WalksOK
    <3>2. step'[s] = step[s] /\ via'[s] = via[s]
      BY <2>1, <2>2, <2>3
    <3>3. QED
      BY <3>1, <3>2, WalkStays
  <2>12. session'[s] # "NONE" /\ session'[s] # "COMPLETED" /\ Answers(t, s)
    BY <2>1, <2>3
  <2>13. QED
    BY <1>1, <1>2, <2>6, <2>8, <2>9, <2>10, <2>11, <2>12, SessionWritten
<1>6. QED
  BY <1>4, <1>5

\* A request that asks what it may writes what was read.
LEMMA SessionRead ==
    ASSUME SessionIInv, NEW t \in Tab, NEW s \in Session, NEW n \in Node,
           NEW op \in {"answer", "finish", "reopen", "facts", "discard", "reconfirm",
                       "restart", "complete"},
           NEW along \in Edge \cup {NoSession}, NEW found \in BOOLEAN, NEW order \in Nat,
           NEW known \in SUBSET Fact, IsOpen(s),
           Asks(t, op, s, n, along, found, order, known),
           op = "answer" =>
              /\ along \in Edge /\ along.from = n
              /\ ~along.loop =>
                    IF found THEN along.to \in StepAfter(s, n) ELSE StepAfter(s, n) = {},
           op \in {"discard", "reconfirm"} => order = step[s][n].order,
           op = "complete" => Completable(s)
    PROVE  SessionIInv'
<1>1. PICK r : r = [op |-> op, on |-> s, node |-> n, along |-> along, found |-> found,
                    order |-> order, facts |-> known, fresh |-> TRUE]
  OBVIOUS
<1>2. /\ r.op = op /\ r.on = s /\ r.node = n /\ r.along = along /\ r.found = found
      /\ r.order = order /\ r.facts = known
  BY <1>1
<1>3. r \in RequestRow
  BY <1>1 DEF RequestRow
<1>4. /\ inFlight' = [inFlight EXCEPT ![t] = r]
      /\ UNCHANGED <<session, step, facts, restartOf, via, raced, looped>>
  BY <1>1 DEF Asks
<1>5. session[s] = "OPEN"
  BY DEF IsOpen
<1>6. r.op = "answer" /\ ~r.along.loop =>
        IF r.found THEN r.along.to \in StepAfter(r.on, r.node) ELSE StepAfter(r.on, r.node) = {}
  BY <1>2
<1>7. AsRead(r)
  BY <1>2, <1>5, <1>6 DEF AsRead
<1>8. SessionRequestOK(r)
  BY <1>2, <1>5, <1>7 DEF SessionRequestOK
<1>9. QED
  BY <1>3, <1>4, <1>8, SessionAsked

\* An answer reads where it goes.
LEMMA AnswerRead ==
    ASSUME SessionIInv, NEW t \in Tab, NEW s \in Session, NEW e \in Edge, ReadAnswer(t, s, e)
    PROVE  SessionIInv'
<1>1. IsOpen(s) /\ e.from \in Node /\ e.loop \in BOOLEAN
  BY SessionAssumption DEF ReadAnswer
<1>2. PICK found \in BOOLEAN :
        /\ Asks(t, "answer", s, e.from, e, found, 0, {})
        /\ ~e.loop => IF found THEN e.to \in StepAfter(s, e.from) ELSE StepAfter(s, e.from) = {}
  <2>1. CASE e.loop
    <3>1. Asks(t, "answer", s, e.from, e, e.to \in Materialised(s), 0, {})
      BY <2>1 DEF ReadAnswer
    <3>2. (e.to \in Materialised(s)) \in BOOLEAN
      OBVIOUS
    <3>3. QED
      BY <2>1, <3>1, <3>2
  <2>2. CASE ~e.loop /\ Unvisited(s, e) /\ Asks(t, "answer", s, e.from, e, FALSE, 0, {})
    <3>1. StepAfter(s, e.from) = {}
      BY <2>2 DEF Unvisited
    <3>2. QED
      BY <2>2, <3>1
  <2>3. CASE ~e.loop /\ e.to \in Following(s, e.from) /\ Asks(t, "answer", s, e.from, e, TRUE, 0, {})
    <3>1. e.to \in StepAfter(s, e.from)
      BY <2>3 DEF Following
    <3>2. QED
      BY <2>3, <3>1
  <2>4. QED
    BY <2>1, <2>2, <2>3 DEF ReadAnswer
<1>3. e \in Edge \cup {NoSession} /\ 0 \in Nat /\ {} \in SUBSET Fact
  OBVIOUS
<1>4. QED
  BY <1>1, <1>2, <1>3, SessionRead

\* The other requests read their session, step or facts.
LEMMA OthersRead ==
    ASSUME SessionIInv, NEW t \in Tab, NEW s \in Session, NEW n \in Node,
           NEW known \in SUBSET Fact, NEW strategy \in {"discard", "reconfirm"},
           \/ ReadFinish(t, s, n) \/ ReadReopen(t, s, n) \/ ReadRewind(t, s, n, strategy)
           \/ ReadFacts(t, s, known) \/ ReadRestart(t, s) \/ ReadComplete(t, s)
    PROVE  SessionIInv'
<1>1. /\ NoSession \in Edge \cup {NoSession} /\ 0 \in Nat /\ {} \in SUBSET Fact
      /\ TRUE \in BOOLEAN /\ StartNode \in Node
  BY SessionAssumption
<1>2. CASE ReadFinish(t, s, n)
  <2>1. IsOpen(s) /\ Asks(t, "finish", s, n, NoSession, TRUE, 0, {})
    BY <1>2 DEF ReadFinish
  <2>2. QED
    BY <1>1, <2>1, SessionRead
<1>3. CASE ReadReopen(t, s, n)
  <2>1. IsOpen(s) /\ Asks(t, "reopen", s, n, NoSession, TRUE, 0, {})
    BY <1>3 DEF ReadReopen
  <2>2. QED
    BY <1>1, <2>1, SessionRead
<1>4. CASE ReadRewind(t, s, n, strategy)
  <2>1. /\ IsOpen(s) /\ n \in Materialised(s)
        /\ Asks(t, strategy, s, n, NoSession, TRUE, step[s][n].order, {})
    BY <1>4 DEF ReadRewind
  <2>2. step[s][n].order \in Nat
    BY <2>1, StepsFinite DEF SessionIInv
  <2>3. PICK j \in Nat : j = step[s][n].order
    BY <2>2
  <2>4. Asks(t, strategy, s, n, NoSession, TRUE, j, {})
    BY <2>1, <2>3
  <2>5. /\ strategy \in {"answer", "finish", "reopen", "facts", "discard", "reconfirm",
                          "restart", "complete"}
        /\ strategy # "answer" /\ strategy # "complete"
    OBVIOUS
  <2>6. QED
    BY <1>1, <2>1, <2>3, <2>4, <2>5, SessionRead
<1>5. CASE ReadFacts(t, s, known)
  <2>1. IsOpen(s) /\ Asks(t, "facts", s, StartNode, NoSession, TRUE, 0, known)
    BY <1>5 DEF ReadFacts
  <2>2. QED
    BY <1>1, <2>1, SessionRead
<1>6. CASE ReadRestart(t, s)
  <2>1. IsOpen(s) /\ Asks(t, "restart", s, StartNode, NoSession, TRUE, 0, {})
    BY <1>6 DEF ReadRestart
  <2>2. QED
    BY <1>1, <2>1, SessionRead
<1>7. CASE ReadComplete(t, s)
  <2>1. IsOpen(s) /\ Completable(s) /\ Asks(t, "complete", s, StartNode, NoSession, TRUE, 0, {})
    BY <1>7 DEF ReadComplete
  <2>2. QED
    BY <1>1, <2>1, SessionRead
<1>8. QED
  BY <1>2, <1>3, <1>4, <1>5, <1>6, <1>7

\* One step for each kind of request and write.
LEMMA SessionSteps == SessionIInv /\ [SessionNext]_sessionVars => SessionIInv'
<1> SUFFICES ASSUME SessionIInv, [SessionNext]_sessionVars PROVE SessionIInv'
  OBVIOUS
<1>0. Worked \subseteq Session /\ StartNode \in Node
  BY SessionAssumption
<1>1. CASE UNCHANGED sessionVars
  <2>1. /\ session' = session /\ step' = step /\ facts' = facts /\ restartOf' = restartOf
        /\ inFlight' = inFlight /\ via' = via /\ raced' = raced /\ looped' = looped
    BY <1>1 DEF sessionVars
  <2>2. SessionTypeOK' /\ UnstartedOK' /\ RestartsOK' /\ RestartedOnce'
    BY <2>1 DEF SessionIInv, SessionTypeOK, UnstartedOK, RestartsOK, RestartedOnce
  <2>3. SessionRequestsOK'
    BY <2>1 DEF SessionIInv, SessionRequestsOK, SessionRequestOK, AsRead, Materialised, StepAfter, Completable
  <2>4. WalksOK'
    BY <2>1 DEF SessionIInv, WalksOK, Walk, Joined, Materialised
  <2>5. CompletedIsSettled'
    BY <2>1 DEF SessionIInv, CompletedIsSettled, Materialised
  <2>6. QED
    BY <2>2, <2>3, <2>4, <2>5 DEF SessionIInv
<1>2. ASSUME NEW s \in Worked, StartSession(s) PROVE SessionIInv'
  BY <1>2, SessionStarted
<1>3. ASSUME NEW t \in Tab, NEW s \in Worked, NEW e \in Edge, ReadAnswer(t, s, e)
      PROVE  SessionIInv'
  BY <1>0, <1>3, AnswerRead
<1>4. ASSUME NEW t \in Tab, NEW s \in Worked, NEW n \in Node,
             \/ ReadFinish(t, s, n) \/ ReadReopen(t, s, n)
             \/ ReadRewind(t, s, n, "discard") \/ ReadRewind(t, s, n, "reconfirm")
      PROVE  SessionIInv'
  <2>1. s \in Session /\ {} \in SUBSET Fact
    BY <1>0
  <2>2. QED
    BY <1>4, <2>1, OthersRead
<1>5. ASSUME NEW t \in Tab, NEW s \in Worked, NEW known \in SUBSET Fact,
             ReadFacts(t, s, known) \/ ReadRestart(t, s) \/ ReadComplete(t, s)
      PROVE  SessionIInv'
  <2>1. s \in Session
    BY <1>0
  <2>2. QED
    BY <1>0, <1>5, <2>1, OthersRead
<1>6. ASSUME NEW t \in Tab,
             \/ WriteAnswer(t) \/ WriteFinish(t) \/ WriteReopen(t) \/ WriteFacts(t)
             \/ WriteRewind(t) \/ WriteComplete(t)
      PROVE  SessionIInv'
  <2>1. "DONE" \in StepStatus /\ "PENDING" \in StepStatus
    BY DEF StepStatus
  <2>2. CASE WriteFinish(t)
    BY <2>1, <2>2, StatusGiven DEF WriteFinish
  <2>3. CASE WriteReopen(t)
    BY <2>1, <2>3, StatusGiven DEF WriteReopen
  <2>4. QED
    BY <1>6, <2>2, <2>3, AnswerWritten, FactsWritten, RewindWritten
<1>7. ASSUME NEW t \in Tab, LoseRequest(t) PROVE SessionIInv'
  BY <1>7, SessionEnded DEF LoseRequest
<1>8. ASSUME NEW t \in Tab, NEW new \in Session \ Worked, WriteRestart(t, new) PROVE SessionIInv'
  BY <1>8, RestartWritten
<1>9. QED
  <2>1. {} \in SUBSET Fact
    OBVIOUS
  <2>2. QED
    BY <1>1, <1>2, <1>3, <1>4, <1>5, <1>6, <1>7, <1>8, <2>1 DEF SessionNext

\* The inductive invariant: what a request has read still holds of its session
\* unless something was written on it since; a session that is restarted is closed;
\* the steps of a session on which no requests crossed and no loop was taken are
\* numbered without a gap along transitions, each after the one it was reached from.
THEOREM SessionInvariance == SessionSpec => []SessionIInv
<1>1. SessionInit => SessionIInv
  BY SessionStarts
<1>2. SessionIInv /\ [SessionNext]_sessionVars => SessionIInv'
  BY SessionSteps
<1>3. QED
  BY <1>1, <1>2, PTL DEF SessionSpec

\* A session is well formed, restarted by one other at most, one walk through the
\* graph from its start while no requests cross and no loop is taken, and settled
\* when it is completed (updateServiceFlowSessionStep, rewindServiceFlowSessionStep,
\* restartServiceFlowSession, completeServiceFlowSession).
THEOREM SessionsWalk == SessionSpec => []SessionIsWalk
<1>1. SessionIInv => StepsFormWalk
  BY DEF SessionIInv, WalksOK, Walk, StepsFormWalk
<1>2. SessionIInv => SessionIsWalk
  BY <1>1 DEF SessionIInv, SessionIsWalk
<1>3. QED
  BY <1>2, SessionInvariance, PTL

\* A session that is closed is changed only by a request that had read it open
\* before, whatever the tabs do.
LEMMA ClosedKept ==
    ASSUME SessionIInv, SessionNext, NEW s \in Session, session[s] \in {"COMPLETED", "RESTARTED"}
    PROVE  \/ session'[s] = session[s] /\ step'[s] = step[s] /\ facts'[s] = facts[s]
           \/ raced'[s]
<1>0. SessionTypeOK /\ Worked \subseteq Session
  BY SessionAssumption DEF SessionIInv
<1>1. ASSUME NEW t \in Tab, NEW u \in Session, inFlight[t] # Nothing, u = inFlight[t].on,
             Answers(t, u), u = s
      PROVE  raced'[s]
  <2>1. ~inFlight[t].fresh
    BY <1>1 DEF SessionIInv, SessionRequestsOK, SessionRequestOK, AsRead
  <2>2. raced'[s] = (raced[s] \/ ~inFlight[t].fresh)
    BY <1>0, <1>1, Zenon DEF SessionTypeOK, Answers
  <2>3. QED
    BY <2>1, <2>2, Zenon
<1>2. ASSUME NEW u \in Worked, StartSession(u)
      PROVE  session'[s] = session[s] /\ step'[s] = step[s] /\ facts'[s] = facts[s]
  <2>1. u # s
    BY <1>2 DEF StartSession
  <2>2. QED
    BY <1>0, <1>2, <2>1 DEF StartSession, SessionTypeOK
<1>3. ASSUME NEW t \in Tab, Refused(t)
      PROVE  session'[s] = session[s] /\ step'[s] = step[s] /\ facts'[s] = facts[s]
  BY <1>3 DEF Refused
<1>4. ASSUME NEW t \in Tab, NEW op, NEW u, NEW n, NEW along, NEW found, NEW order, NEW known,
             Asks(t, op, u, n, along, found, order, known)
      PROVE  session'[s] = session[s] /\ step'[s] = step[s] /\ facts'[s] = facts[s]
  BY <1>4 DEF Asks
<1>5. ASSUME NEW t \in Tab, inFlight[t] # Nothing, inFlight[t].on # s, ~Refused(t),
             \/ WriteAnswer(t) \/ WriteFinish(t) \/ WriteReopen(t) \/ WriteFacts(t)
             \/ WriteRewind(t) \/ WriteComplete(t)
      PROVE  session'[s] = session[s] /\ step'[s] = step[s] /\ facts'[s] = facts[s]
  <2>1. PICK u \in Session : u = inFlight[t].on /\ u # s
    BY <1>0, <1>5, RequestShape
  <2>2. CASE WriteAnswer(t)
    <3>1. /\ UNCHANGED <<session, facts>>
          /\ \E x : step' = [step EXCEPT ![u] = x]
      BY <1>5, <2>1, <2>2 DEF WriteAnswer
    <3>2. QED
      BY <1>0, <2>1, <3>1 DEF SessionTypeOK
  <2>3. CASE WriteFinish(t) \/ WriteReopen(t)
    <3>1. /\ UNCHANGED <<session, facts>>
          /\ \E x : step' = [step EXCEPT ![u] = x]
      BY <1>5, <2>1, <2>3 DEF WriteFinish, WriteReopen, WriteStatus
    <3>2. QED
      BY <1>0, <2>1, <3>1 DEF SessionTypeOK
  <2>4. CASE WriteRewind(t)
    <3>1. /\ UNCHANGED <<session, facts>>
          /\ \E x : step' = [step EXCEPT ![u] = x]
      BY <1>5, <2>1, <2>4 DEF WriteRewind
    <3>2. QED
      BY <1>0, <2>1, <3>1 DEF SessionTypeOK
  <2>5. CASE WriteFacts(t)
    BY <1>0, <2>1, <2>5 DEF WriteFacts, SessionTypeOK
  <2>6. CASE WriteComplete(t)
    BY <1>0, <2>1, <2>6 DEF WriteComplete, SessionTypeOK
  <2>7. QED
    BY <1>5, <2>2, <2>3, <2>4, <2>5, <2>6
<1>6. ASSUME NEW t \in Tab, inFlight[t] # Nothing, inFlight[t].on = s, ~Refused(t),
             \/ WriteAnswer(t) \/ WriteFinish(t) \/ WriteReopen(t) \/ WriteFacts(t)
             \/ WriteRewind(t) \/ WriteComplete(t)
      PROVE  raced'[s]
  <2>1. Answers(t, s)
    BY <1>6 DEF WriteAnswer, WriteFinish, WriteReopen, WriteStatus, WriteFacts, WriteRewind,
                WriteComplete
  <2>2. QED
    BY <1>1, <1>6, <2>1
<1>7. ASSUME NEW t \in Tab, NEW new \in Session \ Worked, WriteRestart(t, new)
      PROVE  session'[s] = session[s] /\ step'[s] = step[s] /\ facts'[s] = facts[s]
  <2>1. inFlight[t] # Nothing /\ session[new] = "NONE"
    BY <1>7 DEF WriteRestart, Nothing
  <2>2. PICK u \in Session : u = inFlight[t].on
    BY <1>0, <2>1, RequestShape
  <2>3. CASE Restartable(u) /\ ~Refused(t)
    <3>1. u # s /\ new # s /\ session[u] = "OPEN"
      BY <2>1, <2>3 DEF Restartable, IsOpen
    <3>2. /\ UNCHANGED facts /\ session' = [session EXCEPT ![u] = "RESTARTED", ![new] = "OPEN"]
          /\ \E x : step' = [step EXCEPT ![new] = x]
      BY <1>7, <2>2, <2>3 DEF WriteRestart
    <3>3. QED
      BY <1>0, <3>1, <3>2 DEF SessionTypeOK
  <2>4. CASE Refused(t)
    BY <1>3, <2>4
  <2>5. QED
    BY <1>7, <2>2, <2>3, <2>4 DEF WriteRestart
<1>8. ASSUME NEW t \in Tab,
             \/ WriteAnswer(t) \/ WriteFinish(t) \/ WriteReopen(t) \/ WriteFacts(t)
             \/ WriteRewind(t) \/ WriteComplete(t)
      PROVE  \/ session'[s] = session[s] /\ step'[s] = step[s] /\ facts'[s] = facts[s]
             \/ raced'[s]
  <2>1. inFlight[t] # Nothing
    <3>1. inFlight[t].op \in {"answer", "finish", "reopen", "facts", "discard", "reconfirm", "complete"}
      BY <1>8 DEF WriteAnswer, WriteFinish, WriteReopen, WriteStatus, WriteFacts, WriteRewind,
                  WriteComplete
    <3>2. QED
      BY <3>1 DEF Nothing
  <2>2. QED
    BY <1>3, <1>5, <1>6, <1>8, <2>1
<1>9. ASSUME NEW t \in Tab, NEW u \in Worked,
             \/ \E e \in Edge : ReadAnswer(t, u, e)
             \/ \E n \in Node :
                \/ ReadFinish(t, u, n) \/ ReadReopen(t, u, n)
                \/ ReadRewind(t, u, n, "discard") \/ ReadRewind(t, u, n, "reconfirm")
             \/ \E known \in SUBSET Fact : ReadFacts(t, u, known)
             \/ ReadRestart(t, u) \/ ReadComplete(t, u)
      PROVE  session'[s] = session[s] /\ step'[s] = step[s] /\ facts'[s] = facts[s]
  BY <1>4, <1>9 DEF ReadAnswer, ReadFinish, ReadReopen, ReadRewind, ReadFacts, ReadRestart,
                    ReadComplete
<1>10. QED
  BY <1>2, <1>3, <1>7, <1>8, <1>9 DEF SessionNext, LoseRequest

\* What a rewind with discard leaves was not reached from the step rewound to.
LEMMA DiscardIsWhole ==
    ASSUME SessionIInv, SessionNext, NEW t \in Tab, Discards(t),
           ~looped[inFlight[t].on], ~raced[inFlight[t].on]
    PROVE  Remains(t) = {}
<1>1. PICK r : r = inFlight[t]
  OBVIOUS
<1>2. /\ SessionTypeOK /\ r # Nothing /\ r.op = "discard" /\ r.fresh /\ inFlight'[t] = Nothing
      /\ step' # step
  BY <1>1 DEF Discards, SessionIInv
<1>3. PICK s \in Session, n \in Node, j \in Nat : s = r.on /\ n = r.node /\ j = r.order
  BY <1>1, <1>2, RequestShape
<1>4. /\ session[s] = "OPEN" /\ j = step[s][n].order
  BY <1>1, <1>2, <1>3 DEF SessionIInv, SessionRequestsOK, SessionRequestOK, AsRead
<1>5. Walk(s)
  BY <1>1, <1>3, <1>4 DEF SessionIInv, WalksOK
<1>6. ASSUME NEW u \in Tab, NEW v, Answers(u, v) PROVE u = t
  <2>1. r.op # "none"
    BY <1>2
  <2>2. QED
    BY <1>1, <1>2, <1>6, <2>1 DEF Answers, Nothing
<1>7. ASSUME NEW u \in Tab, Refused(u) PROVE FALSE
  BY <1>2, <1>7 DEF Refused
<1>8. ASSUME NEW u \in Tab, NEW op, NEW v, NEW k, NEW along, NEW found, NEW order, NEW known,
             Asks(u, op, v, k, along, found, order, known)
      PROVE  FALSE
  BY <1>2, <1>8 DEF Asks
<1>9. ASSUME NEW v \in Worked, StartSession(v) PROVE FALSE
  BY <1>1, <1>2, <1>9 DEF StartSession
<1>10. ASSUME NEW u \in Tab,
              \/ WriteAnswer(u) \/ WriteFinish(u) \/ WriteReopen(u) \/ WriteFacts(u)
              \/ WriteRewind(u) \/ WriteComplete(u)
              \/ \E new \in Session \ Worked : WriteRestart(u, new)
       PROVE  u = t /\ WriteRewind(t)
  <2>1. u = t
    BY <1>6, <1>7, <1>10 DEF WriteAnswer, WriteFinish, WriteReopen, WriteStatus, WriteFacts,
                             WriteRewind, WriteComplete, WriteRestart
  <2>2. inFlight[t].op = "discard"
    BY <1>1, <1>2
  <2>3. QED
    BY <1>10, <2>1, <2>2 DEF WriteAnswer, WriteFinish, WriteReopen, WriteStatus, WriteFacts,
                             WriteComplete, WriteRestart
<1>11. ASSUME NEW u \in Tab, NEW v \in Worked,
             \/ \E e \in Edge : ReadAnswer(u, v, e)
             \/ \E k \in Node :
                \/ ReadFinish(u, v, k) \/ ReadReopen(u, v, k)
                \/ ReadRewind(u, v, k, "discard") \/ ReadRewind(u, v, k, "reconfirm")
             \/ \E known \in SUBSET Fact : ReadFacts(u, v, known)
             \/ ReadRestart(u, v) \/ ReadComplete(u, v)
       PROVE  FALSE
  BY <1>8, <1>11 DEF ReadAnswer, ReadFinish, ReadReopen, ReadRewind, ReadFacts, ReadRestart,
                     ReadComplete
<1>12. WriteRewind(t)
  BY <1>7, <1>9, <1>10, <1>11 DEF SessionNext, LoseRequest
<1>13. /\ n \in Materialised(s)
       /\ step' = [step EXCEPT ![s] = Rewound(s, n, j, "discard")]
  BY <1>1, <1>2, <1>3, <1>7, <1>12 DEF WriteRewind, Rewound
<1>14. \A m \in Node \ {n} : step'[s][m] # NoStep => step[s][m] # NoStep /\ ~Later(s, m, j)
  <2>1. step'[s] = Rewound(s, n, j, "discard")
    BY <1>2, <1>13 DEF SessionTypeOK
  <2>2. QED
    BY <2>1 DEF Rewound
<1>15. ASSUME NEW m \in Node \ {n}, step'[s][m] # NoStep, via[s][m] = n
       PROVE  FALSE
  <2>1. m \in Materialised(s) /\ ~(step[s][m].order > j)
    BY <1>14, <1>15 DEF Materialised, Later
  <2>2. step[s][n].order < step[s][m].order
    BY <1>5, <1>13, <1>15, <2>1 DEF Walk
  <2>3. step[s][m].order \in Nat
    BY <1>2, <2>1, StepsFinite
  <2>4. QED
    BY <1>4, <2>1, <2>2, <2>3
<1>16. QED
  BY <1>1, <1>3, <1>15 DEF Remains

\* A closed session is disturbed only by a request that had read it open
\* ("Sessao finalizada e imutavel"), and a rewind with discard leaves no step that was
\* reached from the step rewound to (rewindServiceFlowSessionStep).
THEOREM SessionsEnd == SessionSpec => SessionsEndCleanly
<1>1. SessionIInv /\ [SessionNext]_sessionVars =>
        [\A s \in Session :
            session[s] \in {"COMPLETED", "RESTARTED"} =>
                \/ session'[s] = session[s] /\ step'[s] = step[s] /\ facts'[s] = facts[s]
                \/ raced'[s]]_sessionVars
  BY ClosedKept DEF sessionVars
<1>2. SessionIInv /\ [SessionNext]_sessionVars =>
        [\A t \in Tab :
            Discards(t) /\ ~looped[inFlight[t].on] /\ ~raced[inFlight[t].on] => Remains(t) = {}]_sessionVars
  BY DiscardIsWhole DEF sessionVars
<1>3. SessionSpec => ClosedUnlessRaced
  BY <1>1, SessionInvariance, PTL DEF SessionSpec, ClosedUnlessRaced
<1>4. SessionSpec => DiscardLeavesNothingUnlessLooped
  BY <1>2, SessionInvariance, PTL DEF SessionSpec, DiscardLeavesNothingUnlessLooped
<1>5. QED
  BY <1>3, <1>4, PTL DEF SessionsEndCleanly

-----------------------------------------------------------------------------
(* The script library.                                                     *)

\* A handler that has made or changed a script for the suggestion it is to decide.
Adopter(w, q) ==
    /\ shelf[w].at \in {"written", "numbered", "deciding"}
    /\ shelf[w].for = q /\ shelf[w].decision # "REJECTED"

\* What a handler holds at each of its steps.
ShelfOK(w) ==
    /\ shelf[w].at \in {"judging", "deciding"} =>
         shelf[w].for \in Suggestion /\ shelf[w].decision # "none"
    /\ shelf[w].at \in {"written", "numbered"} =>
         /\ shelf[w].title \in Title /\ shelf[w].text \in Body /\ shelf[w].status \in ScriptStatus
         /\ shelf[w].decision # "REJECTED"
         /\ shelf[w].for # NoSuggestion <=> shelf[w].decision # "none"
    /\ shelf[w].at = "judging" => shelf[w].decision # "REJECTED"
    /\ shelf[w].at = "deciding" /\ shelf[w].decision # "REJECTED" => shelf[w].title \in Title
    /\ shelf[w].at = "judging" /\ shelf[w].decision = "MERGED" => shelf[w].title \in Title
    /\ shelf[w].at = "numbered" => shelf[w].last \in Versions(shelf[w].title) \cup {0}
    /\ shelf[w].at # "free" /\ shelf[w].for \in Suggestion => suggestion[shelf[w].for].status # "none"

\* Every handler has what its step needs.
ShelvesOK == \A w \in Curator : ShelfOK(w)

\* A script on which no handlers tangled has one of them at most, which holds what the
\* script says, and the number of its last revision.
OneWriter ==
    \A s \in Title \ tangled, w \in Curator : Between(w, s) =>
        /\ script[s] # NoScript
        /\ shelf[w].text = script[s].text /\ shelf[w].status = script[s].status
        /\ shelf[w].at = "numbered" => \A v \in Versions(s) : v <= shelf[w].last
        /\ \A o \in Curator : Between(o, s) => o = w

\* The script made or changed for a suggestion, while one handler is at it and when
\* none is any more.
Taken(q) ==
    /\ suggestion[q].status \in {"none", "SUGGESTED"} =>
         \A w \in Curator :
            Adopter(w, q) /\ (\A o \in Curator : Adopter(o, q) => o = w) => made[q] = {shelf[w].title}
    /\ (\A w \in Curator : ~Adopter(w, q)) =>
         IF suggestion[q].status \in {"ACCEPTED", "MERGED"} THEN \E s \in Title : made[q] = {s}
         ELSE made[q] = {}

\* Every suggestion is in step with its script, unless two handlers tangled on it.
TakenUp == \A q \in Suggestion \ split : Taken(q)

\* The inductive invariant.
LibraryIInv ==
    /\ LibraryTypeOK /\ ShelvesOK
    /\ NumberedWithoutGap /\ OneWriter /\ LastEditionIsServed /\ TakenUp

\* A handler puts a row of its own on the shelf.
Put(w, x) == shelf' = [shelf EXCEPT ![w] = x]

\* A handler that is busy.
LEMMA ShelfShape ==
    ASSUME LibraryTypeOK, NEW w \in Curator, shelf[w].at # "free"
    PROVE  /\ shelf[w] \in Handling /\ shelf[w] # NotBusy
           /\ shelf[w].title \in Title \cup {NoTitle} /\ shelf[w].text \in Body \cup {NoBody}
           /\ shelf[w].status \in ScriptStatus \cup {"none"} /\ shelf[w].last \in Nat
           /\ shelf[w].for \in Suggestion \cup {NoSuggestion}
           /\ shelf[w].decision \in {"none", "ACCEPTED", "MERGED", "REJECTED"}
<1>1. shelf[w] \in Handling \cup {NotBusy}
  BY DEF LibraryTypeOK
<1>2. shelf[w] # NotBusy
  BY DEF NotBusy
<1>3. shelf[w] \in Handling
  BY <1>1, <1>2
<1>4. QED
  BY <1>2, <1>3 DEF Handling

\* Only the handler that moves has another row.
LEMMA ShelfByOne ==
    ASSUME LibraryTypeOK, NEW w \in Curator, NEW x \in Handling \cup {NotBusy}, Put(w, x)
    PROVE  /\ shelf' \in [Curator -> Handling \cup {NotBusy}] /\ shelf'[w] = x
           /\ \A o \in Curator \ {w} :
                /\ shelf'[o] = shelf[o]
                /\ \A s \in Title : Between(o, s)' <=> Between(o, s)
                /\ \A q \in Suggestion : Adopter(o, q)' <=> Adopter(o, q)
<1>1. shelf \in [Curator -> Handling \cup {NotBusy}]
  BY DEF LibraryTypeOK
<1>2. /\ shelf' \in [Curator -> Handling \cup {NotBusy}] /\ shelf'[w] = x
      /\ \A o \in Curator \ {w} : shelf'[o] = shelf[o]
  BY <1>1 DEF Put
<1>3. QED
  BY <1>2 DEF Between, Adopter

\* A handler has put on its shelf the row with these fields.
OnShelf(w, stage, s, t, status, last, q, d) ==
    \E x \in Handling :
        /\ Put(w, x) /\ x # NotBusy
        /\ x.at = stage /\ x.title = s /\ x.text = t /\ x.status = status
        /\ x.last = last /\ x.for = q /\ x.decision = d

\* The row that is put on a shelf.
LEMMA Shelved ==
    ASSUME NEW w \in Curator, NEW stage \in {"judging", "written", "numbered", "deciding"},
           NEW s \in Title \cup {NoTitle}, NEW t \in Body \cup {NoBody},
           NEW status \in ScriptStatus \cup {"none"}, NEW last \in Nat,
           NEW q \in Suggestion \cup {NoSuggestion},
           NEW d \in {"none", "ACCEPTED", "MERGED", "REJECTED"},
           Shelves(w, stage, s, [text |-> t, status |-> status], last, q, d)
    PROVE  OnShelf(w, stage, s, t, status, last, q, d)
<1>1. PICK x : x = [at |-> stage, title |-> s, text |-> t, status |-> status, last |-> last,
                    for |-> q, decision |-> d]
  OBVIOUS
<1>2. /\ x \in Handling /\ x.at = stage /\ x.title = s /\ x.text = t /\ x.status = status
      /\ x.last = last /\ x.for = q /\ x.decision = d
  BY <1>1 DEF Handling
<1>3. x # NotBusy
  BY <1>2 DEF NotBusy
<1>4. Put(w, x)
  BY <1>1 DEF Shelves, Put
<1>5. QED
  BY <1>2, <1>3, <1>4 DEF OnShelf

\* The other handlers hold what they held.
LEMMA ShelvesByOne ==
    ASSUME LibraryIInv, NEW w \in Curator, NEW x \in Handling \cup {NotBusy}, Put(w, x),
           edition \subseteq edition', ShelfOK(w)',
           \A q \in Suggestion : suggestion[q].status # "none" => suggestion'[q].status # "none"
    PROVE  ShelvesOK'
<1>1. \A s \in Title : Versions(s) \subseteq Versions(s)'
  BY DEF Versions
<1>2. SUFFICES ASSUME NEW o \in Curator \ {w} PROVE ShelfOK(o)'
  BY DEF ShelvesOK
<1>3. shelf'[o] = shelf[o]
  BY ShelfByOne DEF LibraryIInv
<1>4. ShelfOK(o)
  BY DEF LibraryIInv, ShelvesOK
<1>5. shelf'[o].at = "numbered" => shelf'[o].last \in Versions(shelf[o].title)' \cup {0}
  <2>1. CASE shelf[o].at = "numbered"
    <3>1. PICK s \in Title : s = shelf[o].title
      BY <1>4, <2>1 DEF ShelfOK
    <3>2. shelf[o].last \in Versions(s) \cup {0}
      BY <1>4, <2>1, <3>1 DEF ShelfOK
    <3>3. QED
      BY <1>1, <1>3, <3>1, <3>2
  <2>2. QED
    BY <1>3, <2>1
<1>6. QED
  BY <1>3, <1>4, <1>5 DEF ShelfOK

\* A step that writes neither a script nor a revision, and leaves what the handler
\* holds of a script as it was, or tangled.
LEMMA ServedStill ==
    ASSUME LibraryIInv, NEW w \in Curator, NEW x \in Handling \cup {NotBusy}, Put(w, x),
           UNCHANGED <<script, edition>>, tangled \subseteq tangled',
           \A s \in Title \ tangled' :
             /\ Between(w, s)' <=> Between(w, s)
             /\ Between(w, s)' =>
                  /\ x.text = shelf[w].text /\ x.status = shelf[w].status
                  /\ x.at = "numbered" => \A v \in Versions(s) : v <= x.last
    PROVE  OneWriter' /\ LastEditionIsServed'
<1>1. /\ shelf'[w] = x
      /\ \A o \in Curator \ {w} :
            /\ shelf'[o] = shelf[o] /\ \A s \in Title : Between(o, s)' <=> Between(o, s)
  BY ShelfByOne DEF LibraryIInv
<1>2. \A s \in Title : Versions(s)' = Versions(s)
  BY DEF Versions
<1>3. ASSUME NEW s \in Title \ tangled'
      PROVE  s \notin tangled /\ \A o \in Curator : Between(o, s)' <=> Between(o, s)
  BY <1>1, <1>3
<1>4. OneWriter'
  <2>1. SUFFICES ASSUME NEW s \in Title \ tangled', NEW o \in Curator, Between(o, s)'
                 PROVE  /\ script'[s] # NoScript
                        /\ shelf'[o].text = script'[s].text /\ shelf'[o].status = script'[s].status
                        /\ shelf'[o].at = "numbered" => \A v \in Versions(s)' : v <= shelf'[o].last
                        /\ \A u \in Curator : Between(u, s)' => u = o
    BY DEF OneWriter
  <2>2. /\ Between(o, s) /\ script[s] # NoScript
        /\ shelf[o].text = script[s].text /\ shelf[o].status = script[s].status
        /\ shelf[o].at = "numbered" => \A v \in Versions(s) : v <= shelf[o].last
        /\ \A u \in Curator : Between(u, s) => u = o
    BY <1>3, <2>1 DEF LibraryIInv, OneWriter
  <2>3. CASE o = w
    BY <1>1, <1>2, <1>3, <2>1, <2>2, <2>3
  <2>4. CASE o # w
    BY <1>1, <1>2, <1>3, <2>1, <2>2, <2>4
  <2>5. QED
    BY <2>3, <2>4
<1>5. LastEditionIsServed'
  BY <1>3 DEF LibraryIInv, LastEditionIsServed
<1>6. QED
  BY <1>4, <1>5

\* A step that answers no suggestion, and whose handler is at the same one as before.
LEMMA TakenStill ==
    ASSUME LibraryIInv, NEW w \in Curator, NEW x \in Handling \cup {NotBusy}, Put(w, x),
           UNCHANGED <<suggestion, made>>, split \subseteq split',
           \A q \in Suggestion \ split' :
             /\ Adopter(w, q)' <=> Adopter(w, q)
             /\ Adopter(w, q)' => x.title = shelf[w].title
    PROVE  TakenUp'
<1>1. /\ shelf'[w] = x
      /\ \A o \in Curator \ {w} :
            /\ shelf'[o] = shelf[o] /\ \A q \in Suggestion : Adopter(o, q)' <=> Adopter(o, q)
  BY ShelfByOne DEF LibraryIInv
<1>2. SUFFICES ASSUME NEW q \in Suggestion \ split' PROVE Taken(q)'
  BY DEF TakenUp
<1>3. Taken(q)
  BY DEF LibraryIInv, TakenUp
<1>4. \A o \in Curator : Adopter(o, q)' <=> Adopter(o, q)
  BY <1>1
<1>5. \A o \in Curator : Adopter(o, q) => shelf'[o].title = shelf[o].title
  BY <1>1, <1>4
<1>6. QED
  BY <1>3, <1>4, <1>5 DEF Taken

\* A script's row is written.
LEMMA RowWritten ==
    ASSUME LibraryIInv, NEW w \in Curator, shelf[w].at \in {"free", "judging"},
           NEW s \in Title, NEW t \in Body, NEW status \in ScriptStatus,
           NEW q \in Suggestion \cup {NoSuggestion}, NEW d \in {"none", "ACCEPTED", "MERGED"},
           q # NoSuggestion <=> d # "none",
           q \in Suggestion => suggestion[q].status # "none",
           Writes(w, s, [text |-> t, status |-> status], q, d), UNCHANGED <<edition, suggestion>>
    PROVE  /\ script' \in [Title -> Script \cup {NoScript}] /\ tangled' \in SUBSET Title
           /\ ShelvesOK' /\ OneWriter' /\ LastEditionIsServed'
           /\ \E x \in Handling :
                /\ Put(w, x) /\ x # NotBusy
                /\ x.at = "written" /\ x.title = s /\ x.for = q /\ x.decision = d
<1>1. LibraryTypeOK
  BY DEF LibraryIInv
<1>2. Shelves(w, "written", s, [text |-> t, status |-> status], 0, q, d)
  BY DEF Writes
<1>3. PICK x \in Handling :
          /\ Put(w, x) /\ x # NotBusy
          /\ x.at = "written" /\ x.title = s /\ x.text = t /\ x.status = status
          /\ x.for = q /\ x.decision = d
  <2>1. /\ "written" \in {"judging", "written", "numbered", "deciding"} /\ 0 \in Nat
        /\ s \in Title \cup {NoTitle} /\ t \in Body \cup {NoBody}
        /\ status \in ScriptStatus \cup {"none"}
        /\ d \in {"none", "ACCEPTED", "MERGED", "REJECTED"}
    OBVIOUS
  <2>2. OnShelf(w, "written", s, t, status, 0, q, d)
    BY <1>2, <2>1, Shelved
  <2>3. QED
    BY <2>2 DEF OnShelf
<1>4. PICK row : row = [text |-> t, status |-> status]
  OBVIOUS
<1>5. row \in Script /\ row # NoScript /\ row.text = t /\ row.status = status
  BY <1>4, LibraryAssumption DEF Script, NoScript
<1>6. /\ script' = [script EXCEPT ![s] = row]
      /\ tangled' = IF \E o \in Curator \ {w} : Between(o, s) THEN tangled \cup {s} ELSE tangled \ {s}
  BY <1>4 DEF Writes
<1>7. script' \in [Title -> Script \cup {NoScript}] /\ tangled' \in SUBSET Title
  BY <1>1, <1>5, <1>6 DEF LibraryTypeOK
<1>8. /\ shelf'[w] = x
      /\ \A o \in Curator \ {w} :
            /\ shelf'[o] = shelf[o] /\ \A u \in Title : Between(o, u)' <=> Between(o, u)
  BY <1>1, <1>3, ShelfByOne
<1>9. \A u \in Title : ~Between(w, u) /\ (Between(w, u)' <=> u = s)
  BY <1>3, <1>8 DEF Between
<1>10. ShelvesOK'
  <2>1. ShelfOK(w)'
    <3>1. suggestion'[x.for].status # "none" \/ x.for \notin Suggestion
      BY <1>3
    <3>2. QED
      BY <1>3, <1>8, <3>1 DEF ShelfOK
  <2>2. \A u \in Suggestion : suggestion[u].status # "none" => suggestion'[u].status # "none"
    OBVIOUS
  <2>3. QED
    BY <1>3, <2>1, <2>2, ShelvesByOne
<1>11. /\ \A u \in Title : Versions(u)' = Versions(u)
       /\ script'[s] = row /\ \A u \in Title \ {s} : script'[u] = script[u]
  BY <1>1, <1>6 DEF Versions, LibraryTypeOK
<1>12. OneWriter'
  <2>1. SUFFICES ASSUME NEW u \in Title \ tangled', NEW o \in Curator, Between(o, u)'
                 PROVE  /\ script'[u] # NoScript
                        /\ shelf'[o].text = script'[u].text /\ shelf'[o].status = script'[u].status
                        /\ shelf'[o].at = "numbered" => \A v \in Versions(u)' : v <= shelf'[o].last
                        /\ \A p \in Curator : Between(p, u)' => p = o
    BY DEF OneWriter
  <2>2. CASE u = s
    <3>1. \A p \in Curator \ {w} : ~Between(p, s)
      BY <1>6, <2>2
    <3>2. o = w
      BY <1>8, <2>1, <2>2, <3>1
    <3>3. QED
      BY <1>3, <1>5, <1>8, <1>11, <2>2, <3>1, <3>2
  <2>3. CASE u # s
    <3>1. u \notin tangled /\ o # w /\ Between(o, u)
      BY <1>6, <1>8, <1>9, <2>1, <2>3
    <3>2. /\ script[u] # NoScript
          /\ shelf[o].text = script[u].text /\ shelf[o].status = script[u].status
          /\ shelf[o].at = "numbered" => \A v \in Versions(u) : v <= shelf[o].last
          /\ \A p \in Curator : Between(p, u) => p = o
      BY <3>1 DEF LibraryIInv, OneWriter
    <3>3. QED
      BY <1>8, <1>9, <1>11, <2>3, <3>1, <3>2
  <2>4. QED
    BY <2>2, <2>3
<1>13. LastEditionIsServed'
  <2>1. SUFFICES ASSUME NEW u \in Title \ tangled', script'[u] # NoScript,
                        \A o \in Curator : ~Between(o, u)'
                 PROVE  \E r \in edition :
                          /\ r.script = u
                          /\ \A o \in edition : o.script = u => o.version <= r.version
                          /\ r.text = script'[u].text /\ r.status = script'[u].status
    BY DEF LastEditionIsServed
  <2>2. u # s /\ u \notin tangled
    BY <1>6, <1>9, <2>1
  <2>3. script'[u] = script[u] /\ \A o \in Curator : ~Between(o, u)
    BY <1>8, <1>9, <1>11, <2>1, <2>2
  <2>4. QED
    BY <2>1, <2>2, <2>3 DEF LibraryIInv, LastEditionIsServed
<1>14. QED
  BY <1>3, <1>7, <1>10, <1>12, <1>13

\* A script is made, changed or restored on its own account.
LEMMA ScriptHandled ==
    ASSUME LibraryIInv, NEW w \in Curator, CreateScript(w) \/ UpdateScript(w) \/ RestoreEdition(w)
    PROVE  LibraryIInv'
<1>1. LibraryTypeOK
  BY DEF LibraryIInv
<1>2. PICK s \in Title, t \in Body, status \in ScriptStatus :
          Writes(w, s, [text |-> t, status |-> status], NoSuggestion, "none")
  <2>1. CASE CreateScript(w) \/ UpdateScript(w)
    BY <2>1 DEF CreateScript, UpdateScript
  <2>2. CASE RestoreEdition(w)
    <3>1. PICK r \in edition : Writes(w, r.script, [text |-> r.text, status |-> r.status], NoSuggestion, "none")
      BY <2>2 DEF RestoreEdition
    <3>2. r.script \in Title /\ r.text \in Body /\ r.status \in ScriptStatus
      BY <1>1 DEF LibraryTypeOK, Revision
    <3>3. QED
      BY <3>1, <3>2
  <2>3. QED
    BY <2>1, <2>2
<1>3. shelf[w] = NotBusy /\ UNCHANGED <<edition, suggestion, made, split>>
  BY DEF CreateScript, UpdateScript, RestoreEdition, Begins
<1>4. shelf[w].at = "free" /\ NoSuggestion \notin Suggestion
  BY <1>3, LibraryAssumption DEF NotBusy
<1>5. PICK x \in Handling :
          /\ Put(w, x) /\ x # NotBusy
          /\ x.at = "written" /\ x.title = s /\ x.for = NoSuggestion /\ x.decision = "none"
  BY <1>2, <1>3, <1>4, RowWritten
<1>6. /\ script' \in [Title -> Script \cup {NoScript}] /\ tangled' \in SUBSET Title
      /\ ShelvesOK' /\ OneWriter' /\ LastEditionIsServed'
  BY <1>2, <1>3, <1>4, RowWritten
<1>7. shelf' \in [Curator -> Handling \cup {NotBusy}] /\ shelf'[w] = x
  BY <1>1, <1>5, ShelfByOne
<1>8. LibraryTypeOK'
  BY <1>1, <1>3, <1>6, <1>7 DEF LibraryTypeOK
<1>9. TakenUp'
  <2>1. \A q \in Suggestion : ~Adopter(w, q) /\ ~Adopter(w, q)'
    BY <1>4, <1>5, <1>7, LibraryAssumption DEF Adopter
  <2>2. QED
    BY <1>3, <1>5, <2>1, TakenStill
<1>10. NumberedWithoutGap'
  BY <1>3 DEF LibraryIInv, NumberedWithoutGap
<1>11. QED
  BY <1>6, <1>8, <1>9, <1>10 DEF LibraryIInv

\* A suggestion is about to be decided.
LEMMA JudgeBegins ==
    ASSUME LibraryIInv, NEW w \in Curator, Judge(w)
    PROVE  LibraryIInv'
<1>1. LibraryTypeOK
  BY DEF LibraryIInv
<1>2. PICK q \in Suggestion, d \in {"ACCEPTED", "MERGED", "REJECTED"} :
          /\ suggestion[q].status = "SUGGESTED" /\ (d = "MERGED" => suggestion[q].about # NoTitle)
          /\ Shelves(w, IF d = "REJECTED" THEN "deciding" ELSE "judging", suggestion[q].about,
                     NoScript, 0, q, d)
  BY DEF Judge
<1>3. /\ shelf[w] = NotBusy /\ shelf[w].at = "free"
      /\ UNCHANGED <<script, edition, suggestion, made, tangled, split>>
  BY DEF Judge, Begins, NotBusy
<1>4. suggestion[q].about \in Title \cup {NoTitle}
  <2>1. suggestion[q] \in Suggested \cup {Unsaid}
    BY <1>1 DEF LibraryTypeOK
  <2>2. QED
    BY <1>2, <2>1 DEF Suggested, Unsaid
<1>5. PICK x \in Handling :
          /\ Put(w, x) /\ x # NotBusy
          /\ x.at = (IF d = "REJECTED" THEN "deciding" ELSE "judging")
          /\ x.title = suggestion[q].about /\ x.for = q /\ x.decision = d
  <2>1. PICK stage \in {"judging", "written", "numbered", "deciding"}, about \in Title \cup {NoTitle},
             t \in Body \cup {NoBody}, status \in ScriptStatus \cup {"none"} :
                /\ stage = (IF d = "REJECTED" THEN "deciding" ELSE "judging")
                /\ about = suggestion[q].about /\ t = NoBody /\ status = "none"
    BY <1>4
  <2>2. Shelves(w, stage, about, [text |-> t, status |-> status], 0, q, d)
    BY <1>2, <2>1 DEF NoScript
  <2>3. /\ 0 \in Nat /\ q \in Suggestion \cup {NoSuggestion}
        /\ d \in {"none", "ACCEPTED", "MERGED", "REJECTED"}
    OBVIOUS
  <2>4. OnShelf(w, stage, about, t, status, 0, q, d)
    BY <2>2, <2>3, Shelved
  <2>5. QED
    BY <2>1, <2>4 DEF OnShelf
<1>6. shelf' \in [Curator -> Handling \cup {NotBusy}] /\ shelf'[w] = x
  BY <1>1, <1>5, ShelfByOne
<1>7. LibraryTypeOK'
  BY <1>1, <1>3, <1>6 DEF LibraryTypeOK
<1>8. ShelvesOK'
  <2>1. ShelfOK(w)'
    <3>1. x.for \in Suggestion /\ suggestion'[x.for].status # "none"
      BY <1>2, <1>3, <1>5
    <3>2. x.title = NoTitle => d # "MERGED"
      BY <1>2, <1>5
    <3>3. QED
      BY <1>2, <1>4, <1>5, <1>6, <3>1, <3>2 DEF ShelfOK
  <2>2. \A u \in Suggestion : suggestion[u].status # "none" => suggestion'[u].status # "none"
    BY <1>3
  <2>3. QED
    BY <1>3, <1>5, <2>1, <2>2, ShelvesByOne
<1>9. OneWriter' /\ LastEditionIsServed'
  <2>1. \A s \in Title : ~Between(w, s) /\ ~Between(w, s)'
    BY <1>3, <1>5, <1>6 DEF Between
  <2>2. QED
    BY <1>3, <1>5, <2>1, ServedStill
<1>10. TakenUp'
  <2>1. \A u \in Suggestion : ~Adopter(w, u) /\ ~Adopter(w, u)'
    BY <1>3, <1>5, <1>6 DEF Adopter
  <2>2. QED
    BY <1>3, <1>5, <2>1, TakenStill
<1>11. NumberedWithoutGap'
  BY <1>3 DEF LibraryIInv, NumberedWithoutGap
<1>12. QED
  BY <1>7, <1>8, <1>9, <1>10, <1>11 DEF LibraryIInv

\* A handler is done, or dies, and touches no script, revision or suggestion.
LEMMA ShelfFreed ==
    ASSUME LibraryIInv, NEW w \in Curator, Frees(w),
           UNCHANGED <<script, edition, suggestion, made>>,
           tangled' \in SUBSET Title, tangled \subseteq tangled',
           split' \in SUBSET Suggestion, split \subseteq split',
           \A s \in Title : Between(w, s) => s \in tangled',
           \A q \in Suggestion : Adopter(w, q) => q \in split'
    PROVE  LibraryIInv'
<1>1. LibraryTypeOK
  BY DEF LibraryIInv
<1>2. PICK x \in Handling \cup {NotBusy} : Put(w, x) /\ x = NotBusy
  BY DEF Frees, Put
<1>3. x.at = "free"
  BY <1>2 DEF NotBusy
<1>4. shelf' \in [Curator -> Handling \cup {NotBusy}] /\ shelf'[w] = x
  BY <1>1, <1>2, ShelfByOne
<1>5. LibraryTypeOK'
  BY <1>1, <1>4 DEF LibraryTypeOK
<1>6. ShelvesOK'
  <2>1. ShelfOK(w)'
    BY <1>3, <1>4 DEF ShelfOK
  <2>2. QED
    BY <1>2, <2>1, ShelvesByOne
<1>7. OneWriter' /\ LastEditionIsServed'
  <2>1. \A s \in Title : ~Between(w, s)'
    BY <1>2, <1>4 DEF Between
  <2>2. QED
    BY <1>2, <2>1, ServedStill
<1>8. TakenUp'
  <2>1. \A q \in Suggestion : ~Adopter(w, q)'
    BY <1>3, <1>4 DEF Adopter
  <2>2. QED
    BY <1>2, <2>1, TakenStill
<1>9. NumberedWithoutGap'
  BY DEF LibraryIInv, NumberedWithoutGap
<1>10. QED
  BY <1>5, <1>6, <1>7, <1>8, <1>9 DEF LibraryIInv

\* The last revision is looked up.
LEMMA LastRead ==
    ASSUME LibraryIInv, NEW w \in Curator, ReadLast(w)
    PROVE  LibraryIInv'
<1>1. LibraryTypeOK
  BY DEF LibraryIInv
<1>2. /\ shelf[w].at = "written" /\ UNCHANGED <<script, edition, suggestion, made, tangled, split>>
  BY DEF ReadLast
<1>3. ShelfOK(w)
  BY DEF LibraryIInv, ShelvesOK
<1>4. PICK s \in Title, t \in Body, status \in ScriptStatus, q \in Suggestion \cup {NoSuggestion},
           d \in {"none", "ACCEPTED", "MERGED", "REJECTED"} :
          /\ s = shelf[w].title /\ t = shelf[w].text /\ status = shelf[w].status
          /\ q = shelf[w].for /\ d = shelf[w].decision
  BY <1>1, <1>2, <1>3, ShelfShape DEF ShelfOK
<1>5. PICK last \in Versions(s) \cup {0} :
          /\ \A v \in Versions(s) : v <= last
          /\ Shelves(w, "numbered", s, [text |-> t, status |-> status], last, q, d)
  BY <1>4 DEF ReadLast
<1>6. last \in Nat
  BY <1>1, <1>5 DEF LibraryTypeOK, Versions, Revision
<1>7. PICK x \in Handling :
          /\ Put(w, x) /\ x # NotBusy
          /\ x.at = "numbered" /\ x.title = s /\ x.text = t /\ x.status = status
          /\ x.last = last /\ x.for = q /\ x.decision = d
  <2>1. /\ "numbered" \in {"judging", "written", "numbered", "deciding"}
        /\ s \in Title \cup {NoTitle} /\ t \in Body \cup {NoBody} /\ status \in ScriptStatus \cup {"none"}
    OBVIOUS
  <2>2. OnShelf(w, "numbered", s, t, status, last, q, d)
    BY <1>5, <1>6, <2>1, Shelved
  <2>3. QED
    BY <2>2 DEF OnShelf
<1>8. shelf' \in [Curator -> Handling \cup {NotBusy}] /\ shelf'[w] = x
  BY <1>1, <1>7, ShelfByOne
<1>9. LibraryTypeOK'
  BY <1>1, <1>2, <1>8 DEF LibraryTypeOK
<1>10. ShelvesOK'
  <2>1. Versions(s)' = Versions(s)
    BY <1>2 DEF Versions
  <2>2. ShelfOK(w)'
    BY <1>2, <1>3, <1>4, <1>5, <1>7, <1>8, <2>1 DEF ShelfOK
  <2>3. QED
    BY <1>2, <1>7, <2>2, ShelvesByOne
<1>11. OneWriter' /\ LastEditionIsServed'
  <2>1. shelf[w] # NotBusy
    BY <1>1, <1>2, ShelfShape
  <2>2. \A u \in Title : (Between(w, u) <=> u = s) /\ (Between(w, u)' <=> u = s)
    BY <1>2, <1>4, <1>7, <1>8, <2>1 DEF Between
  <2>3. QED
    BY <1>2, <1>4, <1>5, <1>7, <2>2, ServedStill
<1>12. TakenUp'
  <2>1. \A u \in Suggestion : Adopter(w, u)' <=> Adopter(w, u)
    BY <1>2, <1>4, <1>7, <1>8 DEF Adopter
  <2>2. QED
    BY <1>2, <1>4, <1>7, <2>1, TakenStill
<1>13. NumberedWithoutGap'
  BY <1>2 DEF LibraryIInv, NumberedWithoutGap
<1>14. QED
  BY <1>9, <1>10, <1>11, <1>12, <1>13 DEF LibraryIInv

\* A handler between the row and its revision holds what was written.
LEMMA WriterShape ==
    ASSUME LibraryIInv, NEW w \in Curator, shelf[w].at = "numbered"
    PROVE  /\ shelf[w] # NotBusy /\ shelf[w].title \in Title /\ shelf[w].text \in Body
           /\ shelf[w].status \in ScriptStatus /\ shelf[w].last \in Nat
           /\ shelf[w].last \in Versions(shelf[w].title) \cup {0}
           /\ shelf[w].for \in Suggestion \cup {NoSuggestion}
           /\ shelf[w].decision \in {"none", "ACCEPTED", "MERGED"}
           /\ shelf[w].for # NoSuggestion <=> shelf[w].decision # "none"
           /\ Between(w, shelf[w].title)
           /\ shelf[w].for \in Suggestion => suggestion[shelf[w].for].status # "none"
<1>1. LibraryTypeOK /\ ShelfOK(w)
  BY DEF LibraryIInv, ShelvesOK
<1>2. /\ shelf[w] # NotBusy /\ shelf[w].last \in Nat
      /\ shelf[w].for \in Suggestion \cup {NoSuggestion}
      /\ shelf[w].decision \in {"none", "ACCEPTED", "MERGED", "REJECTED"}
  BY <1>1, ShelfShape
<1>3. QED
  BY <1>1, <1>2 DEF ShelfOK, Between

\* The number was taken meanwhile: the request ends.
LEMMA NumberTaken ==
    ASSUME LibraryIInv, NEW w \in Curator, AddEdition(w),
           \E r \in edition : r.script = shelf[w].title /\ r.version = shelf[w].last + 1
    PROVE  LibraryIInv'
<1>1. /\ shelf[w].at = "numbered" /\ Frees(w) /\ split' = split \cup ({shelf[w].for} \ {NoSuggestion})
      /\ UNCHANGED <<script, edition, suggestion, made, tangled>>
  BY DEF AddEdition
<1>2. /\ tangled \in SUBSET Title /\ split \in SUBSET Suggestion
      /\ edition \in SUBSET Revision
  BY DEF LibraryIInv, LibraryTypeOK
<1>3. /\ shelf[w].for \in Suggestion \cup {NoSuggestion} /\ shelf[w].last \in Nat
      /\ shelf[w].title \in Title
  BY <1>1, WriterShape
<1>4. ASSUME NEW s \in Title, Between(w, s) PROVE s \in tangled
  <2>1. SUFFICES ASSUME s \notin tangled PROVE FALSE
    OBVIOUS
  <2>2. s = shelf[w].title /\ \A v \in Versions(s) : v <= shelf[w].last
    BY <1>1, <1>4, <2>1 DEF LibraryIInv, OneWriter, Between
  <2>3. shelf[w].last + 1 \in Versions(s)
    BY <2>2 DEF Versions
  <2>4. QED
    BY <1>3, <2>2, <2>3
<1>5. \A q \in Suggestion : Adopter(w, q) => q \in split'
  BY <1>1, LibraryAssumption DEF Adopter
<1>6. split' \in SUBSET Suggestion /\ split \subseteq split'
  BY <1>1, <1>2, <1>3
<1>7. /\ tangled' \in SUBSET Title /\ tangled \subseteq tangled'
      /\ \A s \in Title : Between(w, s) => s \in tangled'
  <2>1. tangled' = tangled
    BY <1>1
  <2>2. QED
    BY <1>2, <1>4, <2>1
<1>8. Frees(w) /\ UNCHANGED <<script, edition, suggestion, made>>
  BY <1>1
<1>9. QED
  BY <1>5, <1>6, <1>7, <1>8, ShelfFreed

\* The revision is added.
LEMMA EditionAdded ==
    ASSUME LibraryIInv, NEW w \in Curator, AddEdition(w),
           ~\E r \in edition : r.script = shelf[w].title /\ r.version = shelf[w].last + 1
    PROVE  LibraryIInv'
<1>1. LibraryTypeOK
  BY DEF LibraryIInv
<1>2. /\ shelf[w].at = "numbered"
      /\ UNCHANGED <<script, suggestion, made, tangled, split>>
  BY DEF AddEdition
<1>3. PICK s \in Title, t \in Body, status \in ScriptStatus, last \in Nat,
           q \in Suggestion \cup {NoSuggestion}, d \in {"none", "ACCEPTED", "MERGED"} :
          /\ s = shelf[w].title /\ t = shelf[w].text /\ status = shelf[w].status
          /\ last = shelf[w].last /\ q = shelf[w].for /\ d = shelf[w].decision
          /\ last \in Versions(s) \cup {0}
          /\ q # NoSuggestion <=> d # "none"
          /\ Between(w, s)
          /\ q \in Suggestion => suggestion[q].status # "none"
  BY <1>2, WriterShape
<1>4. PICK e : e = [script |-> s, version |-> last + 1, text |-> t, status |-> status]
  OBVIOUS
<1>5. /\ e \in Revision /\ e.script = s /\ e.version = last + 1 /\ e.text = t /\ e.status = status
      /\ edition' = edition \cup {e}
  BY <1>3, <1>4 DEF AddEdition, Revision
<1>6. PICK x \in Handling \cup {NotBusy} :
          /\ Put(w, x)
          /\ x.at \in {"free", "deciding"} /\ (x.at = "free" <=> q = NoSuggestion)
          /\ x.at = "deciding" => x.title = s /\ x.for = q /\ x.decision = d
  <2>1. CASE q = NoSuggestion
    <3>1. Frees(w)
      BY <1>3, <2>1 DEF AddEdition
    <3>2. NotBusy.at = "free"
      BY DEF NotBusy
    <3>3. QED
      BY <2>1, <3>1, <3>2 DEF Frees, Put
  <2>2. CASE q # NoSuggestion
    <3>1. PICK body \in Body \cup {NoBody}, was \in ScriptStatus \cup {"none"} :
              body = NoBody /\ was = "none"
      OBVIOUS
    <3>2. Shelves(w, "deciding", s, [text |-> body, status |-> was], 0, q, d)
      BY <1>3, <2>2, <3>1 DEF AddEdition, NoScript
    <3>3. /\ "deciding" \in {"judging", "written", "numbered", "deciding"} /\ 0 \in Nat
          /\ s \in Title \cup {NoTitle} /\ d \in {"none", "ACCEPTED", "MERGED", "REJECTED"}
      OBVIOUS
    <3>4. OnShelf(w, "deciding", s, body, was, 0, q, d)
      BY <3>2, <3>3, Shelved
    <3>5. QED
      BY <2>2, <3>4 DEF OnShelf
  <2>3. QED
    BY <2>1, <2>2
<1>7. /\ shelf' \in [Curator -> Handling \cup {NotBusy}] /\ shelf'[w] = x
      /\ \A o \in Curator \ {w} :
            /\ shelf'[o] = shelf[o] /\ \A u \in Title : Between(o, u)' <=> Between(o, u)
  BY <1>1, <1>6, ShelfByOne
<1>8. LibraryTypeOK'
  BY <1>1, <1>2, <1>5, <1>7 DEF LibraryTypeOK
<1>9. /\ \A u \in Title : ~Between(w, u)' /\ (Between(w, u) <=> u = s)
      /\ \A u \in Title \ {s} : Versions(u)' = Versions(u)
  BY <1>3, <1>5, <1>6, <1>7 DEF Between, Versions
<1>10. ShelvesOK'
  <2>1. ShelfOK(w)'
    <3>1. x.at = "deciding" => suggestion'[x.for].status # "none" /\ x.for \in Suggestion
      BY <1>2, <1>3, <1>6
    <3>2. QED
      BY <1>3, <1>6, <1>7, <3>1 DEF ShelfOK
  <2>2. \A u \in Suggestion : suggestion[u].status # "none" => suggestion'[u].status # "none"
    BY <1>2
  <2>3. edition \subseteq edition'
    BY <1>5
  <2>4. QED
    BY <1>6, <2>1, <2>2, <2>3, ShelvesByOne
<1>11. NumberedWithoutGap'
  <2>1. ASSUME NEW r \in edition', NEW v \in 1 .. r.version - 1
        PROVE  \E o \in edition' : o.script = r.script /\ o.version = v
    <3>1. CASE r \in edition
      BY <1>5, <2>1, <3>1 DEF LibraryIInv, NumberedWithoutGap
    <3>2. CASE r = e
      <4>1. v \in 1 .. last
        BY <1>5, <2>1, <3>2
      <4>2. PICK o \in edition : o.script = s /\ o.version = last
        BY <1>3, <4>1 DEF Versions
      <4>3. CASE v = last
        BY <1>5, <3>2, <4>2, <4>3
      <4>4. CASE v # last
        <5>1. v \in 1 .. o.version - 1
          BY <4>1, <4>2, <4>4
        <5>2. QED
          BY <1>5, <3>2, <4>2, <5>1 DEF LibraryIInv, NumberedWithoutGap
      <4>5. QED
        BY <4>3, <4>4
    <3>3. QED
      BY <1>5, <3>1, <3>2
  <2>2. ASSUME NEW r \in edition', NEW o \in edition', r.script = o.script, r.version = o.version
        PROVE  r = o
    BY <1>3, <1>5, <2>2 DEF LibraryIInv, NumberedWithoutGap
  <2>3. QED
    BY <2>1, <2>2 DEF NumberedWithoutGap
<1>12. ASSUME s \notin tangled
       PROVE  /\ t = script[s].text /\ status = script[s].status
              /\ \A v \in Versions(s) : v <= last
              /\ \A o \in Curator : Between(o, s) => o = w
  BY <1>2, <1>3, <1>12 DEF LibraryIInv, OneWriter
<1>13. OneWriter'
  <2>1. SUFFICES ASSUME NEW u \in Title \ tangled, NEW o \in Curator, Between(o, u)'
                 PROVE  /\ script[u] # NoScript
                        /\ shelf'[o].text = script[u].text /\ shelf'[o].status = script[u].status
                        /\ shelf'[o].at = "numbered" => \A v \in Versions(u)' : v <= shelf'[o].last
                        /\ \A p \in Curator : Between(p, u)' => p = o
    BY <1>2 DEF OneWriter
  <2>2. o # w /\ Between(o, u)
    BY <1>7, <1>9, <2>1
  <2>3. u # s
    BY <1>12, <2>1, <2>2
  <2>4. /\ script[u] # NoScript
        /\ shelf[o].text = script[u].text /\ shelf[o].status = script[u].status
        /\ shelf[o].at = "numbered" => \A v \in Versions(u) : v <= shelf[o].last
        /\ \A p \in Curator : Between(p, u) => p = o
    BY <2>1, <2>2 DEF LibraryIInv, OneWriter
  <2>5. QED
    BY <1>7, <1>9, <2>2, <2>3, <2>4
<1>14. LastEditionIsServed'
  <2>1. SUFFICES ASSUME NEW u \in Title \ tangled, script[u] # NoScript,
                        \A o \in Curator : ~Between(o, u)'
                 PROVE  \E r \in edition' :
                          /\ r.script = u
                          /\ \A o \in edition' : o.script = u => o.version <= r.version
                          /\ r.text = script[u].text /\ r.status = script[u].status
    BY <1>2 DEF LastEditionIsServed
  <2>2. CASE u = s
    <3>1. \A o \in edition : o.script = s => o.version <= last /\ o.version \in Nat
      BY <1>1, <1>12, <2>1, <2>2 DEF Versions, LibraryTypeOK, Revision
    <3>2. \A o \in edition' : o.script = s => o.version <= e.version
      BY <1>5, <3>1
    <3>3. QED
      BY <1>5, <1>12, <2>1, <2>2, <3>2
  <2>3. CASE u # s
    <3>1. \A o \in Curator : ~Between(o, u)
      BY <1>7, <1>9, <2>1, <2>3
    <3>2. PICK r \in edition :
              /\ r.script = u
              /\ \A o \in edition : o.script = u => o.version <= r.version
              /\ r.text = script[u].text /\ r.status = script[u].status
      BY <2>1, <3>1 DEF LibraryIInv, LastEditionIsServed
    <3>3. QED
      BY <1>5, <2>3, <3>2
  <2>4. QED
    BY <2>2, <2>3
<1>15. TakenUp'
  <2>1. \A u \in Suggestion : (Adopter(w, u)' <=> u = q) /\ (Adopter(w, u) <=> u = q)
    BY <1>2, <1>3, <1>6, <1>7, LibraryAssumption DEF Adopter
  <2>2. \A u \in Suggestion : Adopter(w, u)' => x.title = shelf[w].title
    BY <1>3, <1>6, <2>1, LibraryAssumption
  <2>3. QED
    BY <1>2, <1>6, <2>1, <2>2, TakenStill
<1>16. QED
  BY <1>8, <1>10, <1>11, <1>13, <1>14, <1>15 DEF LibraryIInv

\* A suggestion is taken up: a script is made of it, or changed.
LEMMA Adopted ==
    ASSUME LibraryIInv, NEW w \in Curator, Adopt(w)
    PROVE  LibraryIInv'
<1>1. LibraryTypeOK
  BY DEF LibraryIInv
<1>2. shelf[w].at = "judging" /\ UNCHANGED <<edition, suggestion, split>>
  BY DEF Adopt
<1>3. PICK q \in Suggestion, d \in {"ACCEPTED", "MERGED"} : q = shelf[w].for /\ d = shelf[w].decision
  <2>1. ShelfOK(w)
    BY DEF LibraryIInv, ShelvesOK
  <2>2. shelf[w].decision \in {"none", "ACCEPTED", "MERGED", "REJECTED"}
    BY <1>1, <1>2, ShelfShape
  <2>3. QED
    BY <1>2, <2>1, <2>2 DEF ShelfOK
<1>4. PICK s \in Title, t \in Body :
          \/ Frees(w) /\ UNCHANGED <<script, made, tangled>>
          \/ /\ Writes(w, s, [text |-> t, status |-> "DRAFT"], q, d)
             /\ made' = [made EXCEPT ![q] = made[q] \cup {s}]
  BY <1>3 DEF Adopt
<1>5. CASE Frees(w) /\ UNCHANGED <<script, made, tangled>>
  <2>1. /\ \A u \in Title : ~Between(w, u)
        /\ \A u \in Suggestion : ~Adopter(w, u)
    BY <1>2 DEF Between, Adopter
  <2>2. tangled' \in SUBSET Title /\ split' \in SUBSET Suggestion
    BY <1>1, <1>2, <1>5 DEF LibraryTypeOK
  <2>3. QED
    BY <1>2, <1>5, <2>1, <2>2, ShelfFreed
<1>6. CASE /\ Writes(w, s, [text |-> t, status |-> "DRAFT"], q, d)
           /\ made' = [made EXCEPT ![q] = made[q] \cup {s}]
  <2>1. PICK status \in ScriptStatus : status = "DRAFT"
    BY DEF ScriptStatus
  <2>2. Writes(w, s, [text |-> t, status |-> status], q, d)
    BY <1>6, <2>1
  <2>3. /\ q \in Suggestion \cup {NoSuggestion} /\ d \in {"none", "ACCEPTED", "MERGED"}
        /\ q # NoSuggestion <=> d # "none"
        /\ shelf[w].at \in {"free", "judging"} /\ UNCHANGED <<edition, suggestion>>
        /\ q \in Suggestion => suggestion[q].status # "none"
    BY <1>2, <1>3, LibraryAssumption DEF LibraryIInv, ShelvesOK, ShelfOK
  <2>4. PICK x \in Handling :
            /\ Put(w, x) /\ x # NotBusy
            /\ x.at = "written" /\ x.title = s /\ x.for = q /\ x.decision = d
    BY <2>2, <2>3, RowWritten
  <2>5. /\ script' \in [Title -> Script \cup {NoScript}] /\ tangled' \in SUBSET Title
        /\ ShelvesOK' /\ OneWriter' /\ LastEditionIsServed'
    BY <2>2, <2>3, RowWritten
  <2>6. /\ shelf' \in [Curator -> Handling \cup {NotBusy}] /\ shelf'[w] = x
        /\ \A o \in Curator \ {w} :
              /\ shelf'[o] = shelf[o] /\ \A u \in Suggestion : Adopter(o, u)' <=> Adopter(o, u)
    BY <1>1, <2>4, ShelfByOne
  <2>7. /\ made' \in [Suggestion -> SUBSET Title] /\ made'[q] = made[q] \cup {s}
        /\ \A u \in Suggestion \ {q} : made'[u] = made[u]
    BY <1>1, <1>6 DEF LibraryTypeOK
  <2>8. LibraryTypeOK'
    BY <1>1, <1>2, <2>5, <2>6, <2>7 DEF LibraryTypeOK
  <2>9. \A u \in Suggestion : ~Adopter(w, u) /\ (Adopter(w, u)' <=> u = q)
    BY <1>2, <2>4, <2>6 DEF Adopter
  <2>10. TakenUp'
    <3>1. SUFFICES ASSUME NEW u \in Suggestion \ split PROVE Taken(u)'
      BY <1>2 DEF TakenUp
    <3>2. Taken(u)
      BY DEF LibraryIInv, TakenUp
    <3>3. CASE u # q
      <4>1. \A o \in Curator : Adopter(o, u)' <=> Adopter(o, u)
        BY <2>6, <2>9, <3>3
      <4>2. \A o \in Curator : Adopter(o, u) => shelf'[o].title = shelf[o].title
        BY <2>6, <2>9
      <4>3. QED
        BY <1>2, <2>7, <3>2, <3>3, <4>1, <4>2 DEF Taken
    <3>4. CASE u = q
      <4>1. Adopter(w, u)'
        BY <2>9, <3>4
      <4>2. ASSUME suggestion[u].status \in {"none", "SUGGESTED"},
                   \A o \in Curator : Adopter(o, u)' => o = w
            PROVE  made'[u] = {s}
        <5>1. \A o \in Curator : ~Adopter(o, u)
          BY <2>6, <2>9, <4>2
        <5>2. made[u] = {}
          BY <3>2, <4>2, <5>1 DEF Taken
        <5>3. QED
          BY <2>7, <3>4, <5>2
      <4>3. QED
        BY <1>2, <2>4, <2>6, <4>1, <4>2 DEF Taken
    <3>5. QED
      BY <3>3, <3>4
  <2>11. NumberedWithoutGap'
    BY <1>2 DEF LibraryIInv, NumberedWithoutGap
  <2>12. QED
    BY <2>5, <2>8, <2>10, <2>11 DEF LibraryIInv
<1>7. QED
  BY <1>4, <1>5, <1>6

\* The decision is written.
LEMMA DecisionWritten ==
    ASSUME LibraryIInv, NEW w \in Curator, WriteDecision(w)
    PROVE  LibraryIInv'
<1>1. LibraryTypeOK
  BY DEF LibraryIInv
<1>2. /\ shelf[w].at = "deciding" /\ Frees(w) /\ UNCHANGED <<script, edition, made, tangled>>
  BY DEF WriteDecision
<1>3. PICK q \in Suggestion, d \in {"ACCEPTED", "MERGED", "REJECTED"} :
          q = shelf[w].for /\ d = shelf[w].decision
  <2>1. ShelfOK(w)
    BY DEF LibraryIInv, ShelvesOK
  <2>2. shelf[w].decision \in {"none", "ACCEPTED", "MERGED", "REJECTED"}
    BY <1>1, <1>2, ShelfShape
  <2>3. QED
    BY <1>2, <2>1, <2>2 DEF ShelfOK
<1>4. /\ suggestion' = [suggestion EXCEPT ![q] =
             [status |-> d, about |-> suggestion[q].about, text |-> suggestion[q].text]]
      /\ split' = IF suggestion[q].status = "SUGGESTED" THEN split ELSE split \cup {q}
  BY <1>3 DEF WriteDecision
<1>5. PICK x \in Handling \cup {NotBusy} : Put(w, x) /\ x = NotBusy
  BY <1>2 DEF Frees, Put
<1>6. x.at = "free"
  BY <1>5 DEF NotBusy
<1>7. /\ shelf' \in [Curator -> Handling \cup {NotBusy}] /\ shelf'[w] = x
      /\ \A o \in Curator \ {w} :
            /\ shelf'[o] = shelf[o] /\ \A u \in Suggestion : Adopter(o, u)' <=> Adopter(o, u)
  BY <1>1, <1>5, ShelfByOne
<1>8. /\ suggestion' \in [Suggestion -> Suggested \cup {Unsaid}] /\ suggestion'[q].status = d
      /\ \A u \in Suggestion \ {q} : suggestion'[u] = suggestion[u]
  <2>1. suggestion[q] \in Suggested \cup {Unsaid} /\ suggestion[q].status # "none"
    BY <1>1, <1>2, <1>3 DEF LibraryTypeOK, LibraryIInv, ShelvesOK, ShelfOK
  <2>2. suggestion[q].about \in Title \cup {NoTitle} /\ suggestion[q].text \in Body
    BY <2>1 DEF Suggested, Unsaid
  <2>3. [status |-> d, about |-> suggestion[q].about, text |-> suggestion[q].text] \in Suggested
    BY <2>2 DEF Suggested
  <2>4. QED
    BY <1>1, <1>4, <2>3 DEF LibraryTypeOK
<1>9. ShelvesOK'
  <2>1. ShelfOK(w)'
    BY <1>6, <1>7 DEF ShelfOK
  <2>2. QED
    BY <1>2, <1>5, <1>8, <2>1, ShelvesByOne
<1>10. OneWriter' /\ LastEditionIsServed'
  <2>1. \A s \in Title : ~Between(w, s)' /\ ~Between(w, s)
    BY <1>2, <1>5, <1>7 DEF Between
  <2>2. QED
    BY <1>2, <1>5, <2>1, ServedStill
<1>11. LibraryTypeOK'
  BY <1>1, <1>2, <1>4, <1>7, <1>8 DEF LibraryTypeOK
<1>12. \A u \in Suggestion : ~Adopter(w, u)' /\ (Adopter(w, u) <=> u = q /\ d # "REJECTED")
  BY <1>2, <1>3, <1>6, <1>7 DEF Adopter
<1>13. TakenUp'
  <2>1. SUFFICES ASSUME NEW u \in Suggestion \ split' PROVE Taken(u)'
    BY DEF TakenUp
  <2>2. u \notin split /\ (u = q => suggestion[q].status = "SUGGESTED")
    BY <1>4, <2>1
  <2>3. Taken(u)
    BY <2>2 DEF LibraryIInv, TakenUp
  <2>4. CASE u # q
    <3>1. \A o \in Curator : Adopter(o, u)' <=> Adopter(o, u)
      BY <1>7, <1>12, <2>4
    <3>2. \A o \in Curator : Adopter(o, u) => shelf'[o].title = shelf[o].title
      BY <1>7, <1>12, <2>4
    <3>3. QED
      BY <1>2, <1>8, <2>3, <2>4, <3>1, <3>2 DEF Taken
  <2>5. CASE u = q
    <3>1. ASSUME \A o \in Curator : ~Adopter(o, u)'
          PROVE  IF d \in {"ACCEPTED", "MERGED"} THEN \E s \in Title : made[u] = {s} ELSE made[u] = {}
      <4>1. \A o \in Curator \ {w} : ~Adopter(o, u)
        BY <1>7, <3>1
      <4>2. CASE d = "REJECTED"
        <5>1. \A o \in Curator : ~Adopter(o, u)
          BY <1>12, <4>1, <4>2
        <5>2. QED
          BY <2>2, <2>3, <2>5, <4>2, <5>1 DEF Taken
      <4>3. CASE d # "REJECTED"
        <5>1. Adopter(w, u) /\ \A o \in Curator : Adopter(o, u) => o = w
          BY <1>12, <2>5, <4>1, <4>3
        <5>2. made[u] = {shelf[w].title}
          BY <2>2, <2>3, <2>5, <5>1 DEF Taken
        <5>3. shelf[w].title \in Title
          BY <1>2, <1>3, <4>3 DEF LibraryIInv, ShelvesOK, ShelfOK
        <5>4. QED
          BY <4>3, <5>2, <5>3
      <4>4. QED
        BY <4>2, <4>3
    <3>2. QED
      BY <1>2, <1>8, <2>5, <3>1 DEF Taken
  <2>6. QED
    BY <2>4, <2>5
<1>14. NumberedWithoutGap'
  BY <1>2 DEF LibraryIInv, NumberedWithoutGap
<1>15. QED
  BY <1>9, <1>10, <1>11, <1>13, <1>14 DEF LibraryIInv

\* A suggestion is made.
LEMMA SuggestionMade ==
    ASSUME LibraryIInv, NEW q \in Suggestion, Suggest(q)
    PROVE  LibraryIInv'
<1>1. PICK about \in Title \cup {NoTitle}, t \in Body :
          suggestion' = [suggestion EXCEPT ![q] = [status |-> "SUGGESTED", about |-> about, text |-> t]]
  BY DEF Suggest
<1>2. suggestion[q] = Unsaid /\ UNCHANGED <<script, edition, made, shelf, tangled, split>>
  BY DEF Suggest
<1>3. [status |-> "SUGGESTED", about |-> about, text |-> t] \in Suggested
  BY DEF Suggested
<1>4. /\ suggestion' \in [Suggestion -> Suggested \cup {Unsaid}]
      /\ suggestion[q].status = "none" /\ suggestion'[q].status = "SUGGESTED"
      /\ \A u \in Suggestion \ {q} : suggestion'[u] = suggestion[u]
  BY <1>1, <1>2, <1>3 DEF LibraryIInv, LibraryTypeOK, Unsaid
<1>5. LibraryTypeOK'
  BY <1>2, <1>4 DEF LibraryIInv, LibraryTypeOK
<1>6. ShelvesOK'
  <2>1. \A s : Versions(s)' = Versions(s)
    BY <1>2 DEF Versions
  <2>2. QED
    BY <1>2, <1>4, <2>1 DEF LibraryIInv, ShelvesOK, ShelfOK
<1>7. NumberedWithoutGap' /\ OneWriter' /\ LastEditionIsServed'
  BY <1>2 DEF LibraryIInv, NumberedWithoutGap, OneWriter, LastEditionIsServed, Between, Versions
<1>8. TakenUp'
  <2>1. SUFFICES ASSUME NEW u \in Suggestion \ split PROVE Taken(u)'
    BY <1>2 DEF TakenUp
  <2>2. Taken(u)
    BY DEF LibraryIInv, TakenUp
  <2>3. \A o \in Curator : Adopter(o, u)' <=> Adopter(o, u)
    BY <1>2 DEF Adopter
  <2>4. QED
    BY <1>2, <1>4, <2>2, <2>3 DEF Taken
<1>9. QED
  BY <1>5, <1>6, <1>7, <1>8 DEF LibraryIInv

\* A handler dies between its writes.
LEMMA CuratorGone ==
    ASSUME LibraryIInv, NEW w \in Curator, CuratorDies(w)
    PROVE  LibraryIInv'
<1>1. LibraryTypeOK /\ ShelfOK(w)
  BY DEF LibraryIInv, ShelvesOK
<1>2. /\ shelf[w].at \in {"written", "numbered", "deciding"} /\ Frees(w)
      /\ UNCHANGED <<script, edition, suggestion, made>>
      /\ tangled' = IF shelf[w].at = "deciding" THEN tangled ELSE tangled \cup {shelf[w].title}
      /\ split' = IF shelf[w].decision = "REJECTED" THEN split
                  ELSE split \cup ({shelf[w].for} \ {NoSuggestion})
  BY DEF CuratorDies
<1>3. /\ shelf[w].for \in Suggestion \cup {NoSuggestion}
      /\ shelf[w].at # "deciding" => shelf[w].title \in Title
  BY <1>1, <1>2, ShelfShape DEF ShelfOK
<1>4. tangled' \in SUBSET Title /\ tangled \subseteq tangled'
  BY <1>1, <1>2, <1>3 DEF LibraryTypeOK
<1>5. split' \in SUBSET Suggestion /\ split \subseteq split'
  BY <1>1, <1>2, <1>3 DEF LibraryTypeOK
<1>6. \A s \in Title : Between(w, s) => s \in tangled'
  BY <1>2 DEF Between
<1>7. \A q \in Suggestion : Adopter(w, q) => q \in split'
  BY <1>2, LibraryAssumption DEF Adopter
<1>8. QED
  BY <1>2, <1>4, <1>5, <1>6, <1>7, ShelfFreed

\* The library is empty at first.
LEMMA LibraryStarts == LibraryInit => LibraryIInv
<1> SUFFICES ASSUME LibraryInit PROVE LibraryIInv
  OBVIOUS
<1>1. LibraryTypeOK
  BY DEF LibraryInit, LibraryTypeOK
<1>2. \A w \in Curator : shelf[w] = NotBusy /\ shelf[w].at = "free"
  BY DEF LibraryInit, NotBusy
<1>3. ShelvesOK
  BY <1>2 DEF ShelvesOK, ShelfOK
<1>4. NumberedWithoutGap
  BY DEF LibraryInit, NumberedWithoutGap
<1>5. OneWriter
  BY <1>2 DEF OneWriter, Between
<1>6. LastEditionIsServed
  BY DEF LibraryInit, LastEditionIsServed
<1>7. TakenUp
  <2>1. \A q \in Suggestion : suggestion[q].status = "none" /\ made[q] = {}
    BY DEF LibraryInit, Unsaid
  <2>2. \A w \in Curator, q \in Suggestion : ~Adopter(w, q)
    BY <1>2 DEF Adopter
  <2>3. QED
    BY <2>1, <2>2 DEF TakenUp, Taken
<1>8. QED
  BY <1>1, <1>3, <1>4, <1>5, <1>6, <1>7 DEF LibraryIInv

\* One step for each handler.
LEMMA LibrarySteps == LibraryIInv /\ [LibraryNext]_libraryVars => LibraryIInv'
<1> SUFFICES ASSUME LibraryIInv, [LibraryNext]_libraryVars PROVE LibraryIInv'
  OBVIOUS
<1>1. CASE UNCHANGED libraryVars
  <2>1. UNCHANGED <<script, edition, suggestion, made, shelf, tangled, split>>
    BY <1>1 DEF libraryVars
  <2>2. LibraryTypeOK' /\ ShelvesOK'
    BY <2>1 DEF LibraryIInv, LibraryTypeOK, ShelvesOK, ShelfOK, Versions
  <2>3. NumberedWithoutGap' /\ OneWriter' /\ LastEditionIsServed'
    BY <2>1 DEF LibraryIInv, NumberedWithoutGap, OneWriter, LastEditionIsServed, Between, Versions
  <2>4. TakenUp'
    BY <2>1 DEF LibraryIInv, TakenUp, Taken, Adopter
  <2>5. QED
    BY <2>2, <2>3, <2>4 DEF LibraryIInv
<1>2. ASSUME NEW w \in Curator, CreateScript(w) \/ UpdateScript(w) \/ RestoreEdition(w)
      PROVE  LibraryIInv'
  BY <1>2, ScriptHandled
<1>3. ASSUME NEW w \in Curator, Judge(w) PROVE LibraryIInv'
  BY <1>3, JudgeBegins
<1>4. ASSUME NEW w \in Curator, Adopt(w) PROVE LibraryIInv'
  BY <1>4, Adopted
<1>5. ASSUME NEW w \in Curator, WriteDecision(w) PROVE LibraryIInv'
  BY <1>5, DecisionWritten
<1>6. ASSUME NEW w \in Curator, ReadLast(w) PROVE LibraryIInv'
  BY <1>6, LastRead
<1>7. ASSUME NEW w \in Curator, AddEdition(w) PROVE LibraryIInv'
  BY <1>7, NumberTaken, EditionAdded
<1>8. ASSUME NEW w \in Curator, CuratorDies(w) PROVE LibraryIInv'
  BY <1>8, CuratorGone
<1>9. ASSUME NEW q \in Suggestion, Suggest(q) PROVE LibraryIInv'
  BY <1>9, SuggestionMade
<1>10. QED
  BY <1>1, <1>2, <1>3, <1>4, <1>5, <1>6, <1>7, <1>8, <1>9 DEF LibraryNext

\* The inductive invariant of the script library holds in every state.
THEOREM LibraryInvariance == LibrarySpec => []LibraryIInv
  BY LibraryStarts, LibrarySteps, PTL DEF LibrarySpec

\* The scripts' history has no gap, its last revision is what is served, and a
\* suggestion is taken up once.
THEOREM LibraryStandsWhole == LibrarySpec => []LibraryIsWhole
<1>1. LibraryIInv => LibraryIsWhole
  <2> SUFFICES ASSUME LibraryIInv PROVE LibraryIsWhole
    OBVIOUS
  <2>1. SuggestionsAnswered
    <3>1. SUFFICES ASSUME NEW q \in Suggestion \ split,
                          \A w \in Curator : shelf[w] # NotBusy => shelf[w].for # q
                   PROVE  /\ suggestion[q].status \in {"ACCEPTED", "MERGED"} <=> made[q] # {}
                          /\ \A s \in made[q] : made[q] = {s}
      BY DEF SuggestionsAnswered
    <3>2. \A w \in Curator : ~Adopter(w, q)
      BY <3>1, ShelfShape DEF LibraryIInv, Adopter
    <3>3. QED
      BY <3>1, <3>2 DEF LibraryIInv, TakenUp, Taken
  <2>2. QED
    BY <2>1 DEF LibraryIInv, LibraryIsWhole
<1>2. QED
  BY <1>1, LibraryInvariance, PTL
=============================================================================
