--------------------------- MODULE SupportProofs ----------------------------
(***************************************************************************)
(* Theorems about the support team's records: the KPI entries, the         *)
(* campaigns that rank them, the flow of a case and its planned revisions. *)
(* The four share no state: each has an inductive invariant, the lemmas    *)
(* that its actions preserve it, and the theorems of its specification.    *)
(***************************************************************************)
EXTENDS KpiEntries, SupportCampaign, CaseFlow, CasePlan, TLAPS

-----------------------------------------------------------------------------
(* KPI entries.                                                            *)

\* What review has left: such an entry returns to no earlier status.
Final == {"APPROVED", "REJECTED", "SUPERSEDED"}

\* The shape of the table, field by field.
ShapeOK ==
    /\ entry \in [Entry -> KpiRow \cup {NoRow}]
    /\ request \in [Caller -> KpiRequest \cup {NoRequest}]
    /\ \A e \in Rows : entry[e].supersedes # NoEntry => entry[e].supersedes \in Rows
    /\ stale \subseteq Rows

\* A row entered by hand is known by its observation, whatever follows it.
KeysOK ==
    \A e \in Rows : ByHand(e) => entry[e].content.key = entry[e].content.observation

\* The unique keys of the table hold.
OneKey ==
    \A e, f \in Rows :
        e # f => /\ entry[e].content.key # NoKey => entry[f].content.key # entry[e].content.key
                 /\ entry[e].content.reference # NoReference =>
                        entry[f].content.reference # entry[e].content.reference

\* What is corrected was reviewed before.
CorrectsReviewed ==
    \A e \in Rows :
        entry[e].supersedes \in Rows \ stale => entry[entry[e].supersedes].status \in Final

\* What a call is about to write was computed as the code does, from an entry that
\* is there.
KpiRequestOK(c) ==
    /\ request[c].at = "creating" =>
            (request[c].content.reference = NoReference =>
                request[c].content.key = request[c].content.observation)
    /\ request[c].at = "revising" =>
            /\ request[c].of \in Rows
            /\ request[c].of \in stale \/ entry[request[c].of].status \in Final
            /\ request[c].content.key = NoKey
            /\ request[c].content.reference = NoReference
    /\ request[c].at = "editing" =>
            /\ request[c].of \in Rows
            /\ request[c].read = "DRAFT"
            /\ (~request[c].archive /\ request[c].content.reference = NoReference =>
                    request[c].content.key = request[c].content.observation)
    /\ request[c].at = "submitting" => request[c].of \in Rows

\* All of them do.
KpiRequestsOK == \A c \in Caller : KpiRequestOK(c)

\* The inductive invariant of the KPI entries.
KpiIInv == ShapeOK /\ KeysOK /\ OneKey /\ CorrectsReviewed /\ RevisionGivesWay /\ KpiRequestsOK

\* The rows that exist have the fields of a row.
LEMMA RowShape ==
    ASSUME ShapeOK, NEW e \in Rows
    PROVE  /\ e \in Entry
           /\ entry[e] \in KpiRow
           /\ entry[e].content \in KpiContent
           /\ entry[e].supersedes \in Rows \cup {NoEntry}
  BY DEF ShapeOK, Rows, KpiRow

\* A call under way has the fields of its kind.
LEMMA RequestShape ==
    ASSUME ShapeOK, NEW c \in Caller
    PROVE  /\ request[c].at = "creating" => request[c].content \in KpiContent
           /\ request[c].at = "revising" =>
                    request[c].of \in Entry /\ request[c].content \in KpiContent
           /\ request[c].at = "editing" =>
                    /\ request[c].of \in Entry /\ request[c].content \in KpiContent
                    /\ request[c].archive \in BOOLEAN
           /\ request[c].at = "submitting" => request[c].of \in Entry
  BY DEF ShapeOK, KpiRequest, NoRequest

\* The initial state satisfies the invariant.
LEMMA KpiInitIInv == KpiInit => KpiIInv
  BY DEF KpiInit, KpiIInv, ShapeOK, KeysOK, OneKey, CorrectsReviewed, RevisionGivesWay, KpiRequestsOK,
         KpiRequestOK, Rows, NoRow, NoRequest

-----------------------------------------------------------------------------
\* What a write of one row does.
LEMMA PutRow ==
    ASSUME ShapeOK, NEW e \in Entry, NEW row \in KpiRow, Put(e, row)
    PROVE  /\ entry' \in [Entry -> KpiRow \cup {NoRow}]
           /\ Rows' = Rows \cup {e}
           /\ entry'[e] = row
           /\ \A x \in Entry : x # e => entry'[x] = entry[x]
<1>1. entry' \in [Entry -> KpiRow \cup {NoRow}]
  BY DEF ShapeOK, Put
<1>2. entry'[e] = row /\ \A x \in Entry : x # e => entry'[x] = entry[x]
  BY DEF ShapeOK, Put
<1>3. row # NoRow
  BY DEF KpiRow, NoRow, KpiStatus
<1>4. QED
  BY <1>1, <1>2, <1>3 DEF Rows

\* The calls that remain are as they were when one is answered.
LEMMA AnsweredCalls ==
    ASSUME ShapeOK, NEW c \in Caller, Answered(c)
    PROVE  /\ request' \in [Caller -> KpiRequest \cup {NoRequest}]
           /\ request'[c] = NoRequest
           /\ \A d \in Caller : d # c => request'[d] = request[d]
  BY DEF ShapeOK, Answered

\* A call that begins reads only: the invariant asks of it what it computed.
LEMMA AskIInv ==
    ASSUME KpiIInv, NEW c \in Caller, NEW r \in KpiRequest, Asks(c, r),
           UNCHANGED <<entry, stale>>, KpiRequestOK(c)'
    PROVE  KpiIInv'
<1>1. /\ request' \in [Caller -> KpiRequest \cup {NoRequest}]
      /\ \A d \in Caller : d # c => request'[d] = request[d]
  BY DEF KpiIInv, ShapeOK, Asks
<1>2. Rows' = Rows
  BY DEF Rows
<1>3. ShapeOK' /\ KeysOK' /\ OneKey' /\ CorrectsReviewed' /\ RevisionGivesWay'
  BY <1>1, <1>2
  DEF KpiIInv, ShapeOK, KeysOK, OneKey, CorrectsReviewed, RevisionGivesWay, ByHand, Live
<1>4. KpiRequestsOK'
  <2>1. \A d \in Caller : d # c => KpiRequestOK(d)'
    BY <1>1, <1>2 DEF KpiIInv, KpiRequestsOK, KpiRequestOK
  <2>2. QED
    BY <2>1 DEF KpiRequestsOK
<1>5. QED
  BY <1>3, <1>4 DEF KpiIInv

\* The calls under way are not disturbed by an answer to another, as long as rows
\* stay, and what was reviewed stays so or is called stale.
LEMMA OtherCalls ==
    ASSUME KpiIInv, NEW c \in Caller, Answered(c),
           Rows \subseteq Rows', stale \subseteq stale',
           \A x \in Rows : entry[x].status \in Final => x \in stale' \/ entry'[x].status \in Final
    PROVE  KpiRequestsOK'
<1>1. /\ request'[c] = NoRequest
      /\ \A d \in Caller : d # c => request'[d] = request[d]
  BY AnsweredCalls DEF KpiIInv
<1>2. KpiRequestOK(c)'
  BY <1>1 DEF KpiRequestOK, NoRequest
<1>3. ASSUME NEW d \in Caller, d # c PROVE KpiRequestOK(d)'
  <2>1. KpiRequestOK(d) /\ request'[d] = request[d]
    BY <1>1, <1>3 DEF KpiIInv, KpiRequestsOK
  <2>2. QED
    BY <2>1 DEF KpiRequestOK
<1>4. QED
  BY <1>2, <1>3 DEF KpiRequestsOK

\* A new row that corrects nothing or what was reviewed, with keys nobody has.
LEMMA NewRow ==
    ASSUME KpiIInv, NEW c \in Caller, Answered(c), UNCHANGED stale,
           NEW e \in Entry \ Rows, NEW k \in KpiContent, NEW s \in Rows \cup {NoEntry},
           Put(e, [status |-> "DRAFT", archived |-> FALSE, content |-> k, supersedes |-> s]),
           s = NoEntry /\ k.reference = NoReference => k.key = k.observation,
           Unclaimed(k, {}),
           s \in Rows => s \in stale \/ entry[s].status \in Final
    PROVE  KpiIInv'
<1> DEFINE row == [status |-> "DRAFT", archived |-> FALSE, content |-> k, supersedes |-> s]
<1>1. row \in KpiRow
  BY DEF KpiRow, KpiStatus, Rows
<1>2. /\ entry' \in [Entry -> KpiRow \cup {NoRow}]
      /\ Rows' = Rows \cup {e}
      /\ entry'[e] = row
      /\ \A x \in Entry : x # e => entry'[x] = entry[x]
  BY <1>1, PutRow DEF KpiIInv
<1>3. /\ row.status = "DRAFT" /\ row.archived = FALSE
      /\ row.content = k /\ row.supersedes = s
  OBVIOUS
<1>4. \A x \in Rows : x # e /\ x \in Entry /\ entry'[x] = entry[x]
  BY <1>2 DEF Rows
<1> HIDE DEF row
<1>5. ShapeOK'
  <2>1. request' \in [Caller -> KpiRequest \cup {NoRequest}]
    BY AnsweredCalls DEF KpiIInv
  <2>2. \A x \in Rows : entry[x].supersedes \in Rows \cup {NoEntry}
    BY RowShape DEF KpiIInv
  <2>3. QED
    BY <1>2, <1>3, <1>4, <2>1, <2>2 DEF KpiIInv, ShapeOK
<1>6. KeysOK'
  BY <1>2, <1>3, <1>4 DEF KpiIInv, KeysOK, ByHand, Live
<1>7. OneKey'
  <2>1. ASSUME NEW x \in Rows
        PROVE  /\ k.key # NoKey => entry[x].content.key # k.key
               /\ k.reference # NoReference => entry[x].content.reference # k.reference
    BY <2>1 DEF Unclaimed
  <2>2. QED
    BY <1>2, <1>3, <1>4, <2>1 DEF KpiIInv, OneKey
<1>8. CorrectsReviewed' /\ RevisionGivesWay'
  <2>1. \A x \in Rows : entry[x].supersedes \in Rows \cup {NoEntry}
    BY RowShape DEF KpiIInv
  <2>2. s # e
    BY KpiAssumption
  <2>3. e \notin Rows /\ NoEntry \notin Entry
    BY KpiAssumption
  <2>4. CorrectsReviewed'
    BY <1>2, <1>3, <1>4, <2>1, <2>2, <2>3 DEF KpiIInv, CorrectsReviewed
  <2>5. RevisionGivesWay'
    BY <1>2, <1>3, <1>4, <2>1, <2>2, <2>3 DEF KpiIInv, RevisionGivesWay
  <2>6. QED
    BY <2>4, <2>5
<1>9. KpiRequestsOK'
  BY <1>2, <1>4, OtherCalls
<1>10. QED
  BY <1>5, <1>6, <1>7, <1>8, <1>9 DEF KpiIInv

\* A row written over, its link to what it corrects left alone, and its status too
\* unless the write is stale or submits a draft.
LEMMA WrittenRow ==
    ASSUME KpiIInv, NEW c \in Caller, Answered(c),
           NEW e \in Rows, NEW row \in KpiRow, Put(e, row),
           row.supersedes = entry[e].supersedes,
           row.supersedes = NoEntry /\ ~row.archived /\ row.content.reference = NoReference
                => row.content.key = row.content.observation,
           Unclaimed(row.content, {e}),
           stale' \in {stale, stale \cup {e}},
           row.status # "APPROVED" \/ entry[e].status = "APPROVED",
           entry[e].status \in Final => e \in stale' \/ row.status = entry[e].status
    PROVE  KpiIInv'
<1>1. /\ entry' \in [Entry -> KpiRow \cup {NoRow}]
      /\ Rows' = Rows
      /\ entry'[e] = row
      /\ \A x \in Rows : x # e => entry'[x] = entry[x]
  BY PutRow DEF KpiIInv, Rows
<1>2. ShapeOK'
  <2>1. request' \in [Caller -> KpiRequest \cup {NoRequest}]
    BY AnsweredCalls DEF KpiIInv
  <2>2. QED
    BY <1>1, <2>1 DEF KpiIInv, ShapeOK
<1>3. KeysOK'
  BY <1>1 DEF KpiIInv, KeysOK, ByHand, Live
<1>4. OneKey'
  <2>1. ASSUME NEW x \in Rows, x # e
        PROVE  /\ row.content.key # NoKey => entry[x].content.key # row.content.key
               /\ row.content.reference # NoReference =>
                        entry[x].content.reference # row.content.reference
    BY <2>1 DEF Unclaimed
  <2>2. QED
    BY <1>1, <2>1 DEF KpiIInv, OneKey
<1>5. CorrectsReviewed'
  BY <1>1 DEF KpiIInv, CorrectsReviewed
<1>6. RevisionGivesWay'
  BY <1>1 DEF KpiIInv, RevisionGivesWay, CorrectsReviewed
<1>7. KpiRequestsOK'
  BY <1>1, OtherCalls
<1>8. QED
  BY <1>2, <1>3, <1>4, <1>5, <1>6, <1>7 DEF KpiIInv

-----------------------------------------------------------------------------
(* Each action keeps the invariant.                                        *)

\* What Keyed makes: the observation is the key of an entry without a reference.
LEMMA KeyedShape ==
    ASSUME NEW o \in Observation, NEW v \in Value, NEW ref \in Reference \cup {NoReference}
    PROVE  /\ Keyed(o, v, ref) \in KpiContent
           /\ Keyed(o, v, ref).observation = o
           /\ Keyed(o, v, ref).reference = ref
           /\ ref = NoReference => Keyed(o, v, ref).key = o
           /\ ref # NoReference => Keyed(o, v, ref).key = NoKey
  BY DEF Keyed, KpiContent

\* A handler reads what it needs to create an entry,
LEMMA BeginCreateIInv ==
    ASSUME KpiIInv, NEW c \in Caller, BeginCreate(c)
    PROVE  KpiIInv'
<1>1. PICK o \in Observation, v \in Value, ref \in Reference \cup {NoReference} :
            Asks(c, [at |-> "creating", content |-> Keyed(o, v, ref)])
  BY DEF BeginCreate
<1> DEFINE r == [at |-> "creating", content |-> Keyed(o, v, ref)]
<1>2. r \in KpiRequest
  BY KeyedShape DEF KpiRequest
<1>3. request'[c] = r
  BY <1>1 DEF Asks, KpiIInv, ShapeOK
<1>4. KpiRequestOK(c)'
  <2>1. request'[c].at = "creating" /\ request'[c].content = Keyed(o, v, ref)
    BY <1>3
  <2>2. QED
    BY <2>1, KeyedShape DEF KpiRequestOK
<1>5. UNCHANGED <<entry, stale>>
  BY DEF BeginCreate
<1> HIDE DEF r
<1>6. Asks(c, r)
  BY <1>1 DEF r
<1>7. QED
  BY <1>2, <1>4, <1>5, <1>6, AskIInv

\* to submit one,
LEMMA BeginSubmitIInv ==
    ASSUME KpiIInv, NEW c \in Caller, NEW e \in Entry, BeginSubmit(c, e)
    PROVE  KpiIInv'
<1> DEFINE r == [at |-> "submitting", of |-> e]
<1>1. r \in KpiRequest
  BY DEF KpiRequest
<1>2. request'[c].at = "submitting" /\ request'[c].of = e
  BY DEF BeginSubmit, Asks, KpiIInv, ShapeOK
<1>3. e \in Rows' /\ UNCHANGED <<entry, stale>>
  BY DEF BeginSubmit, Live, Rows
<1>4. KpiRequestOK(c)'
  BY <1>2, <1>3 DEF KpiRequestOK
<1>5. Asks(c, r)
  BY DEF BeginSubmit
<1> HIDE DEF r
<1>6. QED
  BY <1>1, <1>3, <1>4, <1>5, AskIInv

\* or to edit one.
LEMMA BeginEditIInv ==
    ASSUME KpiIInv, NEW c \in Caller, NEW e \in Entry, BeginEdit(c, e)
    PROVE  KpiIInv'
<1>1. /\ e \in Rows /\ UNCHANGED <<entry, stale>> /\ Rows' = Rows
      /\ entry[e].status \notin {"SUBMITTED", "SUPERSEDED"}
  BY DEF BeginEdit, Live, Rows
<1>2. entry[e].status \in KpiStatus
  BY <1>1, RowShape DEF KpiIInv, KpiRow
<1>3. PICK o \in Observation, v \in Value, ref \in Reference \cup {NoReference},
          archive \in BOOLEAN :
            IF Reviewed(e)
            THEN Asks(c, [at |-> "revising", of |-> e,
                          content |-> [observation |-> o, value |-> v, key |-> NoKey,
                                       reference |-> NoReference]])
            ELSE Asks(c, [at |-> "editing", of |-> e, archive |-> archive,
                          read |-> entry[e].status,
                          content |-> [observation |-> o, value |-> v, reference |-> ref,
                                       key |-> IF archive THEN NoKey ELSE Keyed(o, v, ref).key]])
  BY DEF BeginEdit
<1>4. CASE Reviewed(e)
  <2> DEFINE k == [observation |-> o, value |-> v, key |-> NoKey, reference |-> NoReference]
             r == [at |-> "revising", of |-> e, content |-> k]
  <2>1. k \in KpiContent /\ k.key = NoKey /\ k.reference = NoReference
    BY DEF KpiContent
  <2>2. Asks(c, r)
    BY <1>3, <1>4
  <2> HIDE DEF k
  <2>3. r \in KpiRequest
    BY <2>1 DEF KpiRequest
  <2>4. request'[c].at = "revising" /\ request'[c].of = e /\ request'[c].content = k
    BY <2>2 DEF Asks, KpiIInv, ShapeOK
  <2>5. KpiRequestOK(c)'
    BY <1>1, <1>4, <2>1, <2>4 DEF KpiRequestOK, Reviewed, Final
  <2> HIDE DEF r
  <2>6. QED
    BY <1>1, <2>2, <2>3, <2>5, AskIInv
<1>5. CASE ~Reviewed(e)
  <2> DEFINE k == [observation |-> o, value |-> v, reference |-> ref,
                   key |-> IF archive THEN NoKey ELSE Keyed(o, v, ref).key]
             r == [at |-> "editing", of |-> e, archive |-> archive, read |-> entry[e].status,
                   content |-> k]
  <2>1. /\ k \in KpiContent
        /\ ~archive /\ k.reference = NoReference => k.key = k.observation
    <3>1. Keyed(o, v, ref).key \in Observation \cup {NoKey}
          /\ (ref = NoReference => Keyed(o, v, ref).key = o)
      BY KeyedShape
    <3>2. QED
      BY <3>1 DEF KpiContent
  <2>2. Asks(c, r)
    BY <1>3, <1>5
  <2> HIDE DEF k
  <2>3. r \in KpiRequest
    BY <1>2, <2>1 DEF KpiRequest
  <2>4. /\ request'[c].at = "editing" /\ request'[c].of = e /\ request'[c].content = k
        /\ request'[c].archive = archive /\ request'[c].read = entry[e].status
    BY <2>2 DEF Asks, KpiIInv, ShapeOK
  <2>5. entry[e].status = "DRAFT"
    BY <1>1, <1>2, <1>5 DEF Reviewed, KpiStatus
  <2>6. KpiRequestOK(c)'
    BY <1>1, <2>1, <2>4, <2>5 DEF KpiRequestOK
  <2> HIDE DEF r
  <2>7. QED
    BY <1>1, <2>2, <2>3, <2>6, AskIInv
<1>6. QED
  BY <1>4, <1>5

\* A call that is answered without a write.
LEMMA RefusedIInv ==
    ASSUME KpiIInv, NEW c \in Caller, Answered(c), UNCHANGED <<entry, stale>>
    PROVE  KpiIInv'
<1>1. request' \in [Caller -> KpiRequest \cup {NoRequest}]
  BY AnsweredCalls DEF KpiIInv
<1>2. Rows' = Rows
  BY DEF Rows
<1>3. KpiRequestsOK'
  BY <1>2, OtherCalls
<1>4. QED
  BY <1>1, <1>2, <1>3
  DEF KpiIInv, ShapeOK, KeysOK, OneKey, CorrectsReviewed, RevisionGivesWay, ByHand, Live

\* An entry is created.
LEMMA CreateIInv ==
    ASSUME KpiIInv, NEW c \in Caller, Create(c)
    PROVE  KpiIInv'
<1>1. request[c].at = "creating" /\ Answered(c) /\ UNCHANGED stale
  BY DEF Create
<1>2. CASE UNCHANGED entry
  BY <1>1, <1>2, RefusedIInv
<1>3. CASE \E e \in Entry \ Rows :
              /\ Unclaimed(request[c].content, {})
              /\ Put(e, [status |-> "DRAFT", archived |-> FALSE, content |-> request[c].content,
                         supersedes |-> NoEntry])
  <2> DEFINE k == request[c].content
  <2>1. k \in KpiContent
    BY <1>1, RequestShape DEF KpiIInv
  <2>2. k.reference = NoReference => k.key = k.observation
    BY <1>1 DEF KpiIInv, KpiRequestsOK, KpiRequestOK
  <2>3. NoEntry \notin Rows
    BY KpiAssumption DEF Rows
  <2>4. PICK e \in Entry \ Rows :
              /\ Unclaimed(k, {})
              /\ Put(e, [status |-> "DRAFT", archived |-> FALSE, content |-> k,
                         supersedes |-> NoEntry])
    BY <1>3
  <2> HIDE DEF k
  <2>5. QED
    BY <1>1, <2>1, <2>2, <2>3, <2>4, NewRow
<1>4. QED
  BY <1>2, <1>3 DEF Create

\* A reviewed entry gives way to its correction.
LEMMA ReviseIInv ==
    ASSUME KpiIInv, NEW c \in Caller, Revise(c)
    PROVE  KpiIInv'
<1> DEFINE k == request[c].content
           o == request[c].of
           s == Original(o)
<1>1. request[c].at = "revising" /\ Answered(c) /\ UNCHANGED stale
  BY DEF Revise
<1>2. /\ o \in Rows /\ (o \in stale \/ entry[o].status \in Final)
      /\ k.key = NoKey /\ k.reference = NoReference
  BY <1>1 DEF KpiIInv, KpiRequestsOK, KpiRequestOK
<1>3. k \in KpiContent
  BY <1>1, RequestShape DEF KpiIInv
<1>4. s \in Rows /\ (s \in stale \/ entry[s].status \in Final)
  <2>1. entry[o].supersedes \in Rows \cup {NoEntry}
    BY <1>2, RowShape DEF KpiIInv
  <2>2. entry[o].supersedes \in Rows \ stale => entry[entry[o].supersedes].status \in Final
    BY <1>2 DEF KpiIInv, CorrectsReviewed
  <2>3. QED
    BY <1>2, <2>1, <2>2 DEF Original
<1>5. Unclaimed(k, {})
  BY <1>2 DEF Unclaimed
<1>6. s # NoEntry
  BY <1>4, KpiAssumption DEF Rows
<1>7. PICK e \in Entry \ Rows :
            Put(e, [status |-> "DRAFT", archived |-> FALSE, content |-> k, supersedes |-> s])
  BY DEF Revise
<1> HIDE DEF k, o, s
<1>8. QED
  BY <1>1, <1>3, <1>4, <1>5, <1>6, <1>7, NewRow

\* A draft is edited.
LEMMA EditIInv ==
    ASSUME KpiIInv, NEW c \in Caller, Edit(c)
    PROVE  KpiIInv'
<1> DEFINE e == request[c].of
           old == entry[e]
           k == request[c].content
           row == [status |-> old.status, archived |-> old.archived \/ request[c].archive,
                   content |-> k, supersedes |-> old.supersedes]
<1>1. request[c].at = "editing" /\ Answered(c)
  BY DEF Edit
<1>2. /\ e \in Rows
      /\ ~request[c].archive /\ k.reference = NoReference => k.key = k.observation
  BY <1>1 DEF KpiIInv, KpiRequestsOK, KpiRequestOK
<1>3. k \in KpiContent /\ request[c].archive \in BOOLEAN
  BY <1>1, RequestShape DEF KpiIInv
<1>4. CASE UNCHANGED <<entry, stale>>
  BY <1>1, <1>4, RefusedIInv
<1>5. CASE /\ Unclaimed(k, {e}) /\ Put(e, row)
           /\ stale' = IF old.status = request[c].read THEN stale ELSE stale \cup {e}
  <2>1. old \in KpiRow
    BY <1>2, RowShape DEF KpiIInv
  <2>2. row \in KpiRow
    BY <1>3, <2>1 DEF KpiRow
  <2>3. /\ row.supersedes = old.supersedes /\ row.status = old.status
        /\ row.content = k /\ (~row.archived => ~request[c].archive)
    OBVIOUS
  <2>4. stale' \in {stale, stale \cup {e}}
    BY <1>5
  <2> HIDE DEF row, k, old, e
  <2>5. QED
    BY <1>1, <1>2, <1>5, <2>2, <2>3, <2>4, WrittenRow DEF old
<1>6. QED
  BY <1>4, <1>5 DEF Edit

\* An entry is submitted.
LEMMA SubmitIInv ==
    ASSUME KpiIInv, NEW c \in Caller, Submit(c)
    PROVE  KpiIInv'
<1> DEFINE e == request[c].of
           old == entry[e]
           row == [status |-> "SUBMITTED", archived |-> old.archived, content |-> old.content,
                   supersedes |-> old.supersedes]
<1>1. /\ request[c].at = "submitting" /\ Answered(c) /\ Put(e, row)
      /\ stale' = IF old.status \in {"DRAFT", "SUBMITTED"} THEN stale ELSE stale \cup {e}
  BY DEF Submit
<1>2. e \in Rows
  BY <1>1 DEF KpiIInv, KpiRequestsOK, KpiRequestOK
<1>3. old \in KpiRow
  BY <1>2, RowShape DEF KpiIInv
<1>4. row \in KpiRow
  BY <1>3 DEF KpiRow, KpiStatus
<1>5. /\ row.supersedes = old.supersedes /\ row.status = "SUBMITTED"
      /\ row.content = old.content /\ row.archived = old.archived
  OBVIOUS
<1>6. /\ Unclaimed(old.content, {e})
      /\ old.supersedes = NoEntry /\ ~old.archived /\ old.content.reference = NoReference
            => old.content.key = old.content.observation
  <2>1. \A f \in Rows \ {e} :
            /\ old.content.key # NoKey => entry[f].content.key # old.content.key
            /\ old.content.reference # NoReference =>
                    entry[f].content.reference # old.content.reference
    BY <1>2 DEF KpiIInv, OneKey
  <2>2. QED
    BY <1>2, <2>1 DEF KpiIInv, KeysOK, ByHand, Live, Unclaimed
<1>7. /\ stale' \in {stale, stale \cup {e}}
      /\ old.status \in Final => e \in stale'
  BY <1>1 DEF Final
<1> HIDE DEF row, old, e
<1>8. QED
  BY <1>1, <1>2, <1>4, <1>5, <1>6, <1>7, WrittenRow DEF old

\* A review writes the status of the entry and of the one it replaces.
LEMMA ReviewRows ==
    ASSUME KpiIInv, NEW e \in Entry, NEW decision \in {"APPROVED", "REJECTED"},
           ReviewEntry(e, decision)
    PROVE  /\ e \in Rows /\ entry[e].status = "SUBMITTED"
           /\ Rows' = Rows
           /\ entry' \in [Entry -> KpiRow \cup {NoRow}]
           /\ \A x \in Rows :
                /\ entry'[x].archived = entry[x].archived
                /\ entry'[x].content = entry[x].content
                /\ entry'[x].supersedes = entry[x].supersedes
           /\ entry'[e].status = decision
           /\ \A x \in Rows : x # e =>
                IF decision = "APPROVED" /\ x = entry[e].supersedes /\ entry[x].status = "APPROVED"
                THEN entry'[x].status = "SUPERSEDED"
                ELSE entry'[x].status = entry[x].status
<1>1. e \in Rows /\ entry[e].status = "SUBMITTED"
  BY DEF ReviewEntry, Live
<1>2. ASSUME NEW x \in Rows, NEW s \in KpiStatus
      PROVE  /\ WithStatus(entry[x], s) \in KpiRow
             /\ WithStatus(entry[x], s).status = s
             /\ WithStatus(entry[x], s).archived = entry[x].archived
             /\ WithStatus(entry[x], s).content = entry[x].content
             /\ WithStatus(entry[x], s).supersedes = entry[x].supersedes
  <2>1. entry[x] \in KpiRow
    BY RowShape DEF KpiIInv
  <2>2. QED
    BY <2>1 DEF WithStatus, KpiRow
<1>3. decision \in KpiStatus /\ "SUPERSEDED" \in KpiStatus
  BY DEF KpiStatus
<1>4. \A x \in Entry :
        entry'[x] = IF x = e THEN WithStatus(entry[x], decision)
                    ELSE IF decision = "APPROVED" /\ x \in Superseded(e)
                         THEN WithStatus(entry[x], "SUPERSEDED")
                    ELSE entry[x]
  BY DEF ReviewEntry
<1>5. \A x \in Rows : x \in Entry
  BY DEF Rows
<1>6. \A x \in Superseded(e) : x \in Rows
  BY DEF Superseded
<1>7. \A x \in Rows : entry'[x] \in KpiRow
  <2>1. \A x \in Rows : entry[x] \in KpiRow
    BY RowShape DEF KpiIInv
  <2>2. QED
    BY <1>2, <1>3, <1>4, <1>5, <2>1
<1>8. \A x \in Entry \ Rows : entry'[x] = entry[x]
  BY <1>1, <1>4, <1>6
<1>9. Rows' = Rows
  <2>1. \A x \in Rows : entry'[x] # NoRow
    BY <1>7 DEF KpiRow, NoRow, KpiStatus
  <2>2. QED
    BY <1>5, <1>8, <2>1 DEF Rows
<1>10. entry' \in [Entry -> KpiRow \cup {NoRow}]
  <2>1. entry' = [x \in Entry |-> entry'[x]]
    BY DEF ReviewEntry
  <2>2. \A x \in Entry : entry'[x] \in KpiRow \cup {NoRow}
    BY <1>7, <1>8 DEF Rows
  <2>3. QED
    BY <2>1, <2>2
<1>11. \A x \in Rows :
                /\ entry'[x].archived = entry[x].archived
                /\ entry'[x].content = entry[x].content
                /\ entry'[x].supersedes = entry[x].supersedes
  BY <1>2, <1>3, <1>4, <1>5
<1>12. entry'[e].status = decision
  BY <1>1, <1>2, <1>3, <1>4
<1>13. ASSUME NEW x \in Rows, x # e
       PROVE  IF decision = "APPROVED" /\ x = entry[e].supersedes /\ entry[x].status = "APPROVED"
              THEN entry'[x].status = "SUPERSEDED"
              ELSE entry'[x].status = entry[x].status
  <2>1. x \in Superseded(e) <=> x = entry[e].supersedes /\ entry[x].status = "APPROVED"
    BY DEF Superseded
  <2>2. QED
    BY <1>2, <1>3, <1>4, <1>5, <1>13, <2>1
<1>14. QED
  BY <1>1, <1>9, <1>10, <1>11, <1>12, <1>13

\* An entry is reviewed.
LEMMA ReviewIInv ==
    ASSUME KpiIInv, NEW e \in Entry, NEW decision \in {"APPROVED", "REJECTED"},
           ReviewEntry(e, decision)
    PROVE  KpiIInv'
<1>1. /\ e \in Rows /\ entry[e].status = "SUBMITTED"
      /\ Rows' = Rows
      /\ entry' \in [Entry -> KpiRow \cup {NoRow}]
      /\ \A x \in Rows :
           /\ entry'[x].archived = entry[x].archived
           /\ entry'[x].content = entry[x].content
           /\ entry'[x].supersedes = entry[x].supersedes
      /\ entry'[e].status = decision
      /\ \A x \in Rows : x # e =>
           IF decision = "APPROVED" /\ x = entry[e].supersedes /\ entry[x].status = "APPROVED"
           THEN entry'[x].status = "SUPERSEDED"
           ELSE entry'[x].status = entry[x].status
  BY ReviewRows
<1>2. UNCHANGED <<request, stale>>
  BY DEF ReviewEntry
<1>3. ShapeOK' /\ KeysOK' /\ OneKey'
  BY <1>1, <1>2 DEF KpiIInv, ShapeOK, KeysOK, OneKey, ByHand, Live
<1>4. \A x \in Rows : entry[x].status \in Final => entry'[x].status \in Final
  BY <1>1 DEF Final
<1>5. CorrectsReviewed'
  BY <1>1, <1>2, <1>4 DEF KpiIInv, CorrectsReviewed
<1>6. RevisionGivesWay'
  <2>1. SUFFICES ASSUME NEW f \in Rows, NEW s \in Rows \ stale,
                        entry'[f].status = "APPROVED", entry[f].supersedes = s
                 PROVE  entry'[s].status # "APPROVED"
    BY <1>1, <1>2 DEF RevisionGivesWay
  <2>2. entry[s].status \in Final /\ s # e
    BY <1>1, <2>1 DEF KpiIInv, CorrectsReviewed, Final
  <2>3. CASE f = e
    BY <1>1, <2>1, <2>2, <2>3
  <2>4. CASE f # e
    <3>1. entry[f].status = "APPROVED"
      BY <1>1, <2>1, <2>4
    <3>2. entry[s].status # "APPROVED"
      BY <2>1, <3>1 DEF KpiIInv, RevisionGivesWay
    <3>3. QED
      BY <1>1, <2>2, <3>2
  <2>5. QED
    BY <2>3, <2>4
<1>7. KpiRequestsOK'
  BY <1>1, <1>2, <1>4 DEF KpiIInv, KpiRequestsOK, KpiRequestOK
<1>8. QED
  BY <1>3, <1>5, <1>6, <1>7 DEF KpiIInv

-----------------------------------------------------------------------------
\* Every step keeps the invariant.
LEMMA KpiNextIInv == KpiIInv /\ [KpiNext]_kpiVars => KpiIInv'
<1> SUFFICES ASSUME KpiIInv, [KpiNext]_kpiVars PROVE KpiIInv'
  OBVIOUS
<1>1. CASE UNCHANGED kpiVars
  <2>1. UNCHANGED <<entry, request, stale>>
    BY <1>1 DEF kpiVars
  <2>2. QED
    BY <2>1 DEF KpiIInv, ShapeOK, KeysOK, OneKey, CorrectsReviewed, RevisionGivesWay, KpiRequestsOK,
        KpiRequestOK, ByHand, Live, Rows
<1>2. ASSUME NEW c \in Caller, BeginCreate(c) PROVE KpiIInv'
  BY <1>2, BeginCreateIInv
<1>3. ASSUME NEW c \in Caller, Create(c) PROVE KpiIInv'
  BY <1>3, CreateIInv
<1>4. ASSUME NEW c \in Caller, NEW e \in Entry, BeginEdit(c, e) PROVE KpiIInv'
  BY <1>4, BeginEditIInv
<1>5. ASSUME NEW c \in Caller, NEW e \in Entry, BeginSubmit(c, e) PROVE KpiIInv'
  BY <1>5, BeginSubmitIInv
<1>6. ASSUME NEW c \in Caller, Revise(c) PROVE KpiIInv'
  BY <1>6, ReviseIInv
<1>7. ASSUME NEW c \in Caller, Edit(c) PROVE KpiIInv'
  BY <1>7, EditIInv
<1>8. ASSUME NEW c \in Caller, Submit(c) PROVE KpiIInv'
  BY <1>8, SubmitIInv
<1>9. ASSUME NEW e \in Entry, NEW decision \in {"APPROVED", "REJECTED"}, ReviewEntry(e, decision)
      PROVE KpiIInv'
  BY <1>9, ReviewIInv
<1>10. QED
  BY <1>1, <1>2, <1>3, <1>4, <1>5, <1>6, <1>7, <1>8, <1>9 DEF KpiNext

\* The invariant holds in every state.
LEMMA KpiInvariance == KpiSpec => []KpiIInv
  BY KpiInitIInv, KpiNextIInv, PTL DEF KpiSpec

\* The rows and the calls have the shape the code gives them.
THEOREM KpiTypeCorrect == KpiSpec => []KpiTypeOK
<1>1. KpiIInv => KpiTypeOK
  BY DEF KpiIInv, ShapeOK, KeysOK, KpiTypeOK
<1>2. QED
  BY <1>1, KpiInvariance, PTL

\* An observation is entered by hand once, an external row once.
THEOREM NothingEnteredTwice == KpiSpec => []EnteredOnce
<1>1. ASSUME KpiIInv PROVE EnteredOnce
  <2>1. SUFFICES ASSUME NEW e \in Rows, NEW f \in Rows, e # f,
                        \/ /\ ByHand(e) /\ ByHand(f)
                           /\ entry[e].content.observation = entry[f].content.observation
                        \/ /\ entry[e].content.reference \in Reference
                           /\ entry[e].content.reference = entry[f].content.reference
                 PROVE  FALSE
    BY DEF EnteredOnce
  <2>2. entry[e].content.observation \in Observation
    BY <1>1, RowShape DEF KpiIInv, KpiContent
  <2>3. CASE ByHand(e) /\ ByHand(f) /\ entry[e].content.observation = entry[f].content.observation
    <3>1. /\ entry[e].content.key = entry[e].content.observation
          /\ entry[f].content.key = entry[e].content.observation
      BY <1>1, <2>3 DEF KpiIInv, KeysOK
    <3>2. QED
      BY <1>1, <2>1, <2>2, <3>1, KpiAssumption DEF KpiIInv, OneKey
  <2>4. CASE /\ entry[e].content.reference \in Reference
             /\ entry[e].content.reference = entry[f].content.reference
    BY <1>1, <2>1, <2>4, KpiAssumption DEF KpiIInv, OneKey
  <2>5. QED
    BY <2>1, <2>3, <2>4
<1>2. QED
  BY <1>1, KpiInvariance, PTL

\* An approved correction and what it corrects never both count.
THEOREM CorrectionsReplace == KpiSpec => []RevisionGivesWay
<1>1. KpiIInv => RevisionGivesWay
  BY DEF KpiIInv
<1>2. QED
  BY <1>1, KpiInvariance, PTL

\* No edit overwrites what was approved, whoever read what before.
THEOREM ApprovalsStand == KpiSpec => ApprovedContentStands
<1> DEFINE A == \A e \in Rows \ stale' :
                    entry[e].status = "APPROVED" =>
                        /\ entry'[e].content = entry[e].content
                        /\ entry'[e].status \in {"APPROVED", "SUPERSEDED"}
<1>1. ASSUME KpiIInv, [KpiNext]_kpiVars PROVE [A]_kpiVars
  <2>1. SUFFICES ASSUME NEW e \in Rows, e \notin stale', entry[e].status = "APPROVED"
                 PROVE  /\ entry'[e].content = entry[e].content
                        /\ entry'[e].status \in {"APPROVED", "SUPERSEDED"}
    OBVIOUS
  <2>2. e \in Entry
    BY DEF Rows
  <2>3. CASE UNCHANGED entry
    BY <2>1, <2>3
  <2>4. ASSUME NEW x \in Entry \ Rows, NEW row, Put(x, row) PROVE entry'[e] = entry[e]
    BY <1>1, <2>2, <2>4 DEF Put, KpiIInv, ShapeOK
  <2>5. ASSUME NEW c \in Caller, Edit(c) \/ Submit(c) PROVE entry'[e] = entry[e]
    <3>1. request[c].of \in Entry
      BY <1>1, <2>5, RequestShape DEF KpiIInv, Edit, Submit
    <3>2. ASSUME e = request[c].of, entry' # entry PROVE FALSE
      <4>1. CASE Edit(c)
        <5>1. request[c].read = "DRAFT"
          BY <1>1, <4>1 DEF Edit, KpiIInv, KpiRequestsOK, KpiRequestOK
        <5>2. QED
          BY <2>1, <3>2, <4>1, <5>1 DEF Edit
      <4>2. CASE Submit(c)
        BY <2>1, <3>2, <4>2 DEF Submit
      <4>3. QED
        BY <2>5, <4>1, <4>2
    <3>3. CASE e # request[c].of
      BY <1>1, <2>2, <2>5, <3>1, <3>3 DEF Edit, Submit, Put, KpiIInv, ShapeOK
    <3>4. QED
      BY <3>2, <3>3
  <2>6. ASSUME NEW x \in Entry, NEW decision \in {"APPROVED", "REJECTED"},
               ReviewEntry(x, decision)
        PROVE  /\ entry'[e].content = entry[e].content
               /\ entry'[e].status \in {"APPROVED", "SUPERSEDED"}
    BY <1>1, <2>1, <2>6, ReviewRows
  <2>7. ASSUME NEW c \in Caller, BeginCreate(c) PROVE UNCHANGED entry
    BY <2>7 DEF BeginCreate
  <2>8. ASSUME NEW c \in Caller, NEW x \in Entry, BeginEdit(c, x) \/ BeginSubmit(c, x)
        PROVE UNCHANGED entry
    BY <2>8 DEF BeginEdit, BeginSubmit
  <2>9. ASSUME NEW c \in Caller, Create(c) \/ Revise(c) PROVE entry'[e] = entry[e]
    BY <2>4, <2>9 DEF Create, Revise
  <2>10. CASE UNCHANGED kpiVars
    BY <2>1, <2>10 DEF kpiVars
  <2>11. CASE KpiNext
    BY <2>1, <2>3, <2>5, <2>6, <2>7, <2>8, <2>9, <2>11 DEF KpiNext
  <2>12. QED
    BY <1>1, <2>10, <2>11
<1>2. QED
  BY <1>1, KpiInvariance, PTL DEF KpiSpec, ApprovedContentStands

\* What the summaries count, they count once.
THEOREM SummariesCountOnce == KpiSpec => []CountedOnce
  BY NothingEnteredTwice, CorrectionsReplace, PTL DEF CountedOnce

-----------------------------------------------------------------------------
(* Campaigns.                                                              *)

\* The history is as long as the version says, and ends with the status.
CampaignHistoryOK ==
    /\ history \in Seq(CampaignStatus)
    /\ Len(history) = campaign.version
    /\ campaign.version \in Nat \ {0}
    /\ history[campaign.version] = campaign.status
    /\ campaign.status = "DRAFT" => campaign.version = 1

\* The inductive invariant of a campaign.
CampaignIInv ==
    /\ CampaignTypeOK /\ CampaignHistoryOK /\ EachChangeIsAnnounced /\ OnlyTheAudienceIsTold
    /\ team \in SUBSET Agent /\ approved \in SUBSET Measure

\* The type invariant, field by field.
LEMMA CampaignShape ==
    ASSUME CampaignTypeOK
    PROVE  /\ campaign.status \in CampaignStatus /\ campaign.version \in Nat
           /\ campaign.audience \in SUBSET Agent /\ campaign.result \in SUBSET SUBSET Measure
  BY DEF CampaignTypeOK, Campaign

\* A change moves the row on by one version, for the audience it had or gets now.
LEMMA ChangedRow ==
    ASSUME CampaignIInv, NEW s \in CampaignStatus, Change(s)
    PROVE  /\ campaign'.status = s /\ campaign'.version = campaign.version + 1
           /\ campaign'.audience = Audience /\ campaign'.result = Result(s)
           /\ campaign' \in Campaign
           /\ s # "DRAFT" /\ campaign.status # "CLOSED"
           /\ Audience \in SUBSET Agent /\ Audience # {}
           /\ campaign.audience # {} => Audience = campaign.audience
<1>1. campaign' = [status |-> s, version |-> campaign.version + 1, audience |-> Audience,
                   result |-> Result(s)]
  BY DEF Change, NextLife
<1>2. Audience \in SUBSET Agent /\ Audience # {}
      /\ (campaign.audience # {} => Audience = campaign.audience)
  BY CampaignShape DEF CampaignIInv, Audience, Change
<1>3. Result(s) \in SUBSET SUBSET Measure
  BY CampaignShape DEF CampaignIInv, Result
<1>4. s # "DRAFT" /\ campaign.status # "CLOSED"
  <2>1. s \in Transition(campaign.status) /\ campaign.status \in {"DRAFT", "ACTIVE", "PAUSED", "CLOSED"}
    BY CampaignShape DEF CampaignIInv, Change, CampaignStatus
  <2>2. QED
    BY <2>1 DEF Transition
<1>5. campaign.version \in Nat
  BY CampaignShape DEF CampaignIInv
<1>6. campaign' \in Campaign
  BY <1>1, <1>2, <1>3, <1>5 DEF Campaign
<1>7. QED
  BY <1>1, <1>2, <1>4, <1>6

\* A campaign changes its status.
LEMMA CampaignChange ==
    ASSUME CampaignIInv, NEW s \in CampaignStatus, Change(s)
    PROVE  CampaignIInv'
<1>n. PICK n : n = campaign.version
  OBVIOUS
<1>d. PICK fresh : fresh = [agent : Audience, status : {s}, version : {n + 1}]
  OBVIOUS
<1>1. /\ campaign'.status = s /\ campaign'.version = n + 1
      /\ campaign'.audience = Audience /\ campaign'.result = Result(s)
      /\ campaign' \in Campaign
      /\ s # "DRAFT" /\ campaign.status # "CLOSED"
      /\ Audience \in SUBSET Agent /\ Audience # {}
      /\ campaign.audience # {} => Audience = campaign.audience
  BY <1>n, ChangedRow
<1>2. /\ telling' = telling \cup fresh
      /\ history' = Append(history, s)
      /\ UNCHANGED <<team, approved, told, forgotten>>
  BY <1>n, <1>d DEF Change, NextLife
<1>3. n \in Nat \ {0} /\ history \in Seq(CampaignStatus) /\ Len(history) = n
  BY <1>n DEF CampaignIInv, CampaignHistoryOK
<1>4. /\ history' \in Seq(CampaignStatus) /\ Len(history') = n + 1 /\ history'[n + 1] = s
      /\ \A i \in 1 .. n : history'[i] = history[i]
  BY <1>2, <1>3
<1>5. CampaignHistoryOK'
  BY <1>1, <1>3, <1>4 DEF CampaignHistoryOK
<1>6. \A m \in fresh : /\ m \in Notice /\ m.agent \in Audience /\ m.status = s
                       /\ m.version = n + 1
  BY <1>d, <1>1, <1>3 DEF Notice
<1>7. CampaignTypeOK'
  <2>1. campaign'.audience = {} <=> campaign'.status = "DRAFT"
    BY <1>1
  <2>2. /\ campaign'.result = {} <=> campaign'.status # "CLOSED"
        /\ \A r, q \in campaign'.result : r = q
    <3>1. campaign.result = {}
      BY <1>1 DEF CampaignIInv, CampaignTypeOK
    <3>2. QED
      BY <1>1, <3>1 DEF Result
  <2>3. telling' \cup told' \cup forgotten' \subseteq Notice
    BY <1>2, <1>6 DEF CampaignIInv, CampaignTypeOK
  <2>4. QED
    BY <1>1, <2>1, <2>2, <2>3 DEF CampaignTypeOK
<1>8. EachChangeIsAnnounced'
  <2>1. SUFFICES ASSUME NEW i \in 2 .. (n + 1), NEW a \in Agent, a \in Audience
                 PROVE  [agent |-> a, status |-> history'[i], version |-> i]
                            \in telling' \cup told' \cup forgotten'
    BY <1>1, <1>4 DEF EachChangeIsAnnounced
  <2>2. CASE i = n + 1
    <3>1. [agent |-> a, status |-> s, version |-> n + 1] \in fresh
      BY <1>d, <2>1
    <3>2. QED
      BY <1>2, <1>4, <2>2, <3>1
  <2>3. CASE i \in 2 .. n
    <3>1. a \in campaign.audience
      <4>1. campaign.audience # {}
        <5>1. campaign.status # "DRAFT"
          BY <1>3, <1>n, <2>3 DEF CampaignIInv, CampaignHistoryOK
        <5>2. QED
          BY <5>1 DEF CampaignIInv, CampaignTypeOK
      <4>2. QED
        BY <1>1, <2>1, <4>1
    <3>2. QED
      BY <1>2, <1>3, <1>4, <2>3, <3>1 DEF CampaignIInv, EachChangeIsAnnounced
  <2>4. QED
    BY <1>3, <2>1, <2>2, <2>3
<1>9. OnlyTheAudienceIsTold'
  <2>1. SUFFICES ASSUME NEW m \in telling' \cup told'
                 PROVE  /\ m.agent \in Audience /\ m.version \in 2 .. (n + 1)
                        /\ history'[m.version] = m.status
    BY <1>1, <1>4 DEF OnlyTheAudienceIsTold
  <2>2. CASE m \in fresh
    BY <1>3, <1>4, <1>6, <2>2
  <2>3. CASE m \in telling \cup told
    <3>1. /\ m.agent \in campaign.audience /\ m.version \in 2 .. n
          /\ history[m.version] = m.status
      BY <1>3, <2>3 DEF CampaignIInv, OnlyTheAudienceIsTold
    <3>2. QED
      BY <1>1, <1>3, <1>4, <3>1
  <2>4. m \in fresh \/ m \in telling \cup told
    BY <1>2, <2>1
  <2>5. QED
    BY <2>2, <2>3, <2>4
<1>10. QED
  BY <1>2, <1>5, <1>7, <1>8, <1>9 DEF CampaignIInv

\* Its audience is told, or the telling is lost.
LEMMA CampaignTell ==
    ASSUME CampaignIInv,
           \/ \E n \in telling : Tell(n)
           \/ \E v \in 1 .. MaxLife : Forget(v)
    PROVE  CampaignIInv'
<1>1. /\ UNCHANGED <<campaign, team, approved, history>>
      /\ telling' \cup told' \subseteq telling \cup told
      /\ telling \cup told \cup forgotten = telling' \cup told' \cup forgotten'
  BY DEF Tell, Forget
<1>2. CampaignTypeOK' /\ CampaignHistoryOK'
  BY <1>1 DEF CampaignIInv, CampaignTypeOK, CampaignHistoryOK
<1>3. EachChangeIsAnnounced'
  BY <1>1 DEF CampaignIInv, EachChangeIsAnnounced
<1>4. OnlyTheAudienceIsTold'
  BY <1>1 DEF CampaignIInv, OnlyTheAudienceIsTold
<1>5. QED
  BY <1>1, <1>2, <1>3, <1>4 DEF CampaignIInv

\* The initial state satisfies the invariant, and every step keeps it.
LEMMA CampaignInvariance == CampaignSpec => []CampaignIInv
<1>1. CampaignInit => CampaignIInv
  <2> SUFFICES ASSUME CampaignInit PROVE CampaignIInv
    OBVIOUS
  <2>1. /\ campaign.status = "DRAFT" /\ campaign.version = 1 /\ campaign.audience = {}
        /\ campaign.result = {} /\ campaign \in Campaign
    BY DEF CampaignInit, Campaign, CampaignStatus
  <2>2. history \in Seq(CampaignStatus) /\ Len(history) = 1 /\ history[1] = "DRAFT"
    BY DEF CampaignInit, CampaignStatus
  <2>3. telling = {} /\ told = {} /\ forgotten = {}
    BY DEF CampaignInit
  <2>4. CampaignTypeOK /\ CampaignHistoryOK
    BY <2>1, <2>2, <2>3 DEF CampaignTypeOK, CampaignHistoryOK
  <2>5. EachChangeIsAnnounced /\ OnlyTheAudienceIsTold
    BY <2>1, <2>3 DEF EachChangeIsAnnounced, OnlyTheAudienceIsTold
  <2>6. QED
    BY <2>4, <2>5 DEF CampaignInit, CampaignIInv
<1>2. CampaignIInv /\ [CampaignNext]_campaignVars => CampaignIInv'
  <2> SUFFICES ASSUME CampaignIInv, [CampaignNext]_campaignVars PROVE CampaignIInv'
    OBVIOUS
  <2>1. CASE \/ UNCHANGED campaignVars
             \/ \E t \in SUBSET Agent : ChangeTeam(t)
             \/ \E e \in SUBSET Measure : ChangeApproved(e)
    <3>1. /\ UNCHANGED <<campaign, telling, told, forgotten, history>>
          /\ team' \in SUBSET Agent /\ approved' \in SUBSET Measure
      BY <2>1 DEF campaignVars, ChangeTeam, ChangeApproved, CampaignIInv
    <3>2. QED
      BY <3>1
      DEF CampaignIInv, CampaignTypeOK, CampaignHistoryOK, EachChangeIsAnnounced,
          OnlyTheAudienceIsTold
  <2>2. QED
    BY <2>1, CampaignChange, CampaignTell DEF CampaignNext
<1>3. QED
  BY <1>1, <1>2, PTL DEF CampaignSpec

\* The row has the shape the code gives it: an audience from the first change on, and
\* a result when it is closed.
THEOREM CampaignTypeCorrect == CampaignSpec => []CampaignTypeOK
  BY CampaignInvariance, PTL DEF CampaignIInv

\* Each change of status is announced to each member, or its request died.
THEOREM ChangesAnnounced == CampaignSpec => []EachChangeIsAnnounced
  BY CampaignInvariance, PTL DEF CampaignIInv

\* Nobody outside the audience is told, and nothing that did not happen.
THEOREM OnlyMembersTold == CampaignSpec => []OnlyTheAudienceIsTold
  BY CampaignInvariance, PTL DEF CampaignIInv

\* The audience is fixed from the first change on, and a closed campaign for good.
THEOREM CampaignSnapshots == CampaignSpec => SnapshotsStand
<1> DEFINE A == /\ campaign.audience # {} => campaign'.audience = campaign.audience
                /\ campaign.result # {} => campaign' = campaign
<1>1. ASSUME CampaignIInv, [CampaignNext]_campaignVars PROVE [A]_campaignVars
  <2>1. CASE UNCHANGED campaign
    BY <2>1
  <2>2. ASSUME NEW s \in CampaignStatus, Change(s) PROVE A
    <3>1. campaign.result = {}
      BY <1>1, <2>2, ChangedRow DEF CampaignIInv, CampaignTypeOK
    <3>2. QED
      BY <1>1, <2>2, <3>1, ChangedRow
  <2>3. CASE CampaignNext
    BY <2>1, <2>2, <2>3 DEF CampaignNext, Tell, Forget, ChangeTeam, ChangeApproved
  <2>4. QED
    BY <1>1, <2>3
<1>2. QED
  BY <1>1, CampaignInvariance, PTL DEF CampaignSpec, SnapshotsStand

\* The audience hears of every change, and nobody hears anything else.
THEOREM AudienceHears == CampaignSpec => []AudienceIsTold
  BY ChangesAnnounced, OnlyMembersTold, PTL DEF AudienceIsTold

-----------------------------------------------------------------------------
(* Case flow.                                                              *)

\* What a request carries at each of its steps.
CaseRequestOK(a) ==
    /\ action[a].at \in {"looking", "settling"} =>
            action[a].kind = "CONFLICT_RESOLUTION" /\ action[a].of \in Choice \cup {None}
    /\ action[a].at = "logging" =>
            [kind |-> action[a].kind, of |-> action[a].of] \in OverrideRow
    /\ action[a].at \in {"undoing", "reopened"} =>
            /\ action[a].which \in 1 .. Len(override)
            /\ action[a].kind = override[action[a].which].kind
    /\ action[a].at = "resolved" => action[a].of \in Route \cup {None}

\* Every request does.
CaseRequestsOK == \A a \in Actor : CaseRequestOK(a)

\* The override that answers for the choice is not about to be undone: its undo
\* opens the conflict first.
Logged(f) ==
    \E i \in (1 .. Len(override)) \ undone :
        /\ Chooses(i, f)
        /\ \A a \in Actor : action[a].at = "reopened" => action[a].which # i
ToBeLogged(f) == Recording("CONFLICT_RESOLUTION", f)
ConflictsAnswered ==
    conflict.status = "RESOLVED" =>
        \/ Logged(conflict.chosen) \/ ToBeLogged(conflict.chosen)
        \/ conflict.chosen \in lost

\* The requests since the case was last left alone have come one at a time,
Solo == ~crowded

\* or all of them have, and none has died halfway through an undo.
Unspoilt == ~overlapped /\ "reopened" \notin perished

Alone ==
    /\ Solo => \A a, b \in Actor : action[a] # NoAction /\ action[b] # NoAction => a = b
    /\ crowded => overlapped

\* The overrides that settled a conflict and were not undone.
Standing == {i \in (1 .. Len(override)) \ undone : override[i].kind = "CONFLICT_RESOLUTION"}
Settled ==
    /\ conflict.status = "OPEN" => Standing = {}
    /\ conflict.status = "RESOLVED" =>
            \/ \E i \in Standing : Standing = {i}
            \/ Standing = {} /\ conflict.chosen \in lost

\* Between the conflict and its entry in the log.
Between(a) == action[a].at \in {"logging", "reopened"} /\ action[a].kind = "CONFLICT_RESOLUTION"

\* Where the one request there is has got to.
PositionOK(a) ==
    /\ action[a].at \in {"looking", "settling"} => conflict.status = "OPEN"
    /\ action[a].at = "logging" /\ Between(a) =>
            conflict.status = "RESOLVED" /\ conflict.chosen = action[a].of /\ Standing = {}
    /\ action[a].at = "reopened" /\ Between(a) =>
            conflict.status = "OPEN" /\ Standing = {action[a].which}
    /\ action[a].at = "undoing" => action[a].which \notin undone

Balance ==
    Unspoilt =>
        /\ (\A a \in Actor : ~Between(a)) => Settled
        /\ \A a \in Actor : PositionOK(a)

\* A resolution follows the newest correction that stands, and rests on the facts
\* not taken back.
Follows(by, uses) ==
    /\ by # 0 => ActiveCorrection(by)
    /\ by = 0 => \A i \in 1 .. Len(override) : ~ActiveCorrection(i)
    /\ uses = Usable

\* What an action concluded follows from what it read.
Concluded(a) == action[a].at = "resolved" => Follows(action[a].which, action[a].uses)
Conclusions ==
    Solo =>
        /\ (\A a \in Actor : action[a] = NoAction) /\ current =>
                Follows(resolution.by, resolution.uses)
        /\ \A a \in Actor : Concluded(a)

\* The inductive invariant of a case.
CaseIInv ==
    /\ CaseTypeOK /\ CaseRequestsOK
    /\ ConflictsAnswered /\ FactIsAnswered
    /\ Alone /\ Balance /\ Conclusions

\* The initial state satisfies the invariant.
LEMMA CaseInitIInv == CaseInit => CaseIInv
<1> SUFFICES ASSUME CaseInit PROVE CaseIInv
  OBVIOUS
<1>1. CaseTypeOK
  <2>1. /\ conflict \in Conflict /\ resolution \in Resolution
        /\ manual \subseteq Manual /\ override \in Seq(OverrideRow)
        /\ undone \subseteq 1 .. Len(override)
        /\ action \in [Actor -> ActionRow \cup {NoAction}]
    BY DEF CaseInit, Conflict, Resolution
  <2>2. overlapped \in BOOLEAN /\ crowded \in BOOLEAN /\ current \in BOOLEAN
    BY Zenon DEF CaseInit
  <2>3. lost \subseteq Choice \cup Manual \cup {None} /\ perished \subseteq {"logging", "reopened"}
    BY DEF CaseInit
  <2>4. QED
    BY <2>1, <2>2, <2>3 DEF CaseTypeOK
<1>2. CaseRequestsOK /\ ConflictsAnswered /\ FactIsAnswered /\ Alone
  BY DEF CaseInit, CaseRequestsOK, CaseRequestOK, NoAction, ConflictsAnswered, FactIsAnswered, Alone
<1>3. Standing = {}
  BY DEF CaseInit, Standing
<1>4. Balance
  BY <1>3 DEF CaseInit, Balance, Settled, PositionOK, Between, NoAction
<1>5. Conclusions
  BY DEF CaseInit, Conclusions, Concluded, NoAction
<1>6. QED
  BY <1>1, <1>2, <1>4, <1>5 DEF CaseIInv

-----------------------------------------------------------------------------
\* A request moves on, the others stay.
LEMMA MovesOne ==
    ASSUME CaseTypeOK, NEW a \in Actor,
           NEW at \in {"looking", "settling", "logging", "undoing", "reopened", "resolving",
                       "resolved"},
           NEW kind \in {"CONFLICT_RESOLUTION", "MANUAL_EVIDENCE", "FLOW_CLASSIFICATION", "none"},
           NEW of \in Choice \cup Manual \cup Route \cup {None}, NEW which \in Nat,
           NEW uses \in SUBSET Manual,
           Moves(a, at, kind, of, which, uses)
    PROVE  /\ action' \in [Actor -> ActionRow \cup {NoAction}]
           /\ action'[a] # NoAction
           /\ action'[a].at = at /\ action'[a].kind = kind /\ action'[a].of = of
           /\ action'[a].which = which /\ action'[a].uses = uses
           /\ \A b \in Actor : b # a => action'[b] = action[b]
<1> DEFINE row == [at |-> at, kind |-> kind, of |-> of, which |-> which, uses |-> uses]
<1>1. row \in ActionRow
  BY DEF ActionRow
<1>2. /\ row.at = at /\ row.kind = kind /\ row.of = of /\ row.which = which /\ row.uses = uses
  OBVIOUS
<1>3. row # NoAction
  BY DEF NoAction
<1>4. action' = [action EXCEPT ![a] = row]
  BY DEF Moves
<1> HIDE DEF row
<1>5. QED
  BY <1>1, <1>2, <1>3, <1>4 DEF CaseTypeOK

\* A request ends.
LEMMA ReturnsOne ==
    ASSUME CaseTypeOK, NEW a \in Actor, Returns(a)
    PROVE  /\ action' \in [Actor -> ActionRow \cup {NoAction}]
           /\ action'[a] = NoAction
           /\ \A b \in Actor : b # a => action'[b] = action[b]
  BY DEF CaseTypeOK, Returns

\* The fields of a request under way.
LEMMA ActionShape ==
    ASSUME CaseTypeOK, NEW a \in Actor, action[a] # NoAction
    PROVE  /\ action[a].at \in {"looking", "settling", "logging", "undoing", "reopened",
                                "resolving", "resolved"}
           /\ action[a].kind \in {"CONFLICT_RESOLUTION", "MANUAL_EVIDENCE", "FLOW_CLASSIFICATION",
                                  "none"}
           /\ action[a].of \in Choice \cup Manual \cup Route \cup {None}
           /\ action[a].which \in Nat
           /\ action[a].uses \in SUBSET Manual
  BY DEF CaseTypeOK, ActionRow

\* An action under way is an action.
LEMMA Busy ==
    ASSUME NEW a \in Actor, action[a].at # "idle"
    PROVE  action[a] # NoAction
  BY DEF NoAction

\* The one who moves is the only one under way, before and after.
OnlyMover(a) ==
    /\ Solo' => \A b \in Actor : b # a => action[b] = NoAction /\ action'[b] = NoAction
    /\ Unspoilt' => Unspoilt /\ Solo'
    /\ crowded' => overlapped'

\* An action that opens while others are left alone,
LEMMA OpensAlone ==
    ASSUME NEW a \in Actor, Opens(a), \A b \in Actor : b # a => action'[b] = action[b]
    PROVE  OnlyMover(a)
<1>1. perished' = perished /\ crowded' = Others(a) /\ overlapped' = (overlapped \/ Others(a))
  BY DEF Opens
<1>2. /\ ~crowded' => \A b \in Actor \ {a} : action[b] = NoAction
      /\ ~overlapped' => ~overlapped /\ ~crowded'
      /\ crowded' => overlapped'
  BY <1>1, Zenon DEF Others
<1>3. QED
  BY <1>1, <1>2 DEF OnlyMover, Solo, Unspoilt

\* or one that goes on, is the only one that moves.
LEMMA StepsAlone ==
    ASSUME Alone, NEW a \in Actor, action[a] # NoAction,
           UNCHANGED <<overlapped, crowded>>, perished \subseteq perished',
           \A b \in Actor : b # a => action'[b] = action[b]
    PROVE  OnlyMover(a) /\ (Solo' => Solo)
  BY DEF OnlyMover, Solo, Unspoilt, Alone

\* What remains to be shown of a step when its request is the only one.
LEMMA SoloStep ==
    ASSUME NEW a \in Actor, OnlyMover(a),
           Unspoilt' => (~Between(a)' => Settled') /\ PositionOK(a)',
           Solo' => /\ Concluded(a)'
                    /\ action'[a] = NoAction /\ current' => Follows(resolution.by, resolution.uses)'
    PROVE  Alone' /\ Balance' /\ Conclusions'
<1>1. ASSUME Solo' PROVE \A b \in Actor : b # a => action'[b] = NoAction
  BY <1>1 DEF OnlyMover
<1>2. ASSUME Solo' PROVE \A b \in Actor : b # a => ~Between(b)' /\ PositionOK(b)' /\ Concluded(b)'
  BY <1>1, <1>2 DEF Between, PositionOK, Concluded, NoAction
<1>3. Alone'
  BY <1>1 DEF OnlyMover, Alone
<1>4. Balance'
  BY <1>2 DEF OnlyMover, Balance
<1>5. Conclusions'
  BY <1>2 DEF Conclusions
<1>6. QED
  BY <1>3, <1>4, <1>5

\* The facts in the log stay there, and those about to be are about to be.
LEMMA FactsStay ==
    ASSUME CaseIInv, NEW a \in Actor, action[a].at # "logging",
           UNCHANGED <<manual, override>>, lost \cap Manual \subseteq lost',
           \A b \in Actor : b # a => action'[b] = action[b]
    PROVE  FactIsAnswered'
<1>1. SUFFICES ASSUME NEW m \in manual
               PROVE  \/ \E i \in 1 .. Len(override) : Names(i, "MANUAL_EVIDENCE", m)'
                      \/ Recording("MANUAL_EVIDENCE", m)' \/ m \in lost'
  BY DEF FactIsAnswered
<1>2. m \in Manual
  BY DEF CaseIInv, CaseTypeOK
<1>3. CASE \E i \in 1 .. Len(override) : Names(i, "MANUAL_EVIDENCE", m)
  BY <1>3 DEF Names
<1>4. CASE Recording("MANUAL_EVIDENCE", m)
  BY <1>4 DEF Recording
<1>5. CASE m \in lost
  BY <1>2, <1>5
<1>6. QED
  BY <1>3, <1>4, <1>5 DEF CaseIInv, FactIsAnswered

\* Nothing of the log changes.
LEMMA LogUnchanged ==
    ASSUME UNCHANGED <<override, undone>>
    PROVE  Standing' = Standing
  BY DEF Standing

-----------------------------------------------------------------------------
(* Each action keeps the invariant.                                        *)

\* A new request that has read: what it carries is as the code computes it, and
\* it has not disturbed the conflict.
LEMMA BeginIInv ==
    ASSUME CaseIInv, NEW a \in Actor, Opens(a), manual' \subseteq Manual,
           action' \in [Actor -> ActionRow \cup {NoAction}],
           \A b \in Actor : b # a => action'[b] = action[b],
           action'[a] # NoAction, CaseRequestOK(a)',
           action'[a].at \in {"looking", "logging", "undoing", "resolving"},
           action'[a].at = "looking" => conflict.status = "OPEN",
           action'[a].at = "logging" => action'[a].kind # "CONFLICT_RESOLUTION",
           action'[a].at = "undoing" => action'[a].which \notin undone,
           FactIsAnswered'
    PROVE  CaseIInv'
<1>1. /\ UNCHANGED <<conflict, override, undone, resolution, lost, perished, current>>
      /\ action[a] = NoAction
  BY DEF Opens
<1>2. CaseTypeOK'
  <2>1. overlapped' \in BOOLEAN /\ crowded' \in BOOLEAN
    BY Zenon DEF Opens, Others, CaseIInv, CaseTypeOK
  <2>2. QED
    BY <1>1, <2>1 DEF CaseIInv, CaseTypeOK
<1>3. CaseRequestsOK'
  BY <1>1 DEF CaseIInv, CaseRequestsOK, CaseRequestOK
<1>4. ConflictsAnswered'
  BY <1>1 DEF CaseIInv, ConflictsAnswered, Logged, ToBeLogged, Recording, Chooses, Names, NoAction
<1>5. OnlyMover(a)
  BY OpensAlone
<1>6. ASSUME Unspoilt' PROVE Settled' /\ PositionOK(a)'
  <2>1. Unspoilt /\ \A b \in Actor : ~Between(b)
    BY <1>1, <1>5, <1>6 DEF OnlyMover, Between, NoAction
  <2>2. Settled
    BY <2>1 DEF CaseIInv, Balance
  <2>3. Settled'
    BY <1>1, <2>2, LogUnchanged DEF Settled
  <2>4. QED
    BY <1>1, <2>3 DEF PositionOK, Between
<1>7. Alone' /\ Balance' /\ Conclusions'
  BY <1>5, <1>6, SoloStep DEF Concluded
<1>8. QED
  BY <1>2, <1>3, <1>4, <1>7 DEF CaseIInv

\* Somebody begins to settle a conflict,
LEMMA BeginSettleIInv ==
    ASSUME CaseIInv, NEW a \in Actor, BeginSettle(a)
    PROVE  CaseIInv'
<1>1. PICK f \in Choice \cup {None} : Moves(a, "looking", "CONFLICT_RESOLUTION", f, 0, {})
  BY DEF BeginSettle
<1>2. Opens(a) /\ manual' \subseteq Manual /\ conflict.status = "OPEN"
  BY DEF BeginSettle, CaseIInv, CaseTypeOK
<1>3. /\ action' \in [Actor -> ActionRow \cup {NoAction}] /\ action'[a] # NoAction
      /\ action'[a].at = "looking" /\ action'[a].kind = "CONFLICT_RESOLUTION"
      /\ action'[a].of = f
      /\ \A b \in Actor : b # a => action'[b] = action[b]
  BY <1>1, MovesOne DEF CaseIInv
<1>4. CaseRequestOK(a)'
  BY <1>3 DEF CaseRequestOK
<1>f. FactIsAnswered'
  <2>1. UNCHANGED <<manual, override, lost>> /\ action[a].at # "logging"
    BY DEF BeginSettle, Opens, NoAction
  <2>2. QED
    BY <1>3, <2>1, FactsStay
<1>5. QED
  BY <1>2, <1>3, <1>4, <1>f, BeginIInv

\* to enter evidence by hand,
LEMMA BeginEvidenceIInv ==
    ASSUME CaseIInv, NEW a \in Actor, NEW m \in Manual, BeginEvidence(a, m)
    PROVE  CaseIInv'
<1>1. Moves(a, "logging", "MANUAL_EVIDENCE", m, 0, {}) /\ Opens(a) /\ manual' \subseteq Manual
  BY DEF BeginEvidence, CaseIInv, CaseTypeOK
<1>2. /\ action' \in [Actor -> ActionRow \cup {NoAction}] /\ action'[a] # NoAction
      /\ action'[a].at = "logging" /\ action'[a].kind = "MANUAL_EVIDENCE"
      /\ action'[a].of = m
      /\ \A b \in Actor : b # a => action'[b] = action[b]
  BY <1>1, MovesOne DEF CaseIInv
<1>3. CaseRequestOK(a)'
  BY <1>2 DEF CaseRequestOK, OverrideRow
<1>4. FactIsAnswered'
  <2>1. manual' = manual \cup {m} /\ UNCHANGED <<override, lost>> /\ action[a] = NoAction
    BY DEF BeginEvidence, Opens
  <2>2. Recording("MANUAL_EVIDENCE", m)'
    BY <1>2 DEF Recording
  <2>3. \A f \in manual : Recording("MANUAL_EVIDENCE", f) => Recording("MANUAL_EVIDENCE", f)'
    BY <1>2, <2>1 DEF Recording, NoAction
  <2>4. QED
    BY <2>1, <2>2, <2>3 DEF CaseIInv, FactIsAnswered, Names
<1>5. QED
  BY <1>1, <1>2, <1>3, <1>4, BeginIInv

\* to choose another flow,
LEMMA BeginRerouteIInv ==
    ASSUME CaseIInv, NEW a \in Actor, BeginReroute(a)
    PROVE  CaseIInv'
<1>1. PICK r \in Route : Moves(a, "logging", "FLOW_CLASSIFICATION", r, 0, {})
  BY DEF BeginReroute
<1>2. Opens(a) /\ manual' \subseteq Manual
  BY DEF BeginReroute, CaseIInv, CaseTypeOK
<1>3. /\ action' \in [Actor -> ActionRow \cup {NoAction}] /\ action'[a] # NoAction
      /\ action'[a].at = "logging" /\ action'[a].kind = "FLOW_CLASSIFICATION"
      /\ action'[a].of = r
      /\ \A b \in Actor : b # a => action'[b] = action[b]
  BY <1>1, MovesOne DEF CaseIInv
<1>4. CaseRequestOK(a)'
  BY <1>3 DEF CaseRequestOK, OverrideRow
<1>f. FactIsAnswered'
  <2>1. UNCHANGED <<manual, override, lost>> /\ action[a].at # "logging"
    BY DEF BeginReroute, Opens, NoAction
  <2>2. QED
    BY <1>3, <2>1, FactsStay
<1>5. QED
  BY <1>2, <1>3, <1>4, <1>f, BeginIInv

\* or to resolve the case.
LEMMA BeginResolveIInv ==
    ASSUME CaseIInv, NEW a \in Actor, BeginResolve(a)
    PROVE  CaseIInv'
<1>1. Moves(a, "resolving", "none", None, 0, {}) /\ Opens(a) /\ manual' \subseteq Manual
  BY DEF BeginResolve, CaseIInv, CaseTypeOK
<1>2. /\ action' \in [Actor -> ActionRow \cup {NoAction}] /\ action'[a] # NoAction
      /\ action'[a].at = "resolving"
      /\ \A b \in Actor : b # a => action'[b] = action[b]
  BY <1>1, MovesOne DEF CaseIInv
<1>3. CaseRequestOK(a)'
  BY <1>2 DEF CaseRequestOK
<1>f. FactIsAnswered'
  <2>1. UNCHANGED <<manual, override, lost>> /\ action[a].at # "logging"
    BY DEF BeginResolve, Opens, NoAction
  <2>2. QED
    BY <1>2, <2>1, FactsStay
<1>4. QED
  BY <1>1, <1>2, <1>3, <1>f, BeginIInv

\* An entry of the log, field by field.
LEMMA OverrideShape ==
    ASSUME CaseTypeOK, NEW i \in 1 .. Len(override)
    PROVE  /\ override[i] \in OverrideRow
           /\ override[i].kind \in {"CONFLICT_RESOLUTION", "MANUAL_EVIDENCE", "FLOW_CLASSIFICATION"}
<1>1. override[i] \in OverrideRow
  BY DEF CaseTypeOK
<1>2. QED
  BY <1>1 DEF OverrideRow

\* Somebody begins to undo an override.
LEMMA BeginUndoIInv ==
    ASSUME CaseIInv, NEW a \in Actor, NEW i \in 1 .. MaxOverride, BeginUndo(a, i)
    PROVE  CaseIInv'
<1>1. /\ i \in 1 .. Len(override) /\ i \notin undone
      /\ Moves(a, "undoing", override[i].kind, None, i, {}) /\ Opens(a) /\ manual' \subseteq Manual
  BY DEF BeginUndo, Undoable, CaseIInv, CaseTypeOK
<1>2. /\ override[i].kind \in {"CONFLICT_RESOLUTION", "MANUAL_EVIDENCE", "FLOW_CLASSIFICATION",
                               "none"}
      /\ i \in Nat
  BY <1>1, OverrideShape DEF CaseIInv
<1>3. /\ action' \in [Actor -> ActionRow \cup {NoAction}] /\ action'[a] # NoAction
      /\ action'[a].at = "undoing" /\ action'[a].which = i
      /\ action'[a].kind = override[i].kind
      /\ \A b \in Actor : b # a => action'[b] = action[b]
  BY <1>1, <1>2, MovesOne DEF CaseIInv
<1>4. UNCHANGED override
  BY <1>1 DEF Opens
<1>5. CaseRequestOK(a)'
  BY <1>1, <1>3, <1>4 DEF CaseRequestOK
<1>f. FactIsAnswered'
  <2>1. UNCHANGED <<manual, override, lost>> /\ action[a].at # "logging"
    BY DEF BeginUndo, Opens, NoAction
  <2>2. QED
    BY <1>3, <2>1, FactsStay
<1>6. QED
  BY <1>1, <1>3, <1>5, <1>f, BeginIInv

\* A request that only reads on.
LEMMA LookAgainIInv ==
    ASSUME CaseIInv, NEW a \in Actor, LookAgain(a)
    PROVE  CaseIInv'
<1> DEFINE next == IF conflict.status = "RESOLVED" THEN "logging" ELSE "settling"
<1>1. /\ action[a].at = "looking"
      /\ Moves(a, next, action[a].kind, action[a].of, 0, {})
      /\ UNCHANGED <<conflict, manual, override, undone, resolution, overlapped, crowded, lost,
                     perished, current>>
  BY DEF LookAgain
<1>2. action[a] # NoAction
  BY <1>1, Busy
<1>3. /\ action[a].kind = "CONFLICT_RESOLUTION" /\ action[a].of \in Choice \cup {None}
  BY <1>1 DEF CaseIInv, CaseRequestsOK, CaseRequestOK
<1>4. next \in {"settling", "logging"}
  OBVIOUS
<1>5. /\ action' \in [Actor -> ActionRow \cup {NoAction}] /\ action'[a] # NoAction
      /\ action'[a].at = next /\ action'[a].kind = "CONFLICT_RESOLUTION"
      /\ action'[a].of = action[a].of
      /\ \A b \in Actor : b # a => action'[b] = action[b]
  BY <1>1, <1>3, <1>4, MovesOne DEF CaseIInv
<1>6. CaseTypeOK'
  BY <1>1, <1>5 DEF CaseIInv, CaseTypeOK
<1>7. CaseRequestsOK'
  BY <1>1, <1>3, <1>4, <1>5 DEF CaseIInv, CaseRequestsOK, CaseRequestOK, OverrideRow
<1>8. ConflictsAnswered'
  <2>1. action'[a].at # "reopened" /\ action[a].at # "logging"
    BY <1>1, <1>4, <1>5
  <2>2. QED
    BY <1>1, <1>5, <2>1 DEF CaseIInv, ConflictsAnswered, Logged, ToBeLogged, Recording, Chooses, Names
<1>f. FactIsAnswered'
  BY <1>1, <1>5, FactsStay
<1>9. OnlyMover(a)
  BY <1>1, <1>2, <1>5, StepsAlone DEF CaseIInv
<1>10. ASSUME Unspoilt' PROVE Settled' /\ PositionOK(a)'
  <2>1. Unspoilt /\ (\A b \in Actor : ~Between(b)) /\ conflict.status = "OPEN"
    BY <1>1, <1>9, <1>10 DEF OnlyMover, Between, NoAction, CaseIInv, Balance, PositionOK
  <2>2. Settled
    BY <2>1 DEF CaseIInv, Balance
  <2>3. Settled'
    BY <1>1, <2>2, LogUnchanged DEF Settled
  <2>4. action'[a].at = "settling"
    BY <1>5, <2>1
  <2>5. QED
    BY <1>1, <2>1, <2>3, <2>4 DEF PositionOK, Between
<1>11. Alone' /\ Balance' /\ Conclusions'
  BY <1>4, <1>5, <1>9, <1>10, SoloStep DEF Concluded
<1>12. QED
  BY <1>6, <1>7, <1>8, <1>f, <1>11 DEF CaseIInv

\* The conflict is settled, and then logged:
LEMMA SettleConflictIInv ==
    ASSUME CaseIInv, NEW a \in Actor, SettleConflict(a)
    PROVE  CaseIInv'
<1>1. /\ action[a].at = "settling"
      /\ conflict' = [status |-> "RESOLVED", chosen |-> action[a].of]
      /\ lost' = lost \cap Manual
      /\ Moves(a, "logging", action[a].kind, action[a].of, 0, {})
      /\ UNCHANGED <<manual, override, undone, resolution, overlapped, crowded, perished, current>>
  BY DEF SettleConflict, Writes
<1>2. action[a] # NoAction
  BY <1>1, Busy
<1>3. action[a].kind = "CONFLICT_RESOLUTION" /\ action[a].of \in Choice \cup {None}
  BY <1>1 DEF CaseIInv, CaseRequestsOK, CaseRequestOK
<1>4. /\ action' \in [Actor -> ActionRow \cup {NoAction}] /\ action'[a] # NoAction
      /\ action'[a].at = "logging" /\ action'[a].kind = "CONFLICT_RESOLUTION"
      /\ action'[a].of = action[a].of
      /\ \A b \in Actor : b # a => action'[b] = action[b]
  BY <1>1, <1>3, MovesOne DEF CaseIInv
<1>5. CaseTypeOK'
  <2>1. conflict' \in Conflict
    BY <1>1, <1>3 DEF Conflict
  <2>2. QED
    BY <1>1, <1>4, <2>1 DEF CaseIInv, CaseTypeOK
<1>6. CaseRequestsOK'
  BY <1>1, <1>3, <1>4 DEF CaseIInv, CaseRequestsOK, CaseRequestOK, OverrideRow
<1>7. conflict'.status = "RESOLVED" /\ conflict'.chosen = action[a].of
  BY <1>1
<1>8. ConflictsAnswered'
  BY <1>4, <1>7 DEF ConflictsAnswered, ToBeLogged, Recording
<1>f. FactIsAnswered'
  BY <1>1, <1>4, FactsStay
<1>9. OnlyMover(a)
  BY <1>1, <1>2, <1>4, StepsAlone DEF CaseIInv
<1>10. ASSUME Unspoilt' PROVE Between(a)' /\ PositionOK(a)'
  <2>1. Unspoilt /\ (\A b \in Actor : ~Between(b)) /\ conflict.status = "OPEN"
    BY <1>1, <1>9, <1>10 DEF OnlyMover, Between, NoAction, CaseIInv, Balance, PositionOK
  <2>2. Standing' = {}
    BY <1>1, <2>1, LogUnchanged DEF CaseIInv, Balance, Settled
  <2>3. QED
    BY <1>4, <1>7, <2>2 DEF PositionOK, Between
<1>11. Alone' /\ Balance' /\ Conclusions'
  BY <1>4, <1>9, <1>10, SoloStep DEF Concluded
<1>12. QED
  BY <1>5, <1>6, <1>8, <1>f, <1>11 DEF CaseIInv

\* How a request that has recorded something goes on.
LEMMA ConcludesOne ==
    ASSUME CaseTypeOK, NEW a \in Actor, Concludes(a)
    PROVE  /\ action' \in [Actor -> ActionRow \cup {NoAction}]
           /\ current' \in BOOLEAN
           /\ action'[a].at \in {"resolving", "idle"}
           /\ action'[a] = NoAction => ~current'
           /\ \A b \in Actor : b # a => action'[b] = action[b]
<1>1. CASE Moves(a, "resolving", "none", None, 0, {}) /\ UNCHANGED current
  <2>1. /\ action' \in [Actor -> ActionRow \cup {NoAction}] /\ action'[a] # NoAction
        /\ action'[a].at = "resolving"
        /\ \A b \in Actor : b # a => action'[b] = action[b]
    <3>1. Moves(a, "resolving", "none", None, 0, {})
      BY <1>1
    <3>2. QED
      BY <3>1, MovesOne
  <2>2. current' \in BOOLEAN
    BY <1>1, Zenon DEF CaseTypeOK
  <2>3. QED
    BY <2>1, <2>2
<1>2. CASE Returns(a) /\ current' = FALSE
  <2>1. /\ action' \in [Actor -> ActionRow \cup {NoAction}] /\ action'[a] = NoAction
        /\ \A b \in Actor : b # a => action'[b] = action[b]
    BY <1>2, ReturnsOne
  <2>2. action'[a].at = "idle"
    BY <2>1 DEF NoAction
  <2>3. current' \in BOOLEAN /\ ~current'
    BY <1>2, Zenon
  <2>4. QED
    BY <2>1, <2>2, <2>3
<1>3. QED
  BY <1>1, <1>2 DEF Concludes

\* A row more in the log.
LEMMA AppendRow ==
    ASSUME CaseTypeOK, NEW row \in OverrideRow, override' = Append(override, row)
    PROVE  /\ override' \in Seq(OverrideRow)
           /\ Len(override) \in Nat
           /\ Len(override') = Len(override) + 1
           /\ override'[Len(override) + 1] = row
           /\ \A i \in 1 .. Len(override) : override'[i] = override[i]
  BY DEF CaseTypeOK

\* the override is added to the log.
LEMMA LogOverrideIInv ==
    ASSUME CaseIInv, NEW a \in Actor, LogOverride(a)
    PROVE  CaseIInv'
<1> DEFINE row == [kind |-> action[a].kind, of |-> action[a].of]
<1>1. /\ action[a].at = "logging" /\ override' = Append(override, row) /\ Concludes(a)
      /\ UNCHANGED <<conflict, manual, undone, resolution, overlapped, crowded, lost, perished>>
  BY DEF LogOverride
<1>2. action[a] # NoAction
  BY <1>1, Busy
<1>3. row \in OverrideRow /\ row.kind = action[a].kind
  BY <1>1 DEF CaseIInv, CaseRequestsOK, CaseRequestOK
<1> HIDE DEF row
<1>n. PICK n : n = Len(override) + 1
  OBVIOUS
<1>4. /\ override' \in Seq(OverrideRow) /\ Len(override) \in Nat /\ Len(override') = n
      /\ n = Len(override) + 1
      /\ override'[n] = row
      /\ \A i \in 1 .. Len(override) : override'[i] = override[i]
  BY <1>1, <1>3, <1>n, AppendRow DEF CaseIInv
<1>5. /\ action' \in [Actor -> ActionRow \cup {NoAction}] /\ current' \in BOOLEAN
      /\ action'[a].at \in {"resolving", "idle"} /\ (action'[a] = NoAction => ~current')
      /\ \A b \in Actor : b # a => action'[b] = action[b]
  BY <1>1, ConcludesOne DEF CaseIInv
<1>6. undone \subseteq 1 .. Len(override)
  BY DEF CaseIInv, CaseTypeOK
<1>7. CaseTypeOK'
  <2>1. undone' \subseteq 1 .. Len(override')
    BY <1>1, <1>4, <1>6
  <2>2. QED
    BY <1>1, <1>4, <1>5, <2>1 DEF CaseIInv, CaseTypeOK
<1>8. CaseRequestsOK'
  <2>1. CaseRequestOK(a)'
    BY <1>5 DEF CaseRequestOK
  <2>2. ASSUME NEW b \in Actor, b # a PROVE CaseRequestOK(b)'
    <3>1. CaseRequestOK(b) /\ action'[b] = action[b]
      BY <1>5, <2>2 DEF CaseIInv, CaseRequestsOK
    <3>2. QED
      BY <1>4, <3>1 DEF CaseRequestOK
  <2>3. QED
    BY <2>1, <2>2 DEF CaseRequestsOK
<1>9. ConflictsAnswered'
  <2>1. SUFFICES ASSUME conflict.status = "RESOLVED", conflict.chosen \notin lost
                 PROVE  Logged(conflict.chosen)' \/ ToBeLogged(conflict.chosen)'
    BY <1>1 DEF ConflictsAnswered, Logged, ToBeLogged, Recording, Chooses, Names
  <2>2. CASE Logged(conflict.chosen)
    <3>1. PICK i \in (1 .. Len(override)) \ undone :
                /\ Chooses(i, conflict.chosen)
                /\ \A b \in Actor : action[b].at = "reopened" => action[b].which # i
      BY <2>2 DEF Logged
    <3>2. i \in (1 .. Len(override')) \ undone' /\ Chooses(i, conflict.chosen)'
      BY <1>1, <1>4, <3>1 DEF Chooses, Names
    <3>3. \A b \in Actor : action'[b].at = "reopened" => action'[b].which # i
      BY <1>5, <3>1
    <3>4. QED
      BY <3>2, <3>3 DEF Logged
  <2>3. CASE ToBeLogged(conflict.chosen)
    <3>1. PICK b \in Actor : /\ action[b].at = "logging"
                             /\ action[b].kind = "CONFLICT_RESOLUTION"
                             /\ action[b].of = conflict.chosen
      BY <2>3 DEF ToBeLogged, Recording
    <3>2. CASE b # a
      BY <1>1, <1>5, <3>1, <3>2 DEF ToBeLogged, Recording
    <3>3. CASE b = a
      <4>1. n \in (1 .. Len(override')) \ undone'
        BY <1>1, <1>4, <1>6
      <4>2. Chooses(n, conflict.chosen)'
        <5>1. row = [kind |-> "CONFLICT_RESOLUTION", of |-> conflict.chosen]
          BY <3>1, <3>3 DEF row
        <5>2. QED
          BY <1>1, <1>4, <5>1 DEF Chooses, Names
      <4>3. ASSUME NEW c \in Actor, action'[c].at = "reopened" PROVE action'[c].which # n
        <5>1. c # a /\ action[c].at = "reopened" /\ action'[c] = action[c]
          BY <1>5, <4>3
        <5>2. action[c].which \in 1 .. Len(override)
          BY <5>1 DEF CaseIInv, CaseRequestsOK, CaseRequestOK
        <5>3. QED
          BY <1>4, <5>1, <5>2
      <4>4. QED
        BY <4>1, <4>2, <4>3 DEF Logged
    <3>4. QED
      BY <3>2, <3>3
  <2>4. QED
    BY <2>1, <2>2, <2>3 DEF CaseIInv, ConflictsAnswered
<1>f. FactIsAnswered'
  <2>1. SUFFICES ASSUME NEW m \in manual
                 PROVE  \/ \E i \in 1 .. Len(override') : Names(i, "MANUAL_EVIDENCE", m)'
                        \/ Recording("MANUAL_EVIDENCE", m)' \/ m \in lost'
    BY <1>1 DEF FactIsAnswered
  <2>2. CASE \E i \in 1 .. Len(override) : Names(i, "MANUAL_EVIDENCE", m)
    <3>1. PICK i \in 1 .. Len(override) : Names(i, "MANUAL_EVIDENCE", m)
      BY <2>2
    <3>2. i \in 1 .. Len(override') /\ override'[i] = override[i]
      BY <1>4, <3>1
    <3>3. QED
      BY <3>1, <3>2 DEF Names
  <2>3. CASE Recording("MANUAL_EVIDENCE", m)
    <3>1. PICK b \in Actor : /\ action[b].at = "logging" /\ action[b].kind = "MANUAL_EVIDENCE"
                             /\ action[b].of = m
      BY <2>3 DEF Recording
    <3>2. CASE b # a
      BY <1>5, <3>1, <3>2 DEF Recording
    <3>3. CASE b = a
      <4>1. row = [kind |-> "MANUAL_EVIDENCE", of |-> m] /\ n \in 1 .. Len(override')
        BY <1>4, <3>1, <3>3 DEF row
      <4>2. QED
        BY <1>4, <4>1 DEF Names
    <3>4. QED
      BY <3>2, <3>3
  <2>4. QED
    BY <1>1, <2>2, <2>3 DEF CaseIInv, FactIsAnswered
<1>10. OnlyMover(a)
  BY <1>1, <1>2, <1>5, StepsAlone DEF CaseIInv
<1>11. ASSUME Unspoilt' PROVE Settled' /\ PositionOK(a)'
  <2>1. Unspoilt /\ \A b \in Actor : b # a => ~Between(b)
    BY <1>10, <1>11 DEF OnlyMover, Between, NoAction
  <2>2. PositionOK(a)'
    BY <1>5 DEF PositionOK, Between
  <2>3. \A i : i \in (1 .. Len(override')) \ undone' <=>
                i = n \/ i \in (1 .. Len(override)) \ undone
    BY <1>1, <1>4, <1>6
  <2>4. CASE action[a].kind = "CONFLICT_RESOLUTION"
    <3>1. conflict.status = "RESOLVED" /\ Standing = {}
      BY <1>1, <2>1, <2>4 DEF CaseIInv, Balance, PositionOK, Between
    <3>2. Standing' = {n}
      BY <1>3, <1>4, <2>3, <2>4, <3>1 DEF Standing
    <3>3. QED
      BY <1>1, <2>2, <3>1, <3>2 DEF Settled
  <2>5. CASE action[a].kind # "CONFLICT_RESOLUTION"
    <3>1. Settled
      BY <2>1, <2>5 DEF CaseIInv, Balance, Between
    <3>2. Standing' = Standing
      BY <1>3, <1>4, <2>3, <2>5 DEF Standing
    <3>3. QED
      BY <1>1, <2>2, <3>1, <3>2 DEF Settled
  <2>6. QED
    BY <2>4, <2>5
<1>12. Alone' /\ Balance' /\ Conclusions'
  BY <1>5, <1>10, <1>11, SoloStep DEF Concluded
<1>13. QED
  BY <1>7, <1>8, <1>9, <1>f, <1>12 DEF CaseIInv

\* What a request that ends before it has recorded leaves behind.
LEMMA UnrecordedShape ==
    ASSUME CaseTypeOK, CaseRequestsOK, NEW a \in Actor
    PROVE  /\ Unrecorded(a) \subseteq Choice \cup Manual \cup {None}
           /\ action[a].at = "logging" /\ action[a].kind # "FLOW_CLASSIFICATION" =>
                action[a].of \in Unrecorded(a)
<1>1. ASSUME action[a].at = "logging", action[a].kind # "FLOW_CLASSIFICATION"
      PROVE  action[a].of \in Choice \cup Manual \cup {None}
  <2>1. [kind |-> action[a].kind, of |-> action[a].of] \in OverrideRow
    BY <1>1 DEF CaseRequestsOK, CaseRequestOK
  <2>2. QED
    BY <1>1, <2>1 DEF OverrideRow
<1>2. QED
  BY <1>1 DEF Unrecorded

\* A request ends, having recorded or lost what it had written.
LEMMA EndsEarly ==
    ASSUME CaseIInv, NEW a \in Actor, action[a] # NoAction, Returns(a),
           lost' = lost \cup Unrecorded(a), ~current', current' \in BOOLEAN,
           perished \subseteq perished', perished' \subseteq {"logging", "reopened"},
           action[a].at = "reopened" /\ Between(a) => "reopened" \in perished',
           UNCHANGED <<conflict, manual, override, undone, resolution, overlapped, crowded>>
    PROVE  CaseIInv'
<1>1. /\ action' \in [Actor -> ActionRow \cup {NoAction}] /\ action'[a] = NoAction
      /\ \A b \in Actor : b # a => action'[b] = action[b]
  BY ReturnsOne DEF CaseIInv
<1>2. action'[a].at = "idle"
  BY <1>1 DEF NoAction
<1>3. /\ Unrecorded(a) \subseteq Choice \cup Manual \cup {None}
      /\ action[a].at = "logging" /\ action[a].kind # "FLOW_CLASSIFICATION" =>
            action[a].of \in lost'
  BY UnrecordedShape DEF CaseIInv
<1>4. CaseTypeOK'
  BY <1>1, <1>3 DEF CaseIInv, CaseTypeOK
<1>5. CaseRequestsOK'
  BY <1>1, <1>2 DEF CaseIInv, CaseRequestsOK, CaseRequestOK
<1>6. ConflictsAnswered'
  <2>1. ASSUME NEW f, Logged(f) PROVE Logged(f)'
    BY <1>1, <1>2, <2>1 DEF Logged, Chooses, Names
  <2>2. ASSUME NEW f, ToBeLogged(f) PROVE ToBeLogged(f)' \/ f \in lost'
    BY <1>1, <1>3, <2>2 DEF ToBeLogged, Recording
  <2>3. QED
    BY <2>1, <2>2 DEF CaseIInv, ConflictsAnswered
<1>7. FactIsAnswered'
  <2>1. ASSUME NEW m, Recording("MANUAL_EVIDENCE", m)
        PROVE  Recording("MANUAL_EVIDENCE", m)' \/ m \in lost'
    BY <1>1, <1>3, <2>1 DEF Recording
  <2>2. QED
    BY <2>1 DEF CaseIInv, FactIsAnswered, Names
<1>8. OnlyMover(a)
  BY <1>1, StepsAlone DEF CaseIInv
<1>9. ASSUME Unspoilt' PROVE Settled' /\ PositionOK(a)'
  <2>1. Unspoilt /\ \A b \in Actor : b # a => ~Between(b)
    BY <1>8, <1>9 DEF OnlyMover, Between, NoAction
  <2>2. PositionOK(a)'
    BY <1>2 DEF PositionOK
  <2>3. Standing' = Standing
    BY LogUnchanged
  <2>4. CASE Between(a)
    <3>1. action[a].at = "logging"
      BY <1>9, <2>4 DEF Unspoilt, Between
    <3>2. conflict.status = "RESOLVED" /\ conflict.chosen = action[a].of /\ Standing = {}
      BY <2>1, <2>4, <3>1 DEF CaseIInv, Balance, PositionOK
    <3>3. conflict.chosen \in lost'
      BY <1>3, <2>4, <3>1, <3>2 DEF Between
    <3>4. QED
      BY <2>2, <2>3, <3>2, <3>3 DEF Settled
  <2>5. CASE ~Between(a)
    <3>1. Settled
      BY <2>1, <2>5 DEF CaseIInv, Balance
    <3>2. QED
      BY <2>2, <2>3, <3>1 DEF Settled
  <2>6. QED
    BY <2>4, <2>5
<1>10. Alone' /\ Balance' /\ Conclusions'
  BY <1>2, <1>8, <1>9, SoloStep DEF Concluded
<1>11. QED
  BY <1>4, <1>5, <1>6, <1>7, <1>10 DEF CaseIInv

\* or the request is refused.
LEMMA RefuseOverrideIInv ==
    ASSUME CaseIInv, NEW a \in Actor, RefuseOverride(a)
    PROVE  CaseIInv'
<1>1. /\ action[a].at = "logging" /\ Returns(a) /\ lost' = lost \cup Unrecorded(a)
      /\ current' = FALSE
      /\ UNCHANGED <<conflict, manual, override, undone, resolution, overlapped, crowded, perished>>
  BY DEF RefuseOverride
<1>2. action[a] # NoAction
  BY <1>1, Busy
<1>3. /\ perished' \subseteq {"logging", "reopened"} /\ perished \subseteq perished'
      /\ current' \in BOOLEAN /\ ~current'
  BY <1>1 DEF CaseIInv, CaseTypeOK
<1>4. QED
  BY <1>1, <1>2, <1>3, EndsEarly

\* The conflict is opened again, and then logged:
LEMMA ReopenIInv ==
    ASSUME CaseIInv, NEW a \in Actor, Reopen(a)
    PROVE  CaseIInv'
<1> DEFINE w == action[a].which
<1>1. /\ action[a].at = "undoing"
      /\ IF action[a].kind = "CONFLICT_RESOLUTION"
         THEN conflict' = [status |-> "OPEN", chosen |-> None] /\ lost' = lost \cap Manual
         ELSE UNCHANGED <<conflict, lost>>
      /\ Moves(a, "reopened", action[a].kind, None, w, {})
      /\ UNCHANGED <<manual, override, undone, resolution, overlapped, crowded, perished, current>>
  BY DEF Reopen, Reopened, Compensates, Writes
<1>2. action[a] # NoAction
  BY <1>1, Busy
<1>3. w \in 1 .. Len(override) /\ action[a].kind = override[w].kind
  BY <1>1 DEF CaseIInv, CaseRequestsOK, CaseRequestOK
<1>4. w \in Nat /\ action[a].kind \in {"CONFLICT_RESOLUTION", "MANUAL_EVIDENCE",
                                       "FLOW_CLASSIFICATION", "none"}
  BY <1>2, ActionShape DEF CaseIInv
<1>5. /\ action' \in [Actor -> ActionRow \cup {NoAction}] /\ action'[a] # NoAction
      /\ action'[a].at = "reopened" /\ action'[a].kind = action[a].kind
      /\ action'[a].which = w
      /\ \A b \in Actor : b # a => action'[b] = action[b]
  BY <1>1, <1>4, MovesOne DEF CaseIInv
<1>6. CaseTypeOK'
  <2>1. conflict' \in Conflict
    BY <1>1 DEF CaseIInv, CaseTypeOK, Conflict
  <2>2. lost' \subseteq Choice \cup Manual \cup {None}
    BY <1>1 DEF CaseIInv, CaseTypeOK
  <2>3. QED
    BY <1>1, <1>5, <2>1, <2>2 DEF CaseIInv, CaseTypeOK
<1>7. CaseRequestsOK'
  BY <1>1, <1>3, <1>5 DEF CaseIInv, CaseRequestsOK, CaseRequestOK
<1>8. ConflictsAnswered'
  <2>1. CASE action[a].kind = "CONFLICT_RESOLUTION"
    BY <1>1, <2>1 DEF ConflictsAnswered
  <2>2. CASE action[a].kind # "CONFLICT_RESOLUTION"
    <3>1. SUFFICES ASSUME conflict.status = "RESOLVED", conflict.chosen \notin lost
                   PROVE  Logged(conflict.chosen)' \/ ToBeLogged(conflict.chosen)'
      BY <1>1, <2>2 DEF ConflictsAnswered, Logged, ToBeLogged, Recording, Chooses, Names
    <3>2. CASE ToBeLogged(conflict.chosen)
      BY <1>1, <1>5, <2>2, <3>2 DEF ToBeLogged, Recording
    <3>3. CASE Logged(conflict.chosen)
      <4>1. PICK i \in (1 .. Len(override)) \ undone :
                  /\ Chooses(i, conflict.chosen)
                  /\ \A b \in Actor : action[b].at = "reopened" => action[b].which # i
        BY <3>3 DEF Logged
      <4>2. i # w
        BY <1>3, <2>2, <4>1 DEF Chooses, Names
      <4>3. \A b \in Actor : action'[b].at = "reopened" => action'[b].which # i
        BY <1>5, <4>1, <4>2
      <4>4. i \in (1 .. Len(override')) \ undone' /\ Chooses(i, conflict.chosen)'
        BY <1>1, <2>2, <4>1 DEF Chooses, Names
      <4>5. QED
        BY <4>3, <4>4 DEF Logged
    <3>4. QED
      BY <3>1, <3>2, <3>3 DEF CaseIInv, ConflictsAnswered
  <2>3. QED
    BY <2>1, <2>2
<1>f. FactIsAnswered'
  BY <1>1, <1>5, FactsStay
<1>9. OnlyMover(a)
  BY <1>1, <1>2, <1>5, StepsAlone DEF CaseIInv
<1>10. ASSUME Unspoilt' PROVE (~Between(a)' => Settled') /\ PositionOK(a)'
  <2>1. Unspoilt /\ (\A b \in Actor : ~Between(b)) /\ w \notin undone
    BY <1>1, <1>9, <1>10 DEF OnlyMover, Between, NoAction, CaseIInv, Balance, PositionOK
  <2>2. Settled
    BY <2>1 DEF CaseIInv, Balance
  <2>3. Standing' = Standing
    BY <1>1, LogUnchanged
  <2>5. CASE action[a].kind = "CONFLICT_RESOLUTION"
    <3>1. w \in Standing
      BY <1>3, <2>1, <2>5 DEF Standing
    <3>2. conflict.status \in {"OPEN", "RESOLVED"}
      BY DEF CaseIInv, CaseTypeOK, Conflict
    <3>3. Standing = {w}
      BY <2>2, <3>1, <3>2 DEF Settled
    <3>4. QED
      BY <1>1, <1>5, <2>3, <2>5, <3>3 DEF Between, PositionOK
  <2>6. CASE action[a].kind # "CONFLICT_RESOLUTION"
    BY <1>1, <1>5, <2>2, <2>3, <2>6 DEF Between, PositionOK, Settled
  <2>7. QED
    BY <2>5, <2>6
<1>11. Alone' /\ Balance' /\ Conclusions'
  BY <1>5, <1>9, <1>10, SoloStep DEF Concluded
<1>12. QED
  BY <1>6, <1>7, <1>8, <1>f, <1>11 DEF CaseIInv

\* the override counts as undone.
LEMMA LogUndoIInv ==
    ASSUME CaseIInv, NEW a \in Actor, LogUndo(a)
    PROVE  CaseIInv'
<1> DEFINE w == action[a].which
<1>1. /\ action[a].at = "reopened" /\ undone' = undone \cup {w} /\ Concludes(a)
      /\ UNCHANGED <<conflict, manual, override, resolution, overlapped, crowded, lost, perished>>
  BY DEF LogUndo
<1>2. action[a] # NoAction
  BY <1>1, Busy
<1>3. w \in 1 .. Len(override) /\ action[a].kind = override[w].kind
  BY <1>1 DEF CaseIInv, CaseRequestsOK, CaseRequestOK
<1>4. /\ action' \in [Actor -> ActionRow \cup {NoAction}] /\ current' \in BOOLEAN
      /\ action'[a].at \in {"resolving", "idle"} /\ (action'[a] = NoAction => ~current')
      /\ \A b \in Actor : b # a => action'[b] = action[b]
  BY <1>1, ConcludesOne DEF CaseIInv
<1>5. CaseTypeOK'
  BY <1>1, <1>3, <1>4 DEF CaseIInv, CaseTypeOK
<1>6. CaseRequestsOK'
  BY <1>1, <1>4 DEF CaseIInv, CaseRequestsOK, CaseRequestOK
<1>7. ConflictsAnswered'
  <2>1. SUFFICES ASSUME conflict.status = "RESOLVED", conflict.chosen \notin lost
                 PROVE  Logged(conflict.chosen)' \/ ToBeLogged(conflict.chosen)'
    BY <1>1 DEF ConflictsAnswered, Logged, ToBeLogged, Recording, Chooses, Names
  <2>2. CASE ToBeLogged(conflict.chosen)
    BY <1>1, <1>4, <2>2 DEF ToBeLogged, Recording
  <2>3. CASE Logged(conflict.chosen)
    <3>1. PICK i \in (1 .. Len(override)) \ undone :
                /\ Chooses(i, conflict.chosen)
                /\ \A b \in Actor : action[b].at = "reopened" => action[b].which # i
      BY <2>3 DEF Logged
    <3>2. i # w
      BY <1>1, <3>1
    <3>3. i \in (1 .. Len(override')) \ undone' /\ Chooses(i, conflict.chosen)'
      BY <1>1, <3>1, <3>2 DEF Chooses, Names
    <3>4. \A b \in Actor : action'[b].at = "reopened" => action'[b].which # i
      BY <1>4, <3>1
    <3>5. QED
      BY <3>3, <3>4 DEF Logged
  <2>4. QED
    BY <2>1, <2>2, <2>3 DEF CaseIInv, ConflictsAnswered
<1>f. FactIsAnswered'
  BY <1>1, <1>4, FactsStay
<1>8. OnlyMover(a)
  BY <1>1, <1>2, <1>4, StepsAlone DEF CaseIInv
<1>9. ASSUME Unspoilt' PROVE Settled' /\ PositionOK(a)'
  <2>1. Unspoilt /\ \A b \in Actor : b # a => ~Between(b)
    BY <1>8, <1>9 DEF OnlyMover, Between, NoAction
  <2>2. PositionOK(a)'
    BY <1>4 DEF PositionOK, Between
  <2>3. Standing' = Standing \ {w}
    BY <1>1 DEF Standing
  <2>4. CASE action[a].kind = "CONFLICT_RESOLUTION"
    <3>1. conflict.status = "OPEN" /\ Standing = {w}
      BY <1>1, <2>1, <2>4 DEF CaseIInv, Balance, PositionOK, Between
    <3>2. QED
      BY <1>1, <2>2, <2>3, <3>1 DEF Settled
  <2>5. CASE action[a].kind # "CONFLICT_RESOLUTION"
    <3>1. Settled
      BY <2>1, <2>5 DEF CaseIInv, Balance, Between
    <3>2. w \notin Standing
      BY <1>3, <2>5 DEF Standing
    <3>3. QED
      BY <1>1, <2>2, <2>3, <3>1, <3>2 DEF Settled
  <2>6. QED
    BY <2>4, <2>5
<1>10. Alone' /\ Balance' /\ Conclusions'
  BY <1>4, <1>8, <1>9, SoloStep DEF Concluded
<1>11. QED
  BY <1>5, <1>6, <1>7, <1>f, <1>10 DEF CaseIInv

\* The case is read to be resolved,
LEMMA ReadCaseIInv ==
    ASSUME CaseIInv, NEW a \in Actor, ReadCase(a)
    PROVE  CaseIInv'
<1>1. /\ action[a].at = "resolving"
      /\ UNCHANGED <<conflict, manual, override, undone, resolution, overlapped, crowded, lost,
                     perished, current>>
  BY DEF ReadCase
<1>2. action[a] # NoAction
  BY <1>1, Busy
<1>4. Usable \in SUBSET Manual
  BY DEF CaseIInv, CaseTypeOK, Usable
<1>5. PICK of \in Route \cup {None}, by \in Nat, facts \in SUBSET Manual :
            /\ Moves(a, "resolved", "none", of, by, facts)
            /\ Follows(by, facts)
  <2>1. CASE \E i \in 1 .. Len(override) :
                /\ ActiveCorrection(i)
                /\ Moves(a, "resolved", "none", override[i].of, i, Usable)
    <3>1. PICK i \in 1 .. Len(override) :
                /\ ActiveCorrection(i)
                /\ Moves(a, "resolved", "none", override[i].of, i, Usable)
      BY <2>1
    <3>2. override[i] \in OverrideRow /\ override[i].kind = "FLOW_CLASSIFICATION"
      BY <3>1, OverrideShape DEF CaseIInv, ActiveCorrection
    <3>3. override[i].of \in Route
      BY <3>2 DEF OverrideRow
    <3>4. i \in Nat /\ i # 0
      OBVIOUS
    <3>5. Follows(i, Usable)
      BY <3>1, <3>4 DEF Follows
    <3>6. QED
      BY <1>4, <3>1, <3>3, <3>4, <3>5
  <2>2. CASE /\ \A i \in 1 .. Len(override) : ~ActiveCorrection(i)
             /\ \E r \in Route : Moves(a, "resolved", "none", r, 0, Usable)
    <3>1. Follows(0, Usable)
      BY <2>2 DEF Follows
    <3>2. QED
      BY <1>4, <2>2, <3>1
  <2>3. QED
    BY <2>1, <2>2 DEF ReadCase
<1>6. /\ action' \in [Actor -> ActionRow \cup {NoAction}] /\ action'[a] # NoAction
      /\ action'[a].at = "resolved" /\ action'[a].of = of
      /\ action'[a].which = by /\ action'[a].uses = facts
      /\ \A b \in Actor : b # a => action'[b] = action[b]
  BY <1>5, MovesOne DEF CaseIInv
<1>7. CaseTypeOK'
  BY <1>1, <1>6 DEF CaseIInv, CaseTypeOK
<1>8. CaseRequestsOK'
  BY <1>1, <1>5, <1>6 DEF CaseIInv, CaseRequestsOK, CaseRequestOK
<1>9. ConflictsAnswered'
  BY <1>1, <1>6 DEF CaseIInv, ConflictsAnswered, Logged, ToBeLogged, Recording, Chooses, Names
<1>f. FactIsAnswered'
  BY <1>1, <1>6, FactsStay
<1>10. OnlyMover(a)
  BY <1>1, <1>2, <1>6, StepsAlone DEF CaseIInv
<1>11. ASSUME Unspoilt' PROVE Settled' /\ PositionOK(a)'
  <2>1. Unspoilt /\ \A b \in Actor : ~Between(b)
    BY <1>1, <1>10, <1>11 DEF OnlyMover, Between, NoAction
  <2>2. Settled'
    BY <1>1, <2>1, LogUnchanged DEF CaseIInv, Balance, Settled
  <2>3. QED
    BY <1>6, <2>2 DEF PositionOK, Between
<1>12. Alone' /\ Balance' /\ Conclusions'
  <2>1. Follows(by, facts)'
    BY <1>1, <1>5 DEF Follows, ActiveCorrection, Usable, TakenBack
  <2>2. Concluded(a)'
    BY <1>6, <2>1 DEF Concluded
  <2>3. QED
    BY <1>6, <1>10, <1>11, <2>2, SoloStep
<1>13. QED
  BY <1>7, <1>8, <1>9, <1>f, <1>12 DEF CaseIInv

\* and its resolution is logged.
LEMMA LogResolutionIInv ==
    ASSUME CaseIInv, NEW a \in Actor, LogResolution(a)
    PROVE  CaseIInv'
<1>1. /\ action[a].at = "resolved"
      /\ resolution' = [flow |-> action[a].of, by |-> action[a].which, uses |-> action[a].uses]
      /\ current' = TRUE /\ Returns(a)
      /\ UNCHANGED <<conflict, manual, override, undone, overlapped, crowded, lost, perished>>
  BY DEF LogResolution
<1>2. action[a] # NoAction
  BY <1>1, Busy
<1>3. /\ action[a].of \in Route \cup {None} /\ action[a].which \in Nat
      /\ action[a].uses \in SUBSET Manual
  BY <1>1, <1>2, ActionShape DEF CaseIInv, CaseRequestsOK, CaseRequestOK
<1>4. /\ action' \in [Actor -> ActionRow \cup {NoAction}] /\ action'[a] = NoAction
      /\ \A b \in Actor : b # a => action'[b] = action[b]
  BY <1>1, ReturnsOne DEF CaseIInv
<1>5. action'[a].at = "idle"
  BY <1>4 DEF NoAction
<1>6. CaseTypeOK'
  <2>1. resolution' \in Resolution
    BY <1>1, <1>3 DEF Resolution
  <2>2. QED
    BY <1>1, <1>4, <2>1 DEF CaseIInv, CaseTypeOK
<1>7. CaseRequestsOK'
  BY <1>1, <1>4, <1>5 DEF CaseIInv, CaseRequestsOK, CaseRequestOK
<1>8. ConflictsAnswered'
  BY <1>1, <1>4, <1>5 DEF CaseIInv, ConflictsAnswered, Logged, ToBeLogged, Recording, Chooses, Names
<1>f. FactIsAnswered'
  BY <1>1, <1>4, FactsStay
<1>9. OnlyMover(a) /\ (Solo' => Solo)
  BY <1>1, <1>2, <1>4, StepsAlone DEF CaseIInv
<1>10. ASSUME Unspoilt' PROVE Settled' /\ PositionOK(a)'
  <2>1. Unspoilt /\ \A b \in Actor : ~Between(b)
    BY <1>1, <1>9, <1>10 DEF OnlyMover, Between, NoAction
  <2>2. Settled'
    BY <1>1, <2>1, LogUnchanged DEF CaseIInv, Balance, Settled
  <2>3. QED
    BY <1>5, <2>2 DEF PositionOK, Between
<1>11. Alone' /\ Balance' /\ Conclusions'
  <2>1. ASSUME Solo' PROVE Follows(resolution.by, resolution.uses)'
    <3>1. Follows(action[a].which, action[a].uses)
      BY <1>1, <1>9, <2>1 DEF CaseIInv, Conclusions, Concluded
    <3>2. resolution'.by = action[a].which /\ resolution'.uses = action[a].uses
      BY <1>1
    <3>3. QED
      BY <1>1, <3>1, <3>2 DEF Follows, ActiveCorrection, Usable, TakenBack
  <2>2. Concluded(a)'
    BY <1>5 DEF Concluded
  <2>3. QED
    BY <1>9, <1>10, <2>1, <2>2, SoloStep
<1>12. QED
  BY <1>6, <1>7, <1>8, <1>f, <1>11 DEF CaseIInv

\* A handler dies between its writes.
LEMMA PerishIInv ==
    ASSUME CaseIInv, NEW a \in Actor, Perish(a)
    PROVE  CaseIInv'
<1>1. /\ action[a] # NoAction /\ Returns(a) /\ lost' = lost \cup Unrecorded(a)
      /\ perished' = IF HalfDone(a) THEN perished \cup {action[a].at} ELSE perished
      /\ current' = FALSE
      /\ UNCHANGED <<conflict, manual, override, undone, resolution, overlapped, crowded>>
  BY DEF Perish
<1>2. HalfDone(a) => action[a].at \in {"logging", "reopened"}
  BY DEF HalfDone, Unrecorded
<1>3. action[a].at = "reopened" /\ Between(a) => HalfDone(a)
  BY DEF HalfDone, Compensates, Between
<1>4. /\ perished' \subseteq {"logging", "reopened"} /\ perished \subseteq perished'
      /\ action[a].at = "reopened" /\ Between(a) => "reopened" \in perished'
      /\ current' \in BOOLEAN /\ ~current'
  BY <1>1, <1>2, <1>3 DEF CaseIInv, CaseTypeOK
<1>5. QED
  BY <1>1, <1>4, EndsEarly

-----------------------------------------------------------------------------
\* Every step keeps the invariant.
LEMMA CaseNextIInv == CaseIInv /\ [CaseNext]_caseVars => CaseIInv'
<1> SUFFICES ASSUME CaseIInv, [CaseNext]_caseVars PROVE CaseIInv'
  OBVIOUS
<1>1. CASE UNCHANGED caseVars
  <2>1. UNCHANGED <<conflict, manual, override, undone, resolution, action, overlapped, crowded,
                    lost, perished, current>>
    BY <1>1 DEF caseVars
  <2>2. CaseTypeOK' /\ CaseRequestsOK' /\ Alone'
    BY <2>1 DEF CaseIInv, CaseTypeOK, CaseRequestsOK, CaseRequestOK, Alone, Solo
  <2>3. ConflictsAnswered' /\ FactIsAnswered'
    BY <2>1 DEF CaseIInv, ConflictsAnswered, FactIsAnswered, Logged, ToBeLogged, Recording, Chooses, Names
  <2>4. Balance'
    BY <2>1 DEF CaseIInv, Balance, Unspoilt, Settled, Standing, PositionOK, Between
  <2>5. Conclusions'
    BY <2>1 DEF CaseIInv, Conclusions, Solo, Concluded, Follows, ActiveCorrection, Usable, TakenBack
  <2>6. QED
    BY <2>2, <2>3, <2>4, <2>5 DEF CaseIInv
<1>2. ASSUME NEW a \in Actor, BeginSettle(a) PROVE CaseIInv'
  BY <1>2, BeginSettleIInv
<1>3. ASSUME NEW a \in Actor, LookAgain(a) PROVE CaseIInv'
  BY <1>3, LookAgainIInv
<1>4. ASSUME NEW a \in Actor, SettleConflict(a) PROVE CaseIInv'
  BY <1>4, SettleConflictIInv
<1>5. ASSUME NEW a \in Actor, NEW m \in Manual, BeginEvidence(a, m) PROVE CaseIInv'
  BY <1>5, BeginEvidenceIInv
<1>6. ASSUME NEW a \in Actor, BeginReroute(a) PROVE CaseIInv'
  BY <1>6, BeginRerouteIInv
<1>7. ASSUME NEW a \in Actor, LogOverride(a) PROVE CaseIInv'
  BY <1>7, LogOverrideIInv
<1>8. ASSUME NEW a \in Actor, NEW i \in 1 .. MaxOverride, BeginUndo(a, i) PROVE CaseIInv'
  BY <1>8, BeginUndoIInv
<1>9. ASSUME NEW a \in Actor, Reopen(a) PROVE CaseIInv'
  BY <1>9, ReopenIInv
<1>10. ASSUME NEW a \in Actor, LogUndo(a) PROVE CaseIInv'
  BY <1>10, LogUndoIInv
<1>11. ASSUME NEW a \in Actor, BeginResolve(a) PROVE CaseIInv'
  BY <1>11, BeginResolveIInv
<1>12. ASSUME NEW a \in Actor, ReadCase(a) PROVE CaseIInv'
  BY <1>12, ReadCaseIInv
<1>13. ASSUME NEW a \in Actor, LogResolution(a) PROVE CaseIInv'
  BY <1>13, LogResolutionIInv
<1>14. ASSUME NEW a \in Actor, Perish(a) PROVE CaseIInv'
  BY <1>14, PerishIInv
<1>15. ASSUME NEW a \in Actor, RefuseOverride(a) PROVE CaseIInv'
  BY <1>15, RefuseOverrideIInv
<1>16. QED
  BY <1>1, <1>2, <1>3, <1>4, <1>5, <1>6, <1>7, <1>8, <1>9, <1>10, <1>11, <1>12, <1>13, <1>14,
     <1>15
  DEF CaseNext

\* The invariant holds in every state.
LEMMA CaseInvariance == CaseSpec => []CaseIInv
  BY CaseInitIInv, CaseNextIInv, PTL DEF CaseSpec

\* The rows and the requests have the shape the code gives them.
THEOREM CaseTypeCorrect == CaseSpec => []CaseTypeOK
<1>1. CaseIInv => CaseTypeOK
  BY DEF CaseIInv
<1>2. QED
  BY <1>1, CaseInvariance, PTL

\* A conflict that stands resolved has its choice in the log, or in a request about
\* to record it, unless its request ended in between; and so has a fact added by hand.
THEOREM ChoicesAnswered == CaseSpec => [](ChoiceIsAnswered /\ FactIsAnswered)
<1>1. CaseIInv => ChoiceIsAnswered /\ FactIsAnswered
  BY DEF CaseIInv, ConflictsAnswered, Logged, ToBeLogged, ChoiceIsAnswered
<1>2. QED
  BY <1>1, CaseInvariance, PTL

\* After requests one at a time, none of which died halfway through an undo, an open
\* conflict has no override left, and a resolved one has exactly one, or none if it was
\* never recorded.
THEOREM UndosComplete == CaseSpec => []UndoIsComplete
<1>1. ASSUME CaseIInv PROVE UndoIsComplete
  <2>1. SUFFICES ASSUME Idle, Unspoilt PROVE Settled
    BY DEF UndoIsComplete, Unspoilt, Settled, Standing
  <2>2. \A a \in Actor : ~Between(a)
    BY <2>1 DEF Idle, Between, NoAction
  <2>3. QED
    BY <1>1, <2>1, <2>2 DEF CaseIInv, Balance
<1>2. QED
  BY <1>1, CaseInvariance, PTL

\* ... and a case that was resolved last by a request that had it for itself follows the
\* newest correction that stands, and rests on the facts not taken back.
THEOREM ResolutionsFollow == CaseSpec => []ResolvedAsDecided
<1>1. ASSUME CaseIInv PROVE ResolvedAsDecided
  <2>1. SUFFICES ASSUME Idle, Solo, current PROVE Follows(resolution.by, resolution.uses)
    BY DEF ResolvedAsDecided, Follows, Solo
  <2>2. QED
    BY <1>1, <2>1 DEF Idle, CaseIInv, Conclusions
<1>2. QED
  BY <1>1, CaseInvariance, PTL

\* The log answers for what stands (overrides.service.ts), for any number of choices,
\* facts, flows and requests.
THEOREM LogHolds == CaseSpec => []LogAnswers
  BY ChoicesAnswered, UndosComplete, ResolutionsFollow, PTL DEF LogAnswers

-----------------------------------------------------------------------------
(* Plans of a case.                                                        *)

\* The revision a request has read, and what it has read it with.
PlanAskOK(a) ==
    /\ asked[a].at = "recording" =>
            /\ asked[a].seen <= Len(plan)
            /\ asked[a].seen = 0 => asked[a].revision = 0
            /\ asked[a].seen > 0 => plan[asked[a].seen].revision = asked[a].revision
            /\ asked[a].seen > 0 => plan[asked[a].seen].of # asked[a].of
    /\ asked[a].at = "starting" =>
            \E i \in 1 .. Len(plan) : plan[i] = [of |-> asked[a].of, revision |-> asked[a].revision]

\* The inductive invariant of the plans.
PlanIInv ==
    /\ PlanTypeOK
    /\ \A a \in Asker : PlanAskOK(a)
    /\ RevisionsHaveNoGap /\ RevisionNamesPlan /\ StartedFromRecorded

\* The fields of a request under way.
LEMMA PlanAskShape ==
    ASSUME PlanTypeOK, NEW a \in Asker, asked[a].at # "idle"
    PROVE  /\ asked[a].of \in Compilation /\ asked[a].start \in BOOLEAN
           /\ asked[a].revision \in Nat /\ asked[a].seen \in Nat
  BY DEF PlanTypeOK, AskRow, NoAsk

\* A request goes on, the plans as they were.
LEMMA PlanAsks ==
    ASSUME PlanIInv, NEW a \in Asker, NEW at \in {"compiled", "recording", "starting"},
           NEW of \in Compilation, NEW start \in BOOLEAN, NEW revision \in Nat, NEW seen \in Nat,
           LetAsk(a, at, of, start, revision, seen)
    PROVE  /\ asked' \in [Asker -> AskRow \cup {NoAsk}]
           /\ asked'[a].at = at /\ asked'[a].of = of /\ asked'[a].revision = revision
           /\ asked'[a].seen = seen
           /\ \A b \in Asker : b # a => asked'[b] = asked[b]
<1> DEFINE row == [at |-> at, of |-> of, start |-> start, revision |-> revision, seen |-> seen]
<1>1. /\ row \in AskRow /\ row.at = at /\ row.of = of /\ row.revision = revision
      /\ row.seen = seen
  BY DEF AskRow
<1>2. asked' = [asked EXCEPT ![a] = row]
  BY DEF LetAsk
<1> HIDE DEF row
<1>3. QED
  BY <1>1, <1>2 DEF PlanIInv, PlanTypeOK

\* A call is over: the others are as they were.
LEMMA PlanEnds ==
    ASSUME PlanIInv, NEW a \in Asker, EndAsk(a)
    PROVE  /\ asked' \in [Asker -> AskRow \cup {NoAsk}]
           /\ asked'[a].at = "idle"
           /\ \A b \in Asker : b # a => asked'[b] = asked[b]
<1>1. asked' \in [Asker -> AskRow \cup {NoAsk}] /\ asked'[a] = NoAsk
      /\ \A b \in Asker : b # a => asked'[b] = asked[b]
  BY DEF PlanIInv, PlanTypeOK, EndAsk
<1>2. QED
  BY <1>1 DEF NoAsk

\* Plans and sessions are left alone.
LEMMA PlanRests ==
    ASSUME PlanIInv, NEW a \in Asker, UNCHANGED <<plan, started, crossed>>,
           source' \in Compilation \cup {NoCompilation},
           asked' \in [Asker -> AskRow \cup {NoAsk}], PlanAskOK(a)',
           \A b \in Asker : b # a => asked'[b] = asked[b]
    PROVE  PlanIInv'
<1>1. \A b \in Asker : PlanAskOK(b)'
  BY DEF PlanIInv, PlanAskOK
<1>2. QED
  BY <1>1
  DEF PlanIInv, PlanTypeOK, RevisionsHaveNoGap, RevisionNamesPlan, StartedFromRecorded

\* A plan is compiled,
LEMMA PlanCompile ==
    ASSUME PlanIInv, NEW a \in Asker, Compile(a)
    PROVE  PlanIInv'
<1>1. source \in Compilation /\ UNCHANGED <<source, plan, started, crossed>>
  BY DEF Compile, Resolved, PlanIInv, PlanTypeOK
<1>2. PICK start \in BOOLEAN : LetAsk(a, "compiled", source, start, 0, 0)
  BY DEF Compile
<1>3. /\ asked' \in [Asker -> AskRow \cup {NoAsk}] /\ asked'[a].at = "compiled"
      /\ \A b \in Asker : b # a => asked'[b] = asked[b]
  BY <1>1, <1>2, PlanAsks
<1>4. PlanAskOK(a)'
  BY <1>3 DEF PlanAskOK
<1>5. QED
  BY <1>1, <1>3, <1>4, PlanRests

\* the plans there are, are read,
LEMMA PlanReadPlans ==
    ASSUME PlanIInv, NEW a \in Asker, ReadPlans(a)
    PROVE  PlanIInv'
<1> DEFINE p == asked[a].of
           n == Len(plan)
<1>1. asked[a].at = "compiled" /\ UNCHANGED <<source, plan, started, crossed>>
  BY DEF ReadPlans
<1>2. p \in Compilation /\ asked[a].start \in BOOLEAN
  BY <1>1, PlanAskShape DEF PlanIInv
<1>3. n \in Nat /\ plan \in Seq(PlanRow) /\ (plan = <<>> <=> n = 0)
  BY DEF PlanIInv, PlanTypeOK
<1>4. n > 0 => plan[n] \in PlanRow
  BY <1>3
<1>5. LastRevision \in Nat /\ (n > 0 => LastRevision = plan[n].revision)
      /\ (n = 0 => LastRevision = 0)
  BY <1>3, <1>4 DEF LastRevision, PlanRow
<1>6. CASE SameSource(p) /\ Serves(a, p, LastRevision)
  <2>1. n > 0 /\ plan[n] = [of |-> p, revision |-> LastRevision]
    <3>1. n > 0 /\ plan[n].of = p
      BY <1>3, <1>6 DEF SameSource
    <3>2. plan[n] = [of |-> plan[n].of, revision |-> plan[n].revision]
      BY <1>4, <3>1 DEF PlanRow
    <3>3. QED
      BY <1>5, <3>1, <3>2
  <2>2. CASE LetAsk(a, "starting", p, asked[a].start, LastRevision, n)
    <3>1. /\ asked' \in [Asker -> AskRow \cup {NoAsk}] /\ asked'[a].at = "starting"
          /\ asked'[a].of = p /\ asked'[a].revision = LastRevision
          /\ \A b \in Asker : b # a => asked'[b] = asked[b]
      BY <1>2, <1>3, <1>5, <2>2, PlanAsks
    <3>2. PlanAskOK(a)'
      BY <1>1, <1>3, <2>1, <3>1 DEF PlanAskOK
    <3>3. QED
      BY <1>1, <3>1, <3>2, PlanRests DEF PlanIInv, PlanTypeOK
  <2>3. CASE EndAsk(a)
    <3>1. PlanAskOK(a)'
      BY <2>3, PlanEnds DEF PlanAskOK
    <3>2. QED
      BY <1>1, <2>3, <3>1, PlanEnds, PlanRests DEF PlanIInv, PlanTypeOK
  <2>4. QED
    BY <1>6, <2>2, <2>3 DEF Serves
<1>7. CASE ~SameSource(p) /\ LetAsk(a, "recording", p, asked[a].start, LastRevision, n)
  <2>n. n \in Nat /\ LastRevision \in Nat /\ LetAsk(a, "recording", p, asked[a].start, LastRevision, n)
    BY <1>3, <1>5, <1>7
  <2>1. /\ asked' \in [Asker -> AskRow \cup {NoAsk}] /\ asked'[a].at = "recording"
        /\ asked'[a].of = p /\ asked'[a].revision = LastRevision /\ asked'[a].seen = n
        /\ \A b \in Asker : b # a => asked'[b] = asked[b]
    <3> HIDE DEF p, n
    <3>1. QED
      BY <1>2, <2>n, PlanAsks
  <2>2. n > 0 => plan[n].of # p
    BY <1>3, <1>7 DEF SameSource
  <2>3. PlanAskOK(a)'
    BY <1>1, <1>3, <1>5, <2>1, <2>2 DEF PlanAskOK
  <2>4. QED
    BY <1>1, <2>1, <2>3, PlanRests DEF PlanIInv, PlanTypeOK
<1>8. QED
  BY <1>6, <1>7 DEF ReadPlans

\* A sequence with one element more.
LEMMA OneMore ==
    ASSUME NEW S, NEW q \in Seq(S), NEW x \in S
    PROVE  /\ Append(q, x) \in Seq(S)
           /\ Len(q) \in Nat
           /\ Len(Append(q, x)) = Len(q) + 1
           /\ Append(q, x)[Len(q) + 1] = x
           /\ \A i \in 1 .. Len(q) : Append(q, x)[i] = q[i]
  OBVIOUS

\* and the next revision is recorded.
LEMMA PlanRecord ==
    ASSUME PlanIInv, NEW a \in Asker, RecordPlan(a)
    PROVE  PlanIInv'
<1>n. PICK n : n = Len(plan)
  OBVIOUS
<1>r. PICK row : row = [of |-> asked[a].of, revision |-> asked[a].revision + 1]
  OBVIOUS
<1>1. /\ asked[a].at = "recording" /\ n < MaxPlan
      /\ plan' = Append(plan, row)
      /\ Serves(a, asked[a].of, asked[a].revision + 1)
      /\ crossed' = (crossed \/ asked[a].seen # n)
      /\ UNCHANGED <<source, started>>
  BY <1>n, <1>r DEF RecordPlan, NextRevision
<1>2. /\ asked[a].of \in Compilation /\ asked[a].start \in BOOLEAN
      /\ asked[a].revision \in Nat /\ asked[a].seen \in Nat
  BY <1>1, PlanAskShape DEF PlanIInv
<1>3. n \in Nat /\ plan \in Seq(PlanRow) /\ MaxPlan \in Nat
  BY <1>n, PlanAssumption DEF PlanIInv, PlanTypeOK
<1>4. row \in PlanRow /\ row.of = asked[a].of /\ row.revision = asked[a].revision + 1
  BY <1>r, <1>2 DEF PlanRow
<1>5. /\ plan' \in Seq(PlanRow) /\ Len(plan') = n + 1 /\ plan'[n + 1] = row
      /\ \A i \in 1 .. n : plan'[i] = plan[i]
  <2>1. plan' = Append(plan, row)
    BY <1>1
  <2>2. QED
    BY <1>n, <1>3, <1>4, <2>1, OneMore
<1>6. \A i \in 1 .. n : plan[i] \in PlanRow /\ plan[i].revision \in Nat
  <2>1. \A i \in 1 .. Len(plan) : plan[i] \in PlanRow
    BY <1>3
  <2>2. \A r \in PlanRow : r.revision \in Nat
    BY DEF PlanRow
  <2>3. QED
    BY <1>n, <2>1, <2>2
<1>7. /\ asked[a].seen <= n
      /\ asked[a].seen = 0 => asked[a].revision = 0
      /\ asked[a].seen > 0 => plan[asked[a].seen].revision = asked[a].revision
      /\ asked[a].seen > 0 => plan[asked[a].seen].of # asked[a].of
  BY <1>n, <1>1 DEF PlanIInv, PlanAskOK
<1>8. asked' \in [Asker -> AskRow \cup {NoAsk}] /\ PlanAskOK(a)'
      /\ \A b \in Asker : b # a => asked'[b] = asked[b]
  <2>1. CASE LetAsk(a, "starting", asked[a].of, asked[a].start, asked[a].revision + 1, n)
    <3>1. /\ asked' \in [Asker -> AskRow \cup {NoAsk}] /\ asked'[a].at = "starting"
          /\ asked'[a].of = asked[a].of /\ asked'[a].revision = asked[a].revision + 1
          /\ \A b \in Asker : b # a => asked'[b] = asked[b]
      BY <1>2, <1>3, <2>1, PlanAsks
    <3>2. plan'[n + 1] = [of |-> asked'[a].of, revision |-> asked'[a].revision]
      BY <1>r, <1>5, <3>1
    <3>3. n + 1 \in 1 .. Len(plan')
      BY <1>3, <1>5
    <3>4. QED
      BY <3>1, <3>2, <3>3 DEF PlanAskOK
  <2>2. CASE EndAsk(a)
    BY <2>2, PlanEnds DEF PlanAskOK
  <2>3. QED
    BY <1>n, <1>1, <2>1, <2>2 DEF Serves
<1>9. \A b \in Asker : PlanAskOK(b)'
  <2>1. ASSUME NEW b \in Asker, b # a PROVE PlanAskOK(b)'
    <3>1. PlanAskOK(b) /\ asked'[b] = asked[b]
      BY <1>8, <2>1 DEF PlanIInv
    <3>2. asked[b].at = "recording" => asked[b].seen \in Nat
      BY PlanAskShape DEF PlanIInv
    <3>3. QED
      BY <1>n, <1>3, <1>5, <3>1, <3>2 DEF PlanAskOK
  <2>2. QED
    BY <1>8, <2>1
<1>10. RevisionsHaveNoGap'
  <2>1. row.revision = 1 \/ \E j \in 1 .. n : row.revision = plan[j].revision + 1
    <3>1. CASE asked[a].seen = 0
      BY <1>4, <1>7, <3>1
    <3>2. CASE asked[a].seen > 0
      <4>1. asked[a].seen \in 1 .. n
        BY <1>2, <1>3, <1>7, <3>2
      <4>2. QED
        BY <1>4, <1>7, <3>2, <4>1
    <3>3. QED
      BY <1>2, <3>1, <3>2
  <2>2. SUFFICES ASSUME NEW i \in 1 .. (n + 1)
                 PROVE  \/ plan'[i].revision = 1
                        \/ \E j \in 1 .. (i - 1) : plan'[i].revision = plan'[j].revision + 1
    BY <1>5 DEF RevisionsHaveNoGap
  <2>3. CASE i = n + 1
    BY <1>3, <1>5, <2>1, <2>3
  <2>4. CASE i \in 1 .. n
    <3>1. plan[i].revision = 1 \/ \E j \in 1 .. (i - 1) : plan[i].revision = plan[j].revision + 1
      BY <1>n, <2>4 DEF PlanIInv, RevisionsHaveNoGap
    <3>2. \A j \in 1 .. (i - 1) : j \in 1 .. n
      BY <1>3, <2>4
    <3>3. QED
      BY <1>5, <2>4, <3>1, <3>2
  <2>5. QED
    BY <1>3, <2>2, <2>3, <2>4
<1>11. RevisionNamesPlan'
  <2>1. SUFFICES ASSUME ~crossed'
                 PROVE  /\ \A i \in 1 .. (n + 1) : plan'[i].revision = i
                        /\ \A i \in 1 .. n : plan'[i].of # plan'[i + 1].of
    BY <1>3, <1>5 DEF RevisionNamesPlan
  <2>2. ~crossed /\ asked[a].seen = n
    BY <1>1, <2>1, Zenon
  <2>3. /\ \A i \in 1 .. n : plan[i].revision = i
        /\ \A i \in 1 .. (n - 1) : plan[i].of # plan[i + 1].of
    BY <1>n, <2>2 DEF PlanIInv, RevisionNamesPlan
  <2>4. asked[a].revision = n /\ (n > 0 => plan[n].of # row.of)
    BY <1>3, <1>4, <1>7, <2>2, <2>3
  <2>5. ASSUME NEW i \in 1 .. (n + 1) PROVE plan'[i].revision = i
    <3>1. CASE i = n + 1
      BY <1>4, <1>5, <2>4, <3>1
    <3>2. CASE i \in 1 .. n
      BY <1>5, <2>3, <3>2
    <3>3. QED
      BY <1>3, <3>1, <3>2
  <2>6. ASSUME NEW i \in 1 .. n PROVE plan'[i].of # plan'[i + 1].of
    <3>1. CASE i = n
      BY <1>3, <1>5, <2>4, <3>1
    <3>2. CASE i \in 1 .. (n - 1)
      <4>1. i \in 1 .. n /\ i + 1 \in 1 .. n
        BY <1>3, <3>2
      <4>2. QED
        BY <1>5, <2>3, <3>2, <4>1
    <3>3. QED
      BY <1>3, <3>1, <3>2
  <2>7. QED
    BY <2>5, <2>6
<1>12. StartedFromRecorded'
  <2>1. \A s \in started : \E i \in 1 .. n : plan[i] = s
    BY <1>n DEF PlanIInv, StartedFromRecorded
  <2>2. \A i \in 1 .. n : i \in 1 .. Len(plan')
    BY <1>3, <1>5
  <2>3. QED
    BY <1>1, <1>5, <2>1, <2>2 DEF StartedFromRecorded
<1>13. PlanTypeOK'
  <2>1. crossed' \in BOOLEAN
    BY <1>1, Zenon DEF PlanIInv, PlanTypeOK
  <2>2. Len(plan') <= MaxPlan
    BY <1>1, <1>3, <1>5
  <2>3. QED
    BY <1>1, <1>5, <1>8, <2>1, <2>2 DEF PlanIInv, PlanTypeOK
<1>14. QED
  BY <1>9, <1>10, <1>11, <1>12, <1>13 DEF PlanIInv

\* A session is started from a plan.
LEMMA PlanStart ==
    ASSUME PlanIInv, NEW a \in Asker, StartFromPlan(a)
    PROVE  PlanIInv'
<1> DEFINE s == [of |-> asked[a].of, revision |-> asked[a].revision]
<1>1. /\ asked[a].at = "starting" /\ EndAsk(a) /\ UNCHANGED <<source, plan, crossed>>
      /\ started' = started \cup {s}
  BY DEF StartFromPlan, StartedFrom
<1>2. /\ asked' \in [Asker -> AskRow \cup {NoAsk}] /\ asked'[a].at = "idle"
      /\ \A b \in Asker : b # a => asked'[b] = asked[b]
  BY <1>1, PlanEnds
<1>3. \E i \in 1 .. Len(plan) : plan[i] = s
  BY <1>1 DEF PlanIInv, PlanAskOK
<1>4. s \in PlanRow
  BY <1>1, PlanAskShape DEF PlanIInv, PlanRow
<1> HIDE DEF s
<1>5. \A b \in Asker : PlanAskOK(b)'
  BY <1>1, <1>2 DEF PlanIInv, PlanAskOK
<1>6. StartedFromRecorded'
  BY <1>1, <1>3 DEF PlanIInv, StartedFromRecorded
<1>7. QED
  BY <1>1, <1>2, <1>4, <1>5, <1>6
  DEF PlanIInv, PlanTypeOK, RevisionsHaveNoGap, RevisionNamesPlan

\* A call gives up.
LEMMA PlanAbandon ==
    ASSUME PlanIInv, NEW a \in Asker, AbandonPlan(a)
    PROVE  PlanIInv'
<1>1. EndAsk(a) /\ UNCHANGED <<source, plan, started, crossed>>
  BY DEF AbandonPlan
<1>2. PlanAskOK(a)'
  BY <1>1, PlanEnds DEF PlanAskOK
<1>3. QED
  BY <1>1, <1>2, PlanEnds, PlanRests DEF PlanIInv, PlanTypeOK

\* The initial state satisfies the invariant, and every step keeps it.
LEMMA PlanInvariance == PlanSpec => []PlanIInv
<1>1. PlanInit => PlanIInv
  <2> SUFFICES ASSUME PlanInit PROVE PlanIInv
    OBVIOUS
  <2>1. plan = <<>> /\ Len(plan) = 0 /\ plan \in Seq(PlanRow)
    BY DEF PlanInit
  <2>2. crossed \in BOOLEAN
    BY Zenon DEF PlanInit
  <2>3. QED
    BY <2>1, <2>2, PlanAssumption
    DEF PlanInit, PlanIInv, PlanTypeOK, PlanAskOK, NoAsk, RevisionsHaveNoGap, RevisionNamesPlan,
        StartedFromRecorded
<1>2. PlanIInv /\ [PlanNext]_planVars => PlanIInv'
  <2> SUFFICES ASSUME PlanIInv, [PlanNext]_planVars PROVE PlanIInv'
    OBVIOUS
  <2>1. CASE UNCHANGED planVars
    BY <2>1
    DEF planVars, PlanIInv, PlanTypeOK, PlanAskOK, RevisionsHaveNoGap, RevisionNamesPlan,
        StartedFromRecorded
  <2>2. CASE Resolve
    BY <2>2
    DEF Resolve, PlanIInv, PlanTypeOK, PlanAskOK, RevisionsHaveNoGap, RevisionNamesPlan,
        StartedFromRecorded
  <2>3. QED
    BY <2>1, <2>2, PlanCompile, PlanReadPlans, PlanRecord, PlanStart, PlanAbandon DEF PlanNext
<1>3. QED
  BY <1>1, <1>2, PTL DEF PlanSpec

\* The rows and the requests have the shape the code gives them.
THEOREM PlanTypeCorrect == PlanSpec => []PlanTypeOK
  BY PlanInvariance, PTL DEF PlanIInv

\* Requests at once skip no revision.
THEOREM NoRevisionSkipped == PlanSpec => []RevisionsHaveNoGap
  BY PlanInvariance, PTL DEF PlanIInv

\* As long as no recording crossed another, a revision names one plan.
THEOREM RevisionsNamePlans == PlanSpec => []RevisionNamesPlan
  BY PlanInvariance, PTL DEF PlanIInv

\* A session is started from a plan that was recorded.
THEOREM StartsAreRecorded == PlanSpec => []StartedFromRecorded
  BY PlanInvariance, PTL DEF PlanIInv


\* Revisions of a plan have no gap, name a plan and precede the sessions.
THEOREM RevisionsHold == PlanSpec => []RevisionsAreSound
  BY NoRevisionSkipped, RevisionsNamePlans, StartsAreRecorded, PTL DEF RevisionsAreSound
=============================================================================
