--------------------------- MODULE RecordsProofs ----------------------------
(***************************************************************************)
(* Theorems about four components that keep records and share no state:    *)
(* the sales documents (SalesDocuments), the professionals' licences       *)
(* (LicenceDocuments), what the readers of an announcement have            *)
(* acknowledged (Acknowledgements), and the pages of the wiki with the     *)
(* requests to change them (KnowledgeBase).  Each has an inductive         *)
(* invariant, the lemmas that its actions preserve it, and the theorems of *)
(* its specification.                                                      *)
(***************************************************************************)
EXTENDS SalesDocuments, LicenceDocuments, Acknowledgements, KnowledgeBase,
        TLAPS

-----------------------------------------------------------------------------
(* Sales documents.                                                        *)

\* What a request about to write carries: a correction or a review its verdict, an
\* analysis a status that is neither approved nor rejected.
SalesCallOK(c) ==
    /\ call[c].at \in {"checked", "read"} /\ call[c].op = "correct" =>
            call[c].status = "PENDING_REVIEW"
    /\ call[c].at = "checked" /\ call[c].op = "review" => call[c].status \in Verdict
    /\ call[c].at # "idle" /\ call[c].op = "analyse" => call[c].was \notin {"APPROVED", "REJECTED"}
    /\ call[c].at # "idle" => call[c].was # "APPROVED"
    /\ call[c].at = "extracted" => call[c].status \in {"PENDING_REVIEW", "DUPLICATE"}

\* The inductive invariant of the sales documents.
SalesIInv ==
    /\ SalesTypeOK
    /\ \A c \in Caller : SalesCallOK(c)
    /\ OneDocumentPerKey /\ ApprovedIsReviewed /\ RejectedIsEmpty

\* A row written under a key that nobody else holds.
LEMMA SalesStores ==
    ASSUME SalesIInv, NEW d \in Doc, NEW row \in DocRow, Stores(d, row),
           KeyAvailable(d, row.key) \/ row.key = doc[d].key,
           row.status = "APPROVED" => row.items /\ row.reviewed,
           row.status = "REJECTED" => ~row.items /\ row.reviewed
    PROVE  /\ doc' \in [Doc -> DocRow]
           /\ OneDocumentPerKey' /\ ApprovedIsReviewed' /\ RejectedIsEmpty'
<1>1. /\ doc' \in [Doc -> DocRow] /\ doc'[d] = row
      /\ \A e \in Doc : e # d => doc'[e] = doc[e]
  BY DEF SalesIInv, SalesTypeOK, Stores
<1>2. \A e \in Doc : e # d => row.key = NoKey \/ doc[e].key # row.key
  BY DEF SalesIInv, OneDocumentPerKey, KeyAvailable, Holders
<1>3. OneDocumentPerKey'
  BY <1>1, <1>2 DEF SalesIInv, OneDocumentPerKey
<1>4. ApprovedIsReviewed' /\ RejectedIsEmpty'
  BY <1>1 DEF SalesIInv, ApprovedIsReviewed, RejectedIsEmpty, Approved
<1>5. QED
  BY <1>1, <1>3, <1>4

\* Documents that nobody writes.
LEMMA SalesRests ==
    ASSUME SalesIInv, UNCHANGED doc
    PROVE  /\ doc' \in [Doc -> DocRow]
           /\ OneDocumentPerKey' /\ ApprovedIsReviewed' /\ RejectedIsEmpty'
  BY DEF SalesIInv, SalesTypeOK, OneDocumentPerKey, ApprovedIsReviewed, RejectedIsEmpty, Approved

\* A request goes on, with what the code computes.
LEMMA SalesGoes ==
    ASSUME SalesIInv, NEW c \in Caller, NEW row \in CallRow, Goes(c, row),
           row.at \in {"checked", "read"} /\ row.op = "correct" => row.status = "PENDING_REVIEW",
           row.at = "checked" /\ row.op = "review" => row.status \in Verdict,
           row.op = "analyse" => row.was \notin {"APPROVED", "REJECTED"},
           row.was # "APPROVED",
           row.at = "extracted" => row.status \in {"PENDING_REVIEW", "DUPLICATE"}
    PROVE  /\ call' \in [Caller -> CallRow \cup {NoCall}]
           /\ \A b \in Caller : SalesCallOK(b)'
<1>1. /\ call' \in [Caller -> CallRow \cup {NoCall}] /\ call'[c] = row
      /\ \A b \in Caller : b # c => call'[b] = call[b]
  BY DEF SalesIInv, SalesTypeOK, Goes
<1>2. SalesCallOK(c)'
  BY <1>1 DEF SalesCallOK
<1>3. \A b \in Caller : b # c => SalesCallOK(b)'
  BY <1>1 DEF SalesIInv, SalesCallOK
<1>4. QED
  BY <1>1, <1>2, <1>3

\* A call is over: the others are as they were.
LEMMA SalesEnds ==
    ASSUME SalesIInv, NEW c \in Caller, Ends(c)
    PROVE  /\ call' \in [Caller -> CallRow \cup {NoCall}]
           /\ \A b \in Caller : SalesCallOK(b)'
<1>1. /\ call' \in [Caller -> CallRow \cup {NoCall}] /\ call'[c] = NoCall
      /\ \A b \in Caller : b # c => call'[b] = call[b]
  BY DEF SalesIInv, SalesTypeOK, Ends, Goes
<1>2. SalesCallOK(c)'
  BY <1>1 DEF SalesCallOK, NoCall
<1>3. \A b \in Caller : b # c => SalesCallOK(b)'
  BY <1>1 DEF SalesIInv, SalesCallOK
<1>4. QED
  BY <1>1, <1>2, <1>3

\* The fields of a request under way.
LEMMA SalesCallShape ==
    ASSUME SalesIInv, NEW c \in Caller, call[c].at # "idle"
    PROVE  /\ call[c] \in CallRow /\ call[c] # NoCall
           /\ call[c].op \in {"correct", "review", "analyse", "upload"}
           /\ call[c].on \in Doc /\ call[c].was \in SalesStatus /\ call[c].status \in SalesStatus
           /\ call[c].key \in AccessKey /\ call[c].todo \in SUBSET Key
  BY DEF SalesIInv, SalesTypeOK, CallRow, NoCall

\* A request that has looked up the key it was given or has read.
LEMMA SalesExtracted ==
    ASSUME SalesIInv, NEW c \in Caller, call[c].at # "idle", call[c].op \in {"analyse", "upload"},
           NEW k \in AccessKey, Goes(c, Extracted(call[c], k))
    PROVE  /\ call' \in [Caller -> CallRow \cup {NoCall}]
           /\ \A b \in Caller : SalesCallOK(b)'
<1> DEFINE row == Extracted(call[c], k)
<1>1. /\ call[c].on \in Doc /\ call[c].was \in SalesStatus /\ call[c].todo \in SUBSET Key
  BY SalesCallShape
<1>2. /\ row \in CallRow /\ row.at = "extracted" /\ row.op = call[c].op
      /\ row.was = call[c].was /\ row.status \in {"PENDING_REVIEW", "DUPLICATE"}
  BY <1>1 DEF Extracted, CallRow, SalesStatus, AccessKey
<1>3. /\ call[c].op = "analyse" => call[c].was \notin {"APPROVED", "REJECTED"}
      /\ call[c].was # "APPROVED"
  BY DEF SalesIInv, SalesCallOK
<1> HIDE DEF row
<1>4. Goes(c, row)
  BY DEF row
<1>5. QED
  BY <1>2, <1>3, <1>4, SalesGoes

\* An analysis fails: the call still knows what to put back.
LEMMA SalesFails ==
    ASSUME SalesIInv, NEW c \in Caller, call[c].at # "idle", call[c].op = "analyse",
           Goes(c, Fails(call[c]))
    PROVE  /\ call' \in [Caller -> CallRow \cup {NoCall}]
           /\ \A b \in Caller : SalesCallOK(b)'
<1> DEFINE row == Fails(call[c])
<1>1. call[c].on \in Doc /\ call[c].was \in SalesStatus
  BY SalesCallShape
<1>2. /\ row \in CallRow /\ row.at = "failed" /\ row.op = "analyse" /\ row.was = call[c].was
  BY <1>1 DEF Fails, CallRow, AccessKey
<1>3. call[c].was \notin {"APPROVED", "REJECTED"}
  BY DEF SalesIInv, SalesCallOK
<1> HIDE DEF row
<1>4. Goes(c, row)
  BY DEF row
<1>5. QED
  BY <1>2, <1>3, <1>4, SalesGoes

\* The fields of a row, and what makes one.
LEMMA SalesRowShape ==
    ASSUME NEW row \in DocRow
    PROVE  row.key \in AccessKey /\ row.items \in BOOLEAN /\ row.reviewed \in BOOLEAN
<1>1. CASE row = NoDoc
  <2>1. row.key = NoKey /\ row.items = FALSE /\ row.reviewed = FALSE
    BY <1>1 DEF NoDoc
  <2>2. QED
    BY <2>1 DEF AccessKey
<1>2. CASE row # NoDoc
  BY <1>2 DEF DocRow
<1>3. QED
  BY <1>1, <1>2

\* A row made of its fields is a row.
LEMMA SalesRow ==
    ASSUME NEW s \in SalesStatus, NEW k \in AccessKey, NEW i \in BOOLEAN, NEW v \in BOOLEAN
    PROVE  [status |-> s, key |-> k, items |-> i, reviewed |-> v] \in DocRow
  BY DEF DocRow

\* What an extraction leaves is neither approved nor rejected, and has the key that
\* was looked up.
LEMMA SalesApplied ==
    ASSUME SalesIInv, NEW c \in Caller, call[c].at = "extracted",
           NEW row \in Applied(call[c], doc[call[c].on])
    PROVE  /\ row \in DocRow /\ row.status \notin {"APPROVED", "REJECTED"}
           /\ row.key \in {NoKey, call[c].key}
<1>1. doc[call[c].on] \in DocRow /\ call[c].key \in AccessKey
  BY SalesCallShape DEF SalesIInv, SalesTypeOK
<1>2. doc[call[c].on].reviewed \in BOOLEAN
  BY <1>1, SalesRowShape
<1>3. CASE call[c].status = "DUPLICATE"
  <2>1. row = [status |-> "DUPLICATE", key |-> NoKey, items |-> FALSE,
               reviewed |-> doc[call[c].on].reviewed]
    BY <1>3 DEF Applied
  <2>2. "DUPLICATE" \in SalesStatus /\ NoKey \in AccessKey /\ FALSE \in BOOLEAN
    BY DEF SalesStatus, AccessKey
  <2>3. row \in DocRow
    BY <1>2, <2>1, <2>2, SalesRow
  <2>4. QED
    BY <2>1, <2>3
<1>4. CASE call[c].status # "DUPLICATE"
  <2>1. PICK x \in Extraction :
            /\ x.key = call[c].key
            /\ row = [status |-> IF x.enough THEN "PENDING_REVIEW" ELSE "UPLOADED", key |-> x.key,
                      items |-> x.items, reviewed |-> doc[call[c].on].reviewed]
    BY <1>4 DEF Applied
  <2>2. x.items \in BOOLEAN /\ x.key \in AccessKey
    BY <2>1 DEF Extraction
  <2>3. QED
    BY <1>2, <2>1, <2>2 DEF DocRow, SalesStatus
<1>5. QED
  BY <1>3, <1>4

\* A document without a key takes none from another.
LEMMA SalesFree ==
    ASSUME SalesIInv, NEW d \in Doc
    PROVE  KeyAvailable(d, NoKey)
  BY DEF KeyAvailable, Holders

\* A row that is new or empties out, still being extracted.
LEMMA SalesOpens ==
    ASSUME SalesIInv, NEW d \in Doc, NEW s \in {"UPLOADED", "EXTRACTING"},
           Stores(d, [status |-> s, key |-> NoKey, items |-> FALSE, reviewed |-> FALSE])
    PROVE  /\ doc' \in [Doc -> DocRow]
           /\ OneDocumentPerKey' /\ ApprovedIsReviewed' /\ RejectedIsEmpty'
<1> DEFINE row == [status |-> s, key |-> NoKey, items |-> FALSE, reviewed |-> FALSE]
<1>1. row \in DocRow /\ row.key = NoKey /\ row.status \notin {"APPROVED", "REJECTED"}
  BY DEF DocRow, SalesStatus, AccessKey
<1>2. KeyAvailable(d, NoKey)
  BY SalesFree
<1> HIDE DEF row
<1>3. Stores(d, row)
  BY DEF row
<1>4. QED
  BY <1>1, <1>2, <1>3, SalesStores

\* A call reads the document it is about.
LEMMA SalesBegin ==
    ASSUME SalesIInv, NEW c \in Caller, NEW d \in Doc,
           BeginCorrection(c, d) \/ BeginReview(c, d) \/ BeginAnalysis(c, d)
    PROVE  SalesIInv'
<1>1. doc' \in [Doc -> DocRow] /\ OneDocumentPerKey' /\ ApprovedIsReviewed' /\ RejectedIsEmpty'
  BY SalesRests DEF BeginCorrection, BeginReview, BeginAnalysis
<1>2. call' \in [Caller -> CallRow \cup {NoCall}] /\ \A b \in Caller : SalesCallOK(b)'
  <2>1. CASE BeginCorrection(c, d)
    <3> DEFINE row == [at |-> "read", op |-> "correct", on |-> d, was |-> Read(d),
                       status |-> "PENDING_REVIEW", key |-> NoKey, todo |-> {}]
    <3>1. Read(d) = "UPLOADED"
      BY <2>1 DEF BeginCorrection, Correctable, Read, Approved
    <3>2. /\ row \in CallRow /\ row.at = "read" /\ row.op = "correct" /\ row.was = "UPLOADED"
          /\ row.status = "PENDING_REVIEW"
      BY <3>1 DEF CallRow, SalesStatus, AccessKey
    <3>3. Goes(c, row)
      BY <2>1 DEF BeginCorrection
    <3> HIDE DEF row
    <3>4. QED
      BY <3>2, <3>3, SalesGoes
  <2>2. CASE BeginReview(c, d)
    <3> DEFINE row == [at |-> "read", op |-> "review", on |-> d, was |-> "UPLOADED",
                       status |-> "UPLOADED", key |-> NoKey, todo |-> {}]
    <3>1. /\ row \in CallRow /\ row.at = "read" /\ row.op = "review" /\ row.was = "UPLOADED"
      BY DEF CallRow, SalesStatus, AccessKey
    <3>2. Goes(c, row)
      BY <2>2 DEF BeginReview
    <3> HIDE DEF row
    <3>3. QED
      BY <3>1, <3>2, SalesGoes
  <2>3. CASE BeginAnalysis(c, d)
    <3> DEFINE row == [at |-> "read", op |-> "analyse", on |-> d, was |-> doc[d].status,
                       status |-> "EXTRACTING", key |-> NoKey, todo |-> {}]
    <3>1. doc[d].status \in SalesStatus /\ doc[d].status \notin {"APPROVED", "REJECTED"}
      <4>1. doc[d] \in DocRow /\ doc[d].status # "NONE"
        BY <2>3 DEF BeginAnalysis, Exists, SalesIInv, SalesTypeOK
      <4>2. QED
        BY <2>3, <4>1 DEF BeginAnalysis, Analysable, DocRow, NoDoc
    <3>2. /\ row \in CallRow /\ row.at = "read" /\ row.op = "analyse" /\ row.was = doc[d].status
      BY <3>1 DEF CallRow, SalesStatus, AccessKey
    <3>3. Goes(c, row)
      BY <2>3 DEF BeginAnalysis
    <3> HIDE DEF row
    <3>4. QED
      BY <3>1, <3>2, <3>3, SalesGoes
  <2>4. QED
    BY <2>1, <2>2, <2>3
<1>3. QED
  BY <1>1, <1>2 DEF SalesIInv, SalesTypeOK

\* It looks whether the key is taken.
LEMMA SalesCheckKey ==
    ASSUME SalesIInv, NEW c \in Caller, CheckKey(c)
    PROVE  SalesIInv'
<1> DEFINE r == call[c]
<1>1. /\ r.at = "read" /\ r.op \in {"correct", "review"}
      /\ UNCHANGED doc
  BY DEF CheckKey, At
<1>2. doc' \in [Doc -> DocRow] /\ OneDocumentPerKey' /\ ApprovedIsReviewed' /\ RejectedIsEmpty'
  BY <1>1, SalesRests
<1>3. r.on \in Doc /\ r.was \in SalesStatus /\ r.was # "APPROVED"
  BY <1>1, SalesCallShape DEF SalesIInv, SalesCallOK
<1>4. call' \in [Caller -> CallRow \cup {NoCall}] /\ \A b \in Caller : SalesCallOK(b)'
  <2>1. CASE Ends(c)
    BY <2>1, SalesEnds
  <2>2. CASE ~Ends(c)
    <3>1. PICK status \in Decided(r.op), k \in AccessKey :
            Goes(c, [at |-> "checked", op |-> r.op, on |-> r.on, was |-> r.was,
                     status |-> status, key |-> k, todo |-> {}])
      BY <2>2 DEF CheckKey
    <3> DEFINE row == [at |-> "checked", op |-> r.op, on |-> r.on, was |-> r.was,
                       status |-> status, key |-> k, todo |-> {}]
    <3>2. /\ status \in SalesStatus
          /\ r.op = "correct" => status = "PENDING_REVIEW"
          /\ r.op = "review" => status \in Verdict
      BY <1>1 DEF Decided, SalesStatus, Verdict
    <3>3. /\ row \in CallRow /\ row.at = "checked" /\ row.op = r.op /\ row.was = r.was
          /\ row.status = status
      BY <1>1, <1>3, <3>2 DEF CallRow
    <3>4. Goes(c, row)
      BY <3>1
    <3> HIDE DEF row
    <3>5. QED
      BY <1>1, <1>3, <3>2, <3>3, <3>4, SalesGoes
  <2>3. QED
    BY <2>1, <2>2
<1>5. QED
  BY <1>2, <1>4 DEF SalesIInv, SalesTypeOK

\* It writes the correction, or the review.
LEMMA SalesWriteDecision ==
    ASSUME SalesIInv, NEW c \in Caller, WriteDecision(c)
    PROVE  SalesIInv'
<1> DEFINE r == call[c]
<1>1. r.at = "checked" /\ r.op \in {"correct", "review"} /\ Ends(c)
  BY DEF WriteDecision, At
<1>2. call' \in [Caller -> CallRow \cup {NoCall}] /\ \A b \in Caller : SalesCallOK(b)'
  BY <1>1, SalesEnds
<1>3. /\ r.on \in Doc /\ r.key \in AccessKey /\ r.status \in SalesStatus
      /\ r.op = "correct" => r.status = "PENDING_REVIEW"
  BY <1>1, SalesCallShape DEF SalesIInv, SalesCallOK
<1>4. doc' \in [Doc -> DocRow] /\ OneDocumentPerKey' /\ ApprovedIsReviewed' /\ RejectedIsEmpty'
  <2>1. CASE UNCHANGED doc
    BY <2>1, SalesRests
  <2>2. CASE doc' # doc
    <3>1. PICK items \in ItemsOf(r.status) :
              /\ KeyAvailable(r.on, r.key)
              /\ Stores(r.on, [status |-> r.status, key |-> r.key, items |-> items,
                               reviewed |-> r.op = "review"])
      BY <2>2 DEF WriteDecision
    <3> DEFINE row == [status |-> r.status, key |-> r.key, items |-> items,
                       reviewed |-> r.op = "review"]
    <3>2. /\ items \in BOOLEAN
          /\ r.status = "APPROVED" => items
          /\ r.status = "REJECTED" => ~items
      BY DEF ItemsOf
    <3>3. (r.op = "review") \in BOOLEAN
      OBVIOUS
    <3>4. /\ row \in DocRow /\ row.key = r.key /\ row.status = r.status /\ row.items = items
          /\ (r.status \in {"APPROVED", "REJECTED"} => row.reviewed)
      BY <1>1, <1>3, <3>2, <3>3 DEF DocRow
    <3>5. Stores(r.on, row)
      BY <3>1
    <3> HIDE DEF row
    <3>6. QED
      BY <1>3, <3>1, <3>2, <3>4, <3>5, SalesStores
  <2>3. QED
    BY <2>1, <2>2
<1>5. QED
  BY <1>2, <1>4 DEF SalesIInv, SalesTypeOK

\* Only the status of a row is written.
LEMMA SalesStatusWritten ==
    ASSUME SalesIInv, NEW d \in Doc, NEW s \in SalesStatus, s \notin {"APPROVED", "REJECTED"},
           Stores(d, [status |-> s, key |-> doc[d].key, items |-> doc[d].items,
                      reviewed |-> doc[d].reviewed])
    PROVE  /\ doc' \in [Doc -> DocRow]
           /\ OneDocumentPerKey' /\ ApprovedIsReviewed' /\ RejectedIsEmpty'
<1> DEFINE row == [status |-> s, key |-> doc[d].key, items |-> doc[d].items,
                   reviewed |-> doc[d].reviewed]
<1>1. doc[d] \in DocRow
  BY DEF SalesIInv, SalesTypeOK
<1>2. row \in DocRow /\ row.status = s /\ row.key = doc[d].key
  BY <1>1, SalesRowShape, SalesRow
<1> HIDE DEF row
<1>3. Stores(d, row)
  BY DEF row
<1>4. QED
  BY <1>2, <1>3, SalesStores

\* A document is analysed: marked, extracted, applied, or put back.
LEMMA SalesAnalysis ==
    ASSUME SalesIInv, NEW c \in Caller,
           MarkExtracting(c) \/ Extract(c) \/ ApplyAnalysis(c) \/ RestoreStatus(c)
    PROVE  SalesIInv'
<1> DEFINE r == call[c]
<1>1. r.at \in {"read", "marked", "extracted", "failed"} /\ r.op = "analyse"
  BY DEF MarkExtracting, Extract, ApplyAnalysis, RestoreStatus, At
<1>2. /\ r \in CallRow /\ r.on \in Doc /\ r.was \in SalesStatus /\ r.status \in SalesStatus
      /\ r.key \in AccessKey /\ r.todo \in SUBSET Key
      /\ r.was \notin {"APPROVED", "REJECTED"}
  BY <1>1, SalesCallShape DEF SalesIInv, SalesCallOK
<1>3. CASE MarkExtracting(c)
  <2>1. doc' \in [Doc -> DocRow] /\ OneDocumentPerKey' /\ ApprovedIsReviewed' /\ RejectedIsEmpty'
    <3>1. Stores(r.on, [status |-> "EXTRACTING", key |-> doc[r.on].key, items |-> doc[r.on].items,
                        reviewed |-> doc[r.on].reviewed])
      BY <1>3 DEF MarkExtracting
    <3>2. "EXTRACTING" \in SalesStatus
      BY DEF SalesStatus
    <3>3. QED
      BY <1>2, <3>1, <3>2, SalesStatusWritten
  <2>2. call' \in [Caller -> CallRow \cup {NoCall}] /\ \A b \in Caller : SalesCallOK(b)'
    <3> DEFINE row == [at |-> "marked", op |-> r.op, on |-> r.on, was |-> r.was,
                       status |-> r.status, key |-> r.key, todo |-> r.todo]
    <3>1. /\ row \in CallRow /\ row.at = "marked" /\ row.op = "analyse" /\ row.was = r.was
      BY <1>1, <1>2 DEF CallRow
    <3>2. Goes(c, row)
      BY <1>3 DEF MarkExtracting
    <3> HIDE DEF row
    <3>3. QED
      BY <1>2, <3>1, <3>2, SalesGoes
  <2>3. QED
    BY <2>1, <2>2 DEF SalesIInv, SalesTypeOK
<1>4. CASE Extract(c)
  <2>1. doc' \in [Doc -> DocRow] /\ OneDocumentPerKey' /\ ApprovedIsReviewed' /\ RejectedIsEmpty'
    BY <1>4, SalesRests DEF Extract
  <2>2. call' \in [Caller -> CallRow \cup {NoCall}] /\ \A b \in Caller : SalesCallOK(b)'
    <3>1. CASE \E k \in AccessKey : Goes(c, Extracted(r, k))
      BY <1>1, <3>1, SalesExtracted
    <3>2. CASE Goes(c, Fails(r))
      BY <1>1, <3>2, SalesFails
    <3>3. QED
      BY <1>4, <3>1, <3>2 DEF Extract
  <2>3. QED
    BY <2>1, <2>2 DEF SalesIInv, SalesTypeOK
<1>5. CASE ApplyAnalysis(c)
  <2>1. CASE KeyAvailable(r.on, r.key)
    <3>1. r.at = "extracted" /\ Ends(c)
      BY <1>5, <2>1 DEF ApplyAnalysis, At
    <3>2. PICK row \in Applied(r, doc[r.on]) : Stores(r.on, row)
      BY <1>5, <2>1 DEF ApplyAnalysis
    <3>3. /\ row \in DocRow /\ row.status \notin {"APPROVED", "REJECTED"}
          /\ row.key \in {NoKey, r.key}
      BY <3>1, SalesApplied
    <3>4. KeyAvailable(r.on, row.key)
      BY <1>2, <2>1, <3>3, SalesFree
    <3>5. doc' \in [Doc -> DocRow] /\ OneDocumentPerKey' /\ ApprovedIsReviewed' /\ RejectedIsEmpty'
      BY <1>2, <3>2, <3>3, <3>4, SalesStores
    <3>6. call' \in [Caller -> CallRow \cup {NoCall}] /\ \A b \in Caller : SalesCallOK(b)'
      BY <3>1, SalesEnds
    <3>7. QED
      BY <3>5, <3>6 DEF SalesIInv, SalesTypeOK
  <2>2. CASE ~KeyAvailable(r.on, r.key)
    <3>1. Goes(c, Fails(r)) /\ UNCHANGED doc
      BY <1>5, <2>2 DEF ApplyAnalysis
    <3>2. doc' \in [Doc -> DocRow] /\ OneDocumentPerKey' /\ ApprovedIsReviewed' /\ RejectedIsEmpty'
      BY <3>1, SalesRests
    <3>3. call' \in [Caller -> CallRow \cup {NoCall}] /\ \A b \in Caller : SalesCallOK(b)'
      BY <1>1, <3>1, SalesFails
    <3>4. QED
      BY <3>2, <3>3 DEF SalesIInv, SalesTypeOK
  <2>3. QED
    BY <2>1, <2>2
<1>6. CASE RestoreStatus(c)
  <2>1. /\ Stores(r.on, [status |-> r.was, key |-> doc[r.on].key, items |-> doc[r.on].items,
                         reviewed |-> doc[r.on].reviewed])
        /\ Ends(c)
    BY <1>6 DEF RestoreStatus
  <2>2. doc' \in [Doc -> DocRow] /\ OneDocumentPerKey' /\ ApprovedIsReviewed' /\ RejectedIsEmpty'
    BY <1>2, <2>1, SalesStatusWritten
  <2>3. call' \in [Caller -> CallRow \cup {NoCall}] /\ \A b \in Caller : SalesCallOK(b)'
    BY <2>1, SalesEnds
  <2>4. QED
    BY <2>2, <2>3 DEF SalesIInv, SalesTypeOK
<1>7. QED
  BY <1>3, <1>4, <1>5, <1>6

\* The row of an invoice is made, and the request about to look it up.
LEMMA SalesStoring ==
    ASSUME SalesIInv, NEW c \in Caller, NEW d \in Doc, NEW todo \in SUBSET Key,
           Stores(d, [status |-> "EXTRACTING", key |-> NoKey, items |-> FALSE, reviewed |-> FALSE]),
           Goes(c, [at |-> "storing", op |-> "upload", on |-> d, was |-> "EXTRACTING",
                    status |-> "EXTRACTING", key |-> NoKey, todo |-> todo])
    PROVE  SalesIInv'
<1> DEFINE row == [at |-> "storing", op |-> "upload", on |-> d, was |-> "EXTRACTING",
                   status |-> "EXTRACTING", key |-> NoKey, todo |-> todo]
<1>1. doc' \in [Doc -> DocRow] /\ OneDocumentPerKey' /\ ApprovedIsReviewed' /\ RejectedIsEmpty'
  BY SalesOpens
<1>2. /\ row \in CallRow /\ row.at = "storing" /\ row.op = "upload" /\ row.was = "EXTRACTING"
  BY DEF CallRow, SalesStatus, AccessKey
<1>3. Goes(c, row)
  OBVIOUS
<1> HIDE DEF row
<1>4. call' \in [Caller -> CallRow \cup {NoCall}] /\ \A b \in Caller : SalesCallOK(b)'
  BY <1>2, <1>3, SalesGoes
<1>5. QED
  BY <1>1, <1>4 DEF SalesIInv, SalesTypeOK

\* A file is stored, invoice by invoice.
LEMMA SalesUpload ==
    ASSUME SalesIInv, NEW c \in Caller,
           \/ \E d \in Doc, invoices \in SUBSET Key : BeginUpload(c, d, invoices)
           \/ \E d \in Doc : NextInvoice(c, d)
           \/ \E k \in Key : LookUpInvoice(c, k)
           \/ StoreInvoice(c)
    PROVE  SalesIInv'
<1> DEFINE r == call[c]
<1>1. ASSUME NEW d \in Doc, NEW invoices \in SUBSET Key, BeginUpload(c, d, invoices)
      PROVE  SalesIInv'
  <2>1. CASE invoices = {}
    <3>1. /\ Stores(d, [status |-> "UPLOADED", key |-> NoKey, items |-> FALSE, reviewed |-> FALSE])
          /\ UNCHANGED call
      BY <1>1, <2>1 DEF BeginUpload
    <3>2. doc' \in [Doc -> DocRow] /\ OneDocumentPerKey' /\ ApprovedIsReviewed' /\ RejectedIsEmpty'
      BY <3>1, SalesOpens
    <3>3. QED
      BY <3>1, <3>2 DEF SalesIInv, SalesTypeOK, SalesCallOK
  <2>2. CASE invoices # {}
    BY <1>1, <2>2, SalesStoring DEF BeginUpload
  <2>3. QED
    BY <2>1, <2>2
<1>2. ASSUME NEW d \in Doc, NextInvoice(c, d) PROVE SalesIInv'
  <2>1. r.todo \in SUBSET Key
    BY <1>2, SalesCallShape DEF NextInvoice, At
  <2>2. QED
    BY <1>2, <2>1, SalesStoring DEF NextInvoice
<1>3. ASSUME NEW k \in Key, LookUpInvoice(c, k) PROVE SalesIInv'
  <2>1. doc' \in [Doc -> DocRow] /\ OneDocumentPerKey' /\ ApprovedIsReviewed' /\ RejectedIsEmpty'
    BY <1>3, SalesRests DEF LookUpInvoice
  <2>2. call' \in [Caller -> CallRow \cup {NoCall}] /\ \A b \in Caller : SalesCallOK(b)'
    <3>1. k \in AccessKey
      BY DEF AccessKey
    <3>2. r.at # "idle" /\ r.op = "upload" /\ Goes(c, Extracted(r, k))
      BY <1>3 DEF LookUpInvoice, At
    <3>3. QED
      BY <3>1, <3>2, SalesExtracted
  <2>3. QED
    BY <2>1, <2>2 DEF SalesIInv, SalesTypeOK
<1>4. CASE StoreInvoice(c)
  <2>1. r.at = "extracted" /\ r.op = "upload"
    BY <1>4 DEF StoreInvoice, At
  <2>2. /\ r.on \in Doc /\ r.was \in SalesStatus /\ r.status \in SalesStatus
        /\ r.key \in AccessKey /\ r.todo \in SUBSET Key /\ r.was # "APPROVED"
    BY <2>1, SalesCallShape DEF SalesIInv, SalesCallOK
  <2>3. doc' \in [Doc -> DocRow] /\ OneDocumentPerKey' /\ ApprovedIsReviewed' /\ RejectedIsEmpty'
    <3>1. CASE KeyAvailable(r.on, r.key)
      <4>1. PICK row \in Applied(r, doc[r.on]) : Stores(r.on, row)
        BY <1>4, <3>1 DEF StoreInvoice
      <4>2. /\ row \in DocRow /\ row.status \notin {"APPROVED", "REJECTED"}
            /\ row.key \in {NoKey, r.key}
        BY <2>1, SalesApplied
      <4>3. KeyAvailable(r.on, row.key)
        BY <2>2, <3>1, <4>2, SalesFree
      <4>4. QED
        BY <2>2, <4>1, <4>2, <4>3, SalesStores
    <3>2. CASE ~KeyAvailable(r.on, r.key)
      BY <1>4, <3>2, SalesRests DEF StoreInvoice
    <3>3. QED
      BY <3>1, <3>2
  <2>4. call' \in [Caller -> CallRow \cup {NoCall}] /\ \A b \in Caller : SalesCallOK(b)'
    <3>1. CASE Ends(c)
      BY <3>1, SalesEnds
    <3>2. CASE ~Ends(c)
      <4> DEFINE row == [at |-> "checked", op |-> r.op, on |-> r.on, was |-> r.was,
                         status |-> r.status, key |-> r.key, todo |-> r.todo]
      <4>1. /\ row \in CallRow /\ row.at = "checked" /\ row.op = "upload" /\ row.was = r.was
        BY <2>1, <2>2 DEF CallRow
      <4>2. Goes(c, row)
        BY <1>4, <3>2 DEF StoreInvoice
      <4> HIDE DEF row
      <4>3. QED
        BY <2>2, <4>1, <4>2, SalesGoes
    <3>3. QED
      BY <3>1, <3>2
  <2>5. QED
    BY <2>3, <2>4 DEF SalesIInv, SalesTypeOK
<1>5. QED
  BY <1>1, <1>2, <1>3, <1>4

\* The initial state satisfies the invariant, and every step keeps it.
LEMMA SalesInvariance == SalesSpec => []SalesIInv
<1>1. SalesInit => SalesIInv
  BY DEF SalesInit, SalesIInv, SalesTypeOK, SalesCallOK, OneDocumentPerKey, ApprovedIsReviewed,
         RejectedIsEmpty, Approved, NoDoc, NoCall, DocRow
<1>2. SalesIInv /\ [SalesNext]_salesVars => SalesIInv'
  <2> SUFFICES ASSUME SalesIInv, [SalesNext]_salesVars PROVE SalesIInv'
    OBVIOUS
  <2>1. ASSUME NEW c \in Caller, Die(c) PROVE SalesIInv'
    <3>1. Ends(c) /\ UNCHANGED doc
      BY <2>1 DEF Die
    <3>2. QED
      BY <3>1, SalesEnds, SalesRests DEF SalesIInv, SalesTypeOK
  <2>2. CASE UNCHANGED salesVars
    BY <2>2, SalesRests DEF salesVars, SalesIInv, SalesTypeOK, SalesCallOK
  <2>3. CASE SalesNext
    BY <2>1, <2>3, SalesBegin, SalesCheckKey, SalesWriteDecision, SalesAnalysis, SalesUpload
    DEF SalesNext
  <2>4. QED
    BY <2>2, <2>3
<1>3. QED
  BY <1>1, <1>2, PTL DEF SalesSpec

\* The rows and the requests have the shape the schema and the code give them.
THEOREM SalesTypeCorrect == SalesSpec => []SalesTypeOK
  BY SalesInvariance, PTL DEF SalesIInv

\* However requests about one invoice interleave, one document holds its key.
THEOREM NoSaleCountsTwice == SalesSpec => []OneDocumentPerKey
  BY SalesInvariance, PTL DEF SalesIInv

\* What the ranking counts was reviewed and has items.
THEOREM ApprovedWereReviewed == SalesSpec => []ApprovedIsReviewed
  BY SalesInvariance, PTL DEF SalesIInv

\* A rejected document stays empty, whatever status is put back late.
THEOREM RejectedStayEmpty == SalesSpec => []RejectedIsEmpty
  BY SalesInvariance, PTL DEF SalesIInv

\* An approval is undone only by a request under way that had read the document
\* before it was approved, or by another review.
THEOREM ApprovalsLostToStaleCalls == SalesSpec => LostOnlyToStaleCalls
<1> DEFINE A == \A d \in Doc :
                    Approved(d) /\ ~Approved(d)' =>
                        \E c \in Caller :
                            /\ call[c] # NoCall
                            /\ call[c].on = d
                            /\ call[c].op = "review" \/ call[c].was # "APPROVED"
<1>1. ASSUME SalesIInv, [SalesNext]_salesVars PROVE [A]_salesVars
  <2>1. SUFFICES ASSUME NEW d \in Doc, Approved(d), ~Approved(d)'
                 PROVE  \E c \in Caller : call[c].at # "idle" /\ call[c].on = d
    <3>1. \A c \in Caller : call[c].at # "idle" => call[c] # NoCall /\ call[c].was # "APPROVED"
      BY <1>1 DEF SalesIInv, SalesCallOK, NoCall
    <3>2. QED
      BY <3>1
  <2>2. Exists(d) /\ doc' # doc
    BY <2>1 DEF Approved, Exists
  <2>3. ASSUME NEW e \in Doc, e # d, NEW row, Stores(e, row) PROVE FALSE
    BY <1>1, <2>1, <2>3 DEF Stores, Approved, SalesIInv, SalesTypeOK
  <2>4. ASSUME NEW c \in Caller, call[c].at # "idle", NEW row, Stores(call[c].on, row)
        PROVE  call[c].at # "idle" /\ call[c].on = d
    BY <1>1, <2>3, <2>4, SalesCallShape
  <2>5. ASSUME NEW c \in Caller, WriteDecision(c) \/ StoreInvoice(c)
        PROVE  call[c].at # "idle" /\ call[c].on = d
    BY <2>2, <2>4, <2>5 DEF WriteDecision, StoreInvoice, At
  <2>6. ASSUME NEW c \in Caller, MarkExtracting(c) \/ ApplyAnalysis(c) \/ RestoreStatus(c)
        PROVE  call[c].at # "idle" /\ call[c].on = d
    BY <2>2, <2>4, <2>6 DEF MarkExtracting, ApplyAnalysis, RestoreStatus, At
  <2>7. ASSUME NEW c \in Caller, NEW e \in Doc,
               NextInvoice(c, e) \/ \E invoices \in SUBSET Key : BeginUpload(c, e, invoices)
        PROVE  FALSE
    BY <2>2, <2>3, <2>7 DEF NextInvoice, BeginUpload
  <2>8. ASSUME NEW c \in Caller,
               \/ CheckKey(c) \/ Extract(c) \/ Die(c)
               \/ \E k \in Key : LookUpInvoice(c, k)
               \/ \E e \in Doc : BeginCorrection(c, e) \/ BeginReview(c, e) \/ BeginAnalysis(c, e)
        PROVE  FALSE
    BY <2>2, <2>8
    DEF CheckKey, Extract, Die, LookUpInvoice, BeginCorrection, BeginReview, BeginAnalysis
  <2>9. CASE SalesNext
    BY <2>5, <2>6, <2>7, <2>8, <2>9 DEF SalesNext
  <2>10. CASE UNCHANGED salesVars
    BY <2>2, <2>10 DEF salesVars
  <2>11. QED
    BY <1>1, <2>9, <2>10
<1>2. QED
  BY <1>1, SalesInvariance, PTL DEF SalesSpec, LostOnlyToStaleCalls


\* What the ranking counts, it counts once, and it was reviewed as it stands.
THEOREM RankingHolds == SalesSpec => []RankingIsSound
  BY NoSaleCountsTwice, ApprovedWereReviewed, RejectedStayEmpty, PTL DEF RankingIsSound

-----------------------------------------------------------------------------
(* Licences and their documents.                                           *)

\* What a request at work has in hand: a link that exists, a document that is its
\* own to create, or one that exists.
TasksOK ==
    \A c \in Clerk :
        /\ task[c].at \in {"storing", "creating", "spending"} => link[task[c].by] # "none"
        /\ task[c].at \in {"judging", "spending"} => task[c].doc \in Documents
        /\ task[c].at = "creating" =>
            /\ task[c].doc \notin Documents
            /\ \A b \in Clerk \ {c} :
                task[b].at = "creating" => task[b].doc # task[c].doc

\* The documents that came through a link.
Through(t) == {d \in Documents : document[d].by = t}

\* The life of a link that two uploads never used at once.
Unused(t) == Using(t) = {} /\ Through(t) = {} /\ file[t] = {}
\* Or one clerk is using it,
InUse(t, c) ==
    /\ Using(t) = {c}
    /\ \/ task[c].at = "storing" /\ Through(t) = {} /\ file[t] = {}
       \/ task[c].at = "creating" /\ Through(t) = {} /\ file[t] = {task[c].doc}
       \/ task[c].at = "spending" /\ Through(t) = {task[c].doc} /\ file[t] = {task[c].doc}
\* or it was used, and for one document.
Spent(t) ==
    /\ Using(t) = {} /\ link[t] = "used"
    /\ \E d \in Documents : Through(t) = {d} /\ file[t] = {d}

\* A link is in one of the three states,
LinkOK(t) == Unused(t) \/ (\E c \in Clerk : InUse(t, c)) \/ Spent(t)
\* unless two uploads raced on it.
LinksOK == \A t \in Link \ raced : LinkOK(t)

\* While requests come one at a time, what the one at work has read still stands.
ReadStands(c) ==
    /\ task[c].at \in {"storing", "creating", "spending"} =>
            (task[c].inactive <=> licence.status = "INACTIVE")
    /\ task[c].at = "spending" => document[task[c].doc].status = "UPLOADED"
    /\ task[c].at = "touching" => Has("UPLOADED")
    /\ task[c].at = "writing" => task[c].status = Derived /\ licence.status # "INACTIVE"

\* Nobody else is at work while requests come one at a time.
SteadyOK ==
    ~unsteady =>
        /\ \A b, c \in Clerk : task[b] # NoTask /\ task[c] # NoTask => b = c
        /\ \A c \in Clerk : ReadStands(c)

\* The inductive invariant.
LicenceIInv == LicenceTypeOK /\ TasksOK /\ LinksOK /\ SteadyOK /\ StatusIsDerived

\* What a request carries at each of its steps.
LEMMA TaskShape ==
    ASSUME NEW t \in Task \cup {NoTask}
    PROVE  /\ t.at \in {"idle", "storing", "creating", "spending", "touching",
                         "judging", "recalculating", "writing"}
           /\ t.at \in {"storing", "creating", "spending"} => t.by \in Link /\ t.inactive \in BOOLEAN
           /\ t.at \in {"creating", "spending", "judging"} => t.doc \in Document
           /\ t.at = "writing" => t.status \in LicenceStatus
           /\ t.at = "idle" <=> t = NoTask
<1>1. CASE t = NoTask
  BY <1>1 DEF NoTask
<1>2. CASE t \in [at : {"storing"}, by : Link, inactive : BOOLEAN]
  BY <1>2 DEF NoTask
<1>3. CASE t \in [at : {"creating", "spending"}, by : Link, inactive : BOOLEAN, doc : Document]
  BY <1>3 DEF NoTask
<1>4. CASE t \in [at : {"touching"}, inactive : BOOLEAN]
  BY <1>4 DEF NoTask
<1>5. CASE t \in [at : {"judging"}, doc : Document]
  BY <1>5 DEF NoTask
<1>6. CASE t \in [at : {"recalculating"}]
  BY <1>6 DEF NoTask
<1>7. CASE t \in [at : {"writing"}, inactive : BOOLEAN, status : LicenceStatus]
  BY <1>7 DEF NoTask
<1>8. QED
  BY <1>1, <1>2, <1>3, <1>4, <1>5, <1>6, <1>7 DEF Task

\* The requests a clerk may be given are requests.
LEMMA MakeTask ==
    /\ \A t \in Link, i \in BOOLEAN : [at |-> "storing", by |-> t, inactive |-> i] \in Task
    /\ \A t \in Link, i \in BOOLEAN, d \in Document :
        /\ [at |-> "creating", by |-> t, inactive |-> i, doc |-> d] \in Task
        /\ [at |-> "spending", by |-> t, inactive |-> i, doc |-> d] \in Task
    /\ [at |-> "touching", inactive |-> FALSE] \in Task
    /\ \A d \in Document : [at |-> "judging", doc |-> d] \in Task
    /\ [at |-> "recalculating"] \in Task
    /\ \A i \in BOOLEAN, s \in LicenceStatus :
        [at |-> "writing", status |-> s, inactive |-> i] \in Task
  BY DEF Task

\* The status worked out is a status.
LEMMA DerivedType == LicenceTypeOK => Derived \in LicenceStatus
  BY DEF Derived, LicenceStatus

\* Who uses a link after one clerk has moved.
LEMMA UsingNext ==
    ASSUME LicenceTypeOK, NEW c \in Clerk, NEW n \in Task \cup {NoTask},
           task' = [task EXCEPT ![c] = n], NEW t \in Link
    PROVE  Using(t)' = IF n.at \in {"storing", "creating", "spending"} /\ n.by = t
                       THEN Using(t) \cup {c} ELSE Using(t) \ {c}
  BY DEF Using, LicenceTypeOK

\* A link's life goes on as it was while nothing of it changes.
LEMMA LinkFrame ==
    ASSUME NEW t \in Link, LinkOK(t), Through(t)' = Through(t), file'[t] = file[t],
           link[t] = "used" => link'[t] = "used", Using(t)' = Using(t),
           \A c \in Using(t) : task'[c] = task[c]
    PROVE  LinkOK(t)'
<1>1. CASE Unused(t)
  BY <1>1 DEF LinkOK, Unused
<1>2. ASSUME NEW c \in Clerk, InUse(t, c) PROVE LinkOK(t)'
  <2>1. task'[c] = task[c]
    BY <1>2 DEF InUse
  <2>2. InUse(t, c)'
    BY <1>2, <2>1 DEF InUse
  <2>3. QED
    BY <2>2 DEF LinkOK
<1>3. CASE Spent(t)
  <2>1. PICK d \in Documents : Through(t) = {d} /\ file[t] = {d}
    BY <1>3 DEF Spent
  <2>2. d \in Documents'
    BY <2>1 DEF Through
  <2>3. Spent(t)'
    BY <1>3, <2>1, <2>2 DEF Spent
  <2>4. QED
    BY <2>3 DEF LinkOK
<1>4. QED
  BY <1>1, <1>2, <1>3 DEF LinkOK

\* A step of one clerk leaves the links alone that it does not use.
LEMMA LinksByOne ==
    ASSUME LicenceTypeOK, LinksOK, NEW c \in Clerk, NEW n \in Task \cup {NoTask},
           task' = [task EXCEPT ![c] = n], raced \subseteq raced',
           \A t \in Link \ raced' :
              \/ LinkOK(t)'
              \/ /\ Through(t)' = Through(t) /\ file'[t] = file[t]
                 /\ link[t] = "used" => link'[t] = "used"
                 /\ c \notin Using(t)
                 /\ ~(n.at \in {"storing", "creating", "spending"} /\ n.by = t)
    PROVE  LinksOK'
<1> SUFFICES ASSUME NEW t \in Link \ raced' PROVE LinkOK(t)'
  BY DEF LinksOK
<1>1. LinkOK(t)
  BY DEF LinksOK
<1>2. CASE LinkOK(t)'
  BY <1>2
<1>3. ASSUME Through(t)' = Through(t), file'[t] = file[t],
             link[t] = "used" => link'[t] = "used", c \notin Using(t),
             ~(n.at \in {"storing", "creating", "spending"} /\ n.by = t)
      PROVE  LinkOK(t)'
  <2>0. t \in Link
    OBVIOUS
  <2>a. Using(t)' = IF n.at \in {"storing", "creating", "spending"} /\ n.by = t
                    THEN Using(t) \cup {c} ELSE Using(t) \ {c}
    BY <2>0, UsingNext
  <2>1. Using(t)' = Using(t)
    BY <1>3, <2>a
  <2>2. \A b \in Using(t) : task'[b] = task[b]
    BY <1>3 DEF Using, LicenceTypeOK
  <2>3. QED
    BY <1>1, <1>3, <2>1, <2>2, LinkFrame
<1>4. QED
  BY <1>2, <1>3

\* While requests come one at a time, only the one at work can have read anything.
LEMMA SteadyByOne ==
    ASSUME LicenceTypeOK, NEW c \in Clerk, NEW n \in Task \cup {NoTask},
           task' = [task EXCEPT ![c] = n],
           ~unsteady' => \A b \in Clerk \ {c} : task[b] = NoTask,
           ~unsteady' => ReadStands(c)'
    PROVE  SteadyOK'
<1>1. ASSUME ~unsteady', NEW b \in Clerk, b # c PROVE task'[b] = NoTask
  BY <1>1 DEF LicenceTypeOK
<1>2. ASSUME ~unsteady', NEW b \in Clerk PROVE ReadStands(b)'
  <2>1. CASE b = c
    BY <1>2, <2>1
  <2>2. CASE b # c
    <3>1. task'[b].at = "idle"
      BY <1>1, <1>2, <2>2 DEF NoTask
    <3>2. QED
      BY <3>1 DEF ReadStands
  <2>3. QED
    BY <2>1, <2>2
<1>3. QED
  BY <1>1, <1>2 DEF SteadyOK

\* The clerk at work is alone, while requests come one at a time.
LEMMA AtWorkAlone ==
    ASSUME SteadyOK, NEW c \in Clerk, task[c] # NoTask, ~unsteady
    PROVE  ReadStands(c) /\ \A b \in Clerk \ {c} : task[b] = NoTask
  BY DEF SteadyOK

-----------------------------------------------------------------------------
\* What the type invariant says, for a step of one clerk.
LEMMA LicenceTyped ==
    ASSUME LicenceTypeOK, NEW c \in Clerk, NEW n \in Task \cup {NoTask},
           task' = [task EXCEPT ![c] = n],
           licence' \in [status : LicenceStatus, last : LastDay],
           document' \in [Document -> DocumentRow \cup {NoDocument}],
           link' \in [Link -> LinkStatus],
           file' \in [Link -> SUBSET Document],
           \A d \in Document : document'[d] # NoDocument /\ document'[d].by # NoLink =>
              link'[document'[d].by] # "none"
    PROVE  LicenceTypeOK'
  BY DEF LicenceTypeOK, Documents

\* A link once made stays made, for every document that came through one.
LEMMA LinksStay ==
    ASSUME LicenceTypeOK, UNCHANGED document,
           \A t \in Link : link[t] # "none" => link'[t] # "none"
    PROVE  \A d \in Document : document'[d] # NoDocument /\ document'[d].by # NoLink =>
              link'[document'[d].by] # "none"
<1> SUFFICES ASSUME NEW d \in Document, document[d] # NoDocument, document[d].by # NoLink
             PROVE  link'[document[d].by] # "none"
  OBVIOUS
<1>1. document[d] \in DocumentRow /\ d \in Documents
  BY DEF LicenceTypeOK, Documents
<1>2. document[d].by \in Link /\ link[document[d].by] # "none"
  BY <1>1 DEF DocumentRow, LicenceTypeOK
<1>3. QED
  BY <1>2

\* What the requests at work have in hand, after a step of one clerk that leaves
\* the documents there are.
LEMMA TasksByOne ==
    ASSUME LicenceTypeOK, TasksOK, NEW c \in Clerk, NEW n \in Task \cup {NoTask},
           task' = [task EXCEPT ![c] = n], Documents' = Documents,
           \A t \in Link : link[t] # "none" => link'[t] # "none",
           n.at \in {"storing", "creating", "spending"} => link'[n.by] # "none",
           n.at \in {"judging", "spending"} => n.doc \in Documents,
           n.at = "creating" =>
              n.doc \notin Documents
              /\ \A b \in Clerk \ {c} : task[b].at = "creating" => task[b].doc # n.doc
    PROVE  TasksOK'
<1> SUFFICES ASSUME NEW a \in Clerk
             PROVE  /\ task'[a].at \in {"storing", "creating", "spending"} => link'[task'[a].by] # "none"
                    /\ task'[a].at \in {"judging", "spending"} => task'[a].doc \in Documents
                    /\ task'[a].at = "creating" =>
                        /\ task'[a].doc \notin Documents
                        /\ \A b \in Clerk \ {a} :
                            task'[b].at = "creating" => task'[b].doc # task'[a].doc
  BY DEF TasksOK
<1>0. task'[c] = n /\ \A b \in Clerk \ {c} : task'[b] = task[b]
  BY DEF LicenceTypeOK
<1>1. CASE a = c
  BY <1>0, <1>1
<1>2. CASE a # c
  <2>1. task'[a] = task[a] /\ task[a] \in Task \cup {NoTask}
    BY <1>0, <1>2 DEF LicenceTypeOK
  <2>2. task[a].at \in {"storing", "creating", "spending"} => task[a].by \in Link /\ link[task[a].by] # "none"
    BY <2>1, TaskShape DEF TasksOK
  <2>3. /\ task[a].at \in {"judging", "spending"} => task[a].doc \in Documents
        /\ task[a].at = "creating" =>
              /\ task[a].doc \notin Documents
              /\ \A b \in Clerk \ {a} : task[b].at = "creating" => task[b].doc # task[a].doc
    BY DEF TasksOK
  <2>4. ASSUME task[a].at = "creating", NEW b \in Clerk \ {a}, task'[b].at = "creating"
        PROVE  task'[b].doc # task[a].doc
    <3>1. CASE b = c
      BY <1>0, <1>2, <2>4, <3>1
    <3>2. CASE b # c
      BY <1>0, <2>3, <2>4, <3>2
    <3>3. QED
      BY <3>1, <3>2
  <2>5. QED
    BY <2>1, <2>2, <2>3, <2>4
<1>3. QED
  BY <1>1, <1>2

\* A step that leaves the documents and a day and a licence of the same standing
\* leaves the status they say.
LEMMA DerivedSame ==
    ASSUME UNCHANGED <<document, day>>, licence'.last = licence.last,
           licence'.status = "INACTIVE" <=> licence.status = "INACTIVE"
    PROVE  Derived' = Derived
  BY DEF Derived, Has, Documents

\* Making and taking back links disturbs no link that was used.
LEMMA LinkMade ==
    ASSUME LicenceIInv, NEW t \in Link, CreateLink(t) \/ InvalidateLink(t)
    PROVE  LicenceIInv'
<1>1. /\ UNCHANGED <<licence, document, file, task, day, settled, raced, unsteady>>
      /\ link[t] \in {"none", "usable"}
      /\ \E s \in {"usable", "invalid"} : link' = [link EXCEPT ![t] = s]
  BY DEF CreateLink, InvalidateLink
<1>2. LicenceTypeOK /\ TasksOK /\ LinksOK /\ SteadyOK /\ StatusIsDerived
  BY DEF LicenceIInv
<1>3. /\ link' \in [Link -> LinkStatus]
      /\ \A u \in Link : /\ link[u] # "none" => link'[u] # "none"
                         /\ link[u] = "used" => link'[u] = "used"
  BY <1>1, <1>2 DEF LicenceTypeOK, LinkStatus
<1>4. LicenceTypeOK'
  <2>1. \A d \in Document : document'[d] # NoDocument /\ document'[d].by # NoLink =>
              link'[document'[d].by] # "none"
    BY <1>1, <1>2, <1>3, LinksStay
  <2>2. QED
    BY <1>1, <1>2, <1>3, <2>1 DEF LicenceTypeOK, Documents
<1>5. TasksOK'
  <2>1. \A c \in Clerk : task[c] \in Task \cup {NoTask}
    BY <1>2 DEF LicenceTypeOK
  <2>2. \A c \in Clerk : task[c].at \in {"storing", "creating", "spending"} => link'[task[c].by] # "none"
    BY <1>2, <1>3, <2>1, TaskShape DEF TasksOK
  <2>3. QED
    BY <1>1, <1>2, <2>2 DEF TasksOK, Documents
<1>6. LinksOK'
  <2>1. SUFFICES ASSUME NEW u \in Link \ raced PROVE LinkOK(u)'
    BY <1>1 DEF LinksOK
  <2>2. /\ Through(u)' = Through(u) /\ Using(u)' = Using(u)
        /\ file'[u] = file[u] /\ \A c \in Using(u) : task'[c] = task[c]
    BY <1>1 DEF Through, Documents, Using
  <2>3. LinkOK(u)
    BY <1>2 DEF LinksOK
  <2>4. QED
    BY <1>3, <2>2, <2>3, LinkFrame
<1>7. SteadyOK' /\ StatusIsDerived'
  <2>1. Derived' = Derived /\ Has("UPLOADED")' = Has("UPLOADED")
    BY <1>1, DerivedSame DEF Has, Documents
  <2>2. QED
    BY <1>1, <1>2, <2>1 DEF SteadyOK, ReadStands, StatusIsDerived
<1>8. QED
  BY <1>4, <1>5, <1>6, <1>7 DEF LicenceIInv

\* The read of a request that starts.
LEMMA Begins ==
    ASSUME LicenceIInv, NEW c \in Clerk, NEW n \in Task, Starts(c, n),
           n.at \in {"storing", "judging", "recalculating"},
           n.at = "storing" => (n.inactive <=> licence.status = "INACTIVE")
                               /\ link[n.by] = "usable" /\ n.by \in Link,
           n.at = "judging" => n.doc \in Documents,
           raced' = IF n.at = "storing" /\ Using(n.by) # {} THEN raced \cup {n.by} ELSE raced,
           UNCHANGED <<licence, document, link, file, day, settled>>
    PROVE  LicenceIInv'
<1>1. /\ task[c] = NoTask /\ task' = [task EXCEPT ![c] = n]
      /\ unsteady' = (unsteady \/ \E b \in Clerk \ {c} : task[b] # NoTask)
  BY DEF Starts
<1>2. LicenceTypeOK /\ TasksOK /\ LinksOK /\ SteadyOK /\ StatusIsDerived
  BY DEF LicenceIInv
<1>3. Documents' = Documents /\ Derived' = Derived
  BY DerivedSame DEF Documents
<1>4. LicenceTypeOK'
  BY <1>1, <1>2, LicenceTyped, LinksStay DEF LicenceTypeOK
<1>5. TasksOK'
  BY <1>1, <1>2, <1>3, TasksByOne
<1>6. LinksOK'
  <2>1. ASSUME NEW t \in Link \ raced'
        PROVE  \/ LinkOK(t)'
               \/ /\ Through(t)' = Through(t) /\ file'[t] = file[t]
                  /\ link[t] = "used" => link'[t] = "used"
                  /\ c \notin Using(t)
                  /\ ~(n.at \in {"storing", "creating", "spending"} /\ n.by = t)
    <3>1. c \notin Using(t) /\ Through(t)' = Through(t)
      BY <1>1 DEF Using, NoTask, Through, Documents
    <3>2. CASE n.at = "storing" /\ n.by = t
      <4>1. Using(t) = {} /\ t \in Link \ raced
        BY <2>1, <3>2
      <4>2. Unused(t)
        BY <1>2, <3>2, <4>1 DEF LinksOK, LinkOK, InUse, Spent
      <4>3. t \in Link
        BY <4>1
      <4>4. Using(t)' = IF n.at \in {"storing", "creating", "spending"} /\ n.by = t
                        THEN Using(t) \cup {c} ELSE Using(t) \ {c}
        BY <1>1, <1>2, <4>3, UsingNext
      <4>5. Using(t)' = {c}
        BY <3>2, <4>1, <4>4
      <4>6. task'[c] = n
        BY <1>1, <1>2 DEF LicenceTypeOK
      <4>7. InUse(t, c)'
        BY <3>1, <3>2, <4>2, <4>5, <4>6 DEF InUse, Unused
      <4>8. QED
        BY <4>7 DEF LinkOK
    <3>3. CASE ~(n.at = "storing" /\ n.by = t)
      BY <3>1, <3>3
    <3>4. QED
      BY <3>2, <3>3
  <2>2. raced \subseteq raced' /\ n \in Task \cup {NoTask}
    OBVIOUS
  <2>3. QED
    BY <1>1, <1>2, <2>1, <2>2, LinksByOne
<1>7. SteadyOK'
  <2>1. task'[c] = n
    BY <1>1, <1>2 DEF LicenceTypeOK
  <2>2. ReadStands(c)'
    BY <2>1 DEF ReadStands
  <2>3. QED
    BY <1>1, <1>2, <2>2, SteadyByOne
<1>8. StatusIsDerived'
  <2>1. task'[c] # NoTask
    BY <1>1, <1>2 DEF LicenceTypeOK, NoTask
  <2>2. QED
    BY <2>1 DEF StatusIsDerived
<1>9. QED
  BY <1>4, <1>5, <1>6, <1>7, <1>8 DEF LicenceIInv

\* The file of an upload is put under its link's name.
LEMMA FileStored ==
    ASSUME LicenceIInv, NEW c \in Clerk, StoreFile(c)
    PROVE  LicenceIInv'
<1> DEFINE t == task[c].by
<1>1. PICK d \in Unnamed, kept \in {{}, file[t]} :
        /\ file' = [file EXCEPT ![t] = kept \cup {d}]
        /\ Proceeds(c, [at |-> "creating", by |-> task[c].by, inactive |-> task[c].inactive,
                        doc |-> d])
  BY DEF StoreFile
<1>2. /\ task[c].at = "storing"
      /\ UNCHANGED <<licence, document, link, day, settled, raced>>
  BY DEF StoreFile
<1>3. LicenceTypeOK /\ TasksOK /\ LinksOK /\ SteadyOK /\ StatusIsDerived
  BY DEF LicenceIInv
<1>4. PICK n : n = [at |-> "creating", by |-> task[c].by, inactive |-> task[c].inactive, doc |-> d]
  OBVIOUS
<1>5. task' = [task EXCEPT ![c] = n] /\ unsteady' = unsteady
  BY <1>1, <1>4 DEF Proceeds
<1>6. /\ task[c].by \in Link /\ task[c].inactive \in BOOLEAN /\ d \in Document
      /\ d \notin Documents
      /\ \A b \in Clerk : task[b].at \in {"creating", "spending"} => task[b].doc # d
  BY <1>1, <1>2, <1>3, TaskShape DEF LicenceTypeOK, Unnamed
<1>7. n \in Task
  BY <1>4, <1>6, MakeTask
<1>8. /\ file' \in [Link -> SUBSET Document]
      /\ \A u \in Link : u # task[c].by => file'[u] = file[u]
  BY <1>1, <1>3, <1>6 DEF LicenceTypeOK
<1>9. Documents' = Documents /\ Derived' = Derived
  BY <1>2, DerivedSame DEF Documents
<1>10. LicenceTypeOK'
  BY <1>2, <1>3, <1>5, <1>7, <1>8, LicenceTyped, LinksStay DEF LicenceTypeOK
<1>11. TasksOK'
  BY <1>2, <1>3, <1>4, <1>5, <1>6, <1>7, <1>9, TasksByOne DEF TasksOK
<1>12. LinksOK'
  <2>1. ASSUME NEW u \in Link \ raced'
        PROVE  \/ LinkOK(u)'
               \/ /\ Through(u)' = Through(u) /\ file'[u] = file[u]
                  /\ link[u] = "used" => link'[u] = "used"
                  /\ c \notin Using(u)
                  /\ ~(n.at \in {"storing", "creating", "spending"} /\ n.by = u)
    <3>1. Through(u)' = Through(u)
      BY <1>2 DEF Through, Documents
    <3>2. CASE u = task[c].by
      <4>1. c \in Using(u) /\ u \in Link /\ u \notin raced
        BY <1>2, <3>2, <2>1 DEF Using
      <4>2. InUse(u, c)
        BY <1>3, <4>1 DEF LinksOK, LinkOK, InUse, Unused, Spent
      <4>3. Using(u) = {c} /\ Through(u) = {} /\ file[u] = {}
        BY <1>2, <4>2 DEF InUse
      <4>4. Using(u)' = IF n.at \in {"storing", "creating", "spending"} /\ n.by = u
                        THEN Using(u) \cup {c} ELSE Using(u) \ {c}
        BY <1>3, <1>5, <1>7, <4>1, UsingNext
      <4>5. Using(u)' = {c}
        BY <1>4, <3>2, <4>3, <4>4
      <4>6. task'[c] = n
        BY <1>3, <1>5 DEF LicenceTypeOK
      <4>7. file'[u] = {d}
        BY <1>1, <1>3, <1>6, <3>2, <4>3 DEF LicenceTypeOK
      <4>8. InUse(u, c)'
        BY <1>4, <3>1, <4>3, <4>5, <4>6, <4>7 DEF InUse
      <4>9. QED
        BY <4>8 DEF LinkOK
    <3>3. CASE u # task[c].by
      <4>1. c \notin Using(u) /\ n.by # u
        BY <1>4, <3>3 DEF Using
      <4>2. QED
        BY <1>2, <1>8, <3>1, <3>3, <4>1
    <3>4. QED
      BY <3>2, <3>3
  <2>2. QED
    BY <1>2, <1>3, <1>5, <1>7, <2>1, LinksByOne
<1>13. SteadyOK'
  <2>1. task'[c] = n /\ task[c] # NoTask
    BY <1>2, <1>3, <1>5 DEF LicenceTypeOK, NoTask
  <2>2. ~unsteady => ReadStands(c) /\ \A b \in Clerk \ {c} : task[b] = NoTask
    BY <1>3, <2>1, AtWorkAlone
  <2>3. ~unsteady' => ReadStands(c)'
    BY <1>2, <1>4, <1>5, <2>1, <2>2 DEF ReadStands
  <2>4. QED
    BY <1>3, <1>5, <1>7, <2>2, <2>3, SteadyByOne
<1>14. StatusIsDerived'
  <2>1. task'[c] # NoTask
    BY <1>3, <1>4, <1>5 DEF LicenceTypeOK, NoTask
  <2>2. QED
    BY <2>1 DEF StatusIsDerived
<1>15. QED
  BY <1>10, <1>11, <1>12, <1>13, <1>14 DEF LicenceIInv

\* What a step of the clerk at work may assume.
LEMMA AtWork ==
    ASSUME LicenceIInv, NEW c \in Clerk, task[c].at # "idle"
    PROVE  /\ LicenceTypeOK /\ TasksOK /\ LinksOK /\ SteadyOK /\ StatusIsDerived
           /\ task[c] \in Task \cup {NoTask} /\ task[c] # NoTask
           /\ ~unsteady => ReadStands(c) /\ \A b \in Clerk \ {c} : task[b] = NoTask
<1>1. LicenceTypeOK /\ TasksOK /\ LinksOK /\ SteadyOK /\ StatusIsDerived
  BY DEF LicenceIInv
<1>2. task[c] \in Task \cup {NoTask}
  BY <1>1 DEF LicenceTypeOK
<1>3. task[c] # NoTask
  BY <1>2, TaskShape
<1>4. QED
  BY <1>1, <1>2, <1>3, AtWorkAlone

\* The document of an upload is created.
LEMMA DocumentCreated ==
    ASSUME LicenceIInv, NEW c \in Clerk, CreateDocument(c)
    PROVE  LicenceIInv'
<1>1. /\ task[c].at = "creating"
      /\ WithDocument(task[c].doc, "UPLOADED", task[c].by)
      /\ settled' = FALSE
      /\ UNCHANGED <<licence, link, file, day, raced>>
  BY DEF CreateDocument
<1>2. /\ LicenceTypeOK /\ TasksOK /\ LinksOK /\ SteadyOK
      /\ ~unsteady => ReadStands(c) /\ \A b \in Clerk \ {c} : task[b] = NoTask
  BY <1>1, AtWork
<1>3. PICK n : n = [at |-> "spending", by |-> task[c].by, inactive |-> task[c].inactive,
                    doc |-> task[c].doc]
  OBVIOUS
<1>4. task' = [task EXCEPT ![c] = n] /\ unsteady' = unsteady
  BY <1>3 DEF CreateDocument, Proceeds
<1>5. PICK d : d = task[c].doc
  OBVIOUS
<1>6. PICK t : t = task[c].by
  OBVIOUS
<1>7. t \in Link /\ d \in Document /\ task[c].inactive \in BOOLEAN /\ d \notin Documents
      /\ link[t] # "none"
      /\ \A b \in Clerk \ {c} : task[b].at = "creating" => task[b].doc # d
  BY <1>1, <1>2, <1>5, <1>6, TaskShape, AtWork DEF TasksOK
<1>8. n \in Task
  BY <1>3, <1>5, <1>6, <1>7, MakeTask
<1>9. task'[c] = n /\ \A b \in Clerk \ {c} : task'[b] = task[b]
  BY <1>2, <1>4 DEF LicenceTypeOK
<1>10. document' = [document EXCEPT ![d] = [status |-> "UPLOADED", by |-> t]]
  BY <1>1, <1>5, <1>6 DEF WithDocument
<1>11. PICK r : r = [status |-> "UPLOADED", by |-> t]
  OBVIOUS
<1>12. r \in DocumentRow /\ r # NoDocument /\ r.status = "UPLOADED" /\ r.by = t
  BY <1>7, <1>11 DEF DocumentRow, NoDocument
<1>13. /\ document' \in [Document -> DocumentRow \cup {NoDocument}]
       /\ document'[d] = r /\ \A e \in Document : e # d => document'[e] = document[e]
  BY <1>2, <1>7, <1>10, <1>11, <1>12 DEF LicenceTypeOK
<1>14. Documents' = Documents \cup {d}
  BY <1>7, <1>12, <1>13 DEF Documents
<1>15. LicenceTypeOK'
  <2>1. ASSUME NEW e \in Document, document'[e] # NoDocument, document'[e].by # NoLink
        PROVE  link'[document'[e].by] # "none"
    <3>1. CASE e = d
      BY <1>1, <1>7, <1>12, <1>13, <3>1
    <3>2. CASE e # d
      BY <1>1, <1>2, <1>13, <2>1, <3>2 DEF LicenceTypeOK, Documents
    <3>3. QED
      BY <3>1, <3>2
  <2>2. QED
    BY <1>1, <1>2, <1>4, <1>8, <1>13, <2>1, LicenceTyped DEF LicenceTypeOK
<1>16. TasksOK'
  <2>1. SUFFICES ASSUME NEW a \in Clerk
             PROVE  /\ task'[a].at \in {"storing", "creating", "spending"} => link'[task'[a].by] # "none"
                    /\ task'[a].at \in {"judging", "spending"} => task'[a].doc \in Documents'
                    /\ task'[a].at = "creating" =>
                        /\ task'[a].doc \notin Documents'
                        /\ \A b \in Clerk \ {a} :
                            task'[b].at = "creating" => task'[b].doc # task'[a].doc
    BY DEF TasksOK
  <2>2. CASE a = c
    BY <1>1, <1>3, <1>5, <1>6, <1>7, <1>9, <1>14, <2>2
  <2>3. CASE a # c
    <3>1. task'[a] = task[a]
      BY <1>9, <2>3
    <3>2. task[a].at = "creating" => task[a].doc # d
      BY <1>7, <2>3
    <3>3. \A b \in Clerk : task'[b].at = "creating" => task'[b] = task[b] /\ b # c
      BY <1>3, <1>9
    <3>4. QED
      BY <1>1, <1>2, <1>14, <3>1, <3>2, <3>3 DEF TasksOK
  <2>4. QED
    BY <2>2, <2>3
<1>17. LinksOK'
  <2>1. ASSUME NEW u \in Link \ raced'
        PROVE  \/ LinkOK(u)'
               \/ /\ Through(u)' = Through(u) /\ file'[u] = file[u]
                  /\ link[u] = "used" => link'[u] = "used"
                  /\ c \notin Using(u)
                  /\ ~(n.at \in {"storing", "creating", "spending"} /\ n.by = u)
    <3>1. CASE u = t
      <4>1. c \in Using(u) /\ u \in Link /\ u \notin raced
        BY <1>1, <1>6, <3>1, <2>1 DEF Using
      <4>2. InUse(u, c)
        BY <1>2, <4>1 DEF LinksOK, LinkOK, InUse, Unused, Spent
      <4>3. Using(u) = {c} /\ Through(u) = {} /\ file[u] = {d}
        BY <1>1, <1>5, <4>2 DEF InUse
      <4>4. Using(u)' = IF n.at \in {"storing", "creating", "spending"} /\ n.by = u
                        THEN Using(u) \cup {c} ELSE Using(u) \ {c}
        BY <1>2, <1>4, <1>8, <4>1, UsingNext
      <4>5. Using(u)' = {c}
        BY <1>3, <1>6, <3>1, <4>3, <4>4
      <4>6. Through(u)' = {d}
        BY <1>7, <1>12, <1>13, <1>14, <3>1, <4>3 DEF Through, Documents
      <4>7. InUse(u, c)'
        BY <1>1, <1>3, <1>5, <1>9, <4>3, <4>5, <4>6 DEF InUse
      <4>8. QED
        BY <4>7 DEF LinkOK
    <3>2. CASE u # t
      <4>1. c \notin Using(u) /\ n.by # u
        BY <1>3, <1>6, <3>2 DEF Using
      <4>2. Through(u)' = Through(u)
        BY <1>7, <1>12, <1>13, <1>14, <3>2 DEF Through, Documents
      <4>3. QED
        BY <1>1, <4>1, <4>2
    <3>3. QED
      BY <3>1, <3>2
  <2>2. QED
    BY <1>1, <1>2, <1>4, <1>8, <2>1, LinksByOne
<1>18. SteadyOK'
  <2>1. ~unsteady' => ReadStands(c)'
    BY <1>1, <1>2, <1>3, <1>4, <1>5, <1>9, <1>12, <1>13 DEF ReadStands
  <2>2. QED
    BY <1>2, <1>4, <1>8, <2>1, SteadyByOne
<1>19. QED
  BY <1>1, <1>15, <1>16, <1>17, <1>18 DEF LicenceIInv, StatusIsDerived

\* The link of an upload is spent.
LEMMA LinkSpent ==
    ASSUME LicenceIInv, NEW c \in Clerk, SpendLink(c)
    PROVE  LicenceIInv'
<1>1. /\ task[c].at = "spending"
      /\ link' = [link EXCEPT ![task[c].by] = "used"]
      /\ UNCHANGED <<licence, document, file, day, raced>>
  BY DEF SpendLink
<1>2. /\ LicenceTypeOK /\ TasksOK /\ LinksOK /\ SteadyOK
      /\ ~unsteady => ReadStands(c) /\ \A b \in Clerk \ {c} : task[b] = NoTask
  BY <1>1, AtWork
<1>3. PICK n : n = IF task[c].inactive THEN NoTask ELSE [at |-> "touching", inactive |-> FALSE]
  OBVIOUS
<1>4. task' = [task EXCEPT ![c] = n] /\ unsteady' = unsteady
  BY <1>3 DEF SpendLink, Proceeds, Finishes
<1>5. PICK d : d = task[c].doc
  OBVIOUS
<1>6. PICK t : t = task[c].by
  OBVIOUS
<1>7. t \in Link /\ d \in Documents
  BY <1>1, <1>2, <1>5, <1>6, TaskShape, AtWork DEF TasksOK
<1>8. n \in Task \cup {NoTask} /\ n.at \in {"idle", "touching"}
  BY <1>3, MakeTask DEF NoTask
<1>9. task'[c] = n
  BY <1>2, <1>4 DEF LicenceTypeOK
<1>10. /\ link' \in [Link -> LinkStatus] /\ link'[t] = "used"
       /\ \A u \in Link : /\ link[u] # "none" => link'[u] # "none"
                          /\ link[u] = "used" => link'[u] = "used"
  BY <1>1, <1>2, <1>6, <1>7 DEF LicenceTypeOK, LinkStatus
<1>11. Documents' = Documents /\ Derived' = Derived
  BY <1>1, DerivedSame DEF Documents
<1>12. LicenceTypeOK'
  <2>1. \A e \in Document : document'[e] # NoDocument /\ document'[e].by # NoLink =>
              link'[document'[e].by] # "none"
    BY <1>1, <1>2, <1>10, LinksStay
  <2>2. QED
    BY <1>1, <1>2, <1>4, <1>8, <1>10, <2>1, LicenceTyped DEF LicenceTypeOK
<1>13. TasksOK'
  BY <1>2, <1>4, <1>8, <1>10, <1>11, TasksByOne
<1>14. LinksOK'
  <2>1. ASSUME NEW u \in Link \ raced'
        PROVE  \/ LinkOK(u)'
               \/ /\ Through(u)' = Through(u) /\ file'[u] = file[u]
                  /\ link[u] = "used" => link'[u] = "used"
                  /\ c \notin Using(u)
                  /\ ~(n.at \in {"storing", "creating", "spending"} /\ n.by = u)
    <3>0. Through(u)' = Through(u)
      BY <1>1 DEF Through, Documents
    <3>1. CASE u = t
      <4>1. c \in Using(u) /\ u \in Link /\ u \notin raced
        BY <1>1, <1>6, <3>1, <2>1 DEF Using
      <4>2. InUse(u, c)
        BY <1>2, <4>1 DEF LinksOK, LinkOK, InUse, Unused, Spent
      <4>3. Using(u) = {c} /\ Through(u) = {d} /\ file[u] = {d}
        BY <1>1, <1>5, <4>2 DEF InUse
      <4>4. Using(u)' = IF n.at \in {"storing", "creating", "spending"} /\ n.by = u
                        THEN Using(u) \cup {c} ELSE Using(u) \ {c}
        BY <1>2, <1>4, <1>8, <4>1, UsingNext
      <4>5. Using(u)' = {}
        BY <1>8, <4>3, <4>4
      <4>6. Spent(u)'
        BY <1>1, <1>7, <1>10, <1>11, <3>0, <3>1, <4>3, <4>5 DEF Spent
      <4>7. QED
        BY <4>6 DEF LinkOK
    <3>2. CASE u # t
      <4>1. c \notin Using(u)
        BY <1>6, <3>2 DEF Using
      <4>2. QED
        BY <1>1, <1>8, <1>10, <3>0, <4>1
    <3>3. QED
      BY <3>1, <3>2
  <2>2. QED
    BY <1>1, <1>2, <1>4, <1>8, <2>1, LinksByOne
<1>15. SteadyOK'
  <2>1. ~unsteady => Has("UPLOADED")'
    BY <1>1, <1>2, <1>5, <1>7, <1>11 DEF ReadStands, Has
  <2>2. ~unsteady' => ReadStands(c)'
    BY <1>4, <1>8, <1>9, <2>1 DEF ReadStands
  <2>3. QED
    BY <1>2, <1>4, <1>8, <2>2, SteadyByOne
<1>16. StatusIsDerived'
  <2>1. CASE task[c].inactive
    <3>1. ~unsteady => licence.status = "INACTIVE"
      BY <1>1, <1>2, <2>1 DEF ReadStands
    <3>2. QED
      BY <1>1, <1>4, <1>11, <3>1 DEF StatusIsDerived, Derived
  <2>2. CASE ~task[c].inactive
    <3>1. task'[c] # NoTask
      BY <1>3, <1>9, <2>2 DEF NoTask
    <3>2. QED
      BY <3>1 DEF StatusIsDerived
  <2>3. QED
    BY <2>1, <2>2
<1>17. QED
  BY <1>12, <1>13, <1>14, <1>15, <1>16 DEF LicenceIInv

\* A clerk who has no link in hand disturbs none.
LEMMA NoLinkTouched ==
    ASSUME LicenceTypeOK, LinksOK, NEW c \in Clerk, NEW n \in Task \cup {NoTask},
           task' = [task EXCEPT ![c] = n],
           task[c].at \notin {"storing", "creating", "spending"} \/ \A t \in Link \ raced' : c \notin Using(t),
           n.at \notin {"storing", "creating", "spending"},
           UNCHANGED <<link, file>>, raced \subseteq raced', Documents' = Documents,
           \A d \in Documents : document'[d].by = document[d].by
    PROVE  LinksOK'
<1>1. ASSUME NEW t \in Link \ raced'
      PROVE  \/ LinkOK(t)'
             \/ /\ Through(t)' = Through(t) /\ file'[t] = file[t]
                /\ link[t] = "used" => link'[t] = "used"
                /\ c \notin Using(t)
                /\ ~(n.at \in {"storing", "creating", "spending"} /\ n.by = t)
  <2>1. c \notin Using(t)
    BY <1>1 DEF Using
  <2>2. Through(t)' = Through(t)
    BY DEF Through
  <2>3. QED
    BY <2>1, <2>2
<1>2. QED
  BY <1>1, LinksByOne

\* The licence is touched by an upload that found it active.
LEMMA LicenceTouched ==
    ASSUME LicenceIInv, NEW c \in Clerk, TouchLicence(c)
    PROVE  LicenceIInv'
<1>1. /\ task[c].at = "touching"
      /\ licence' = [status |-> "PENDING_VALIDATION", last |-> licence.last]
      /\ task' = [task EXCEPT ![c] = NoTask] /\ unsteady' = unsteady
      /\ UNCHANGED <<document, link, file, day, raced>>
  BY DEF TouchLicence, WithLicence, Finishes, Proceeds
<1>2. /\ LicenceTypeOK /\ TasksOK /\ LinksOK /\ SteadyOK
      /\ ~unsteady => ReadStands(c) /\ \A b \in Clerk \ {c} : task[b] = NoTask
  BY <1>1, AtWork
<1>3. NoTask \in Task \cup {NoTask} /\ NoTask.at = "idle"
  BY DEF NoTask
<1>4. Documents' = Documents
  BY <1>1 DEF Documents
<1>5. licence' \in [status : LicenceStatus, last : LastDay]
  BY <1>1, <1>2 DEF LicenceTypeOK, LicenceStatus
<1>6. LicenceTypeOK'
  <2>1. \A e \in Document : document'[e] # NoDocument /\ document'[e].by # NoLink =>
              link'[document'[e].by] # "none"
    BY <1>1, <1>2, LinksStay
  <2>2. QED
    BY <1>1, <1>2, <1>3, <1>5, <2>1, LicenceTyped DEF LicenceTypeOK
<1>7. TasksOK'
  BY <1>1, <1>2, <1>3, <1>4, TasksByOne
<1>8. LinksOK'
  BY <1>1, <1>2, <1>3, <1>4, NoLinkTouched
<1>9. SteadyOK'
  <2>1. ReadStands(c)'
    BY <1>1, <1>2, <1>3 DEF ReadStands, LicenceTypeOK
  <2>2. QED
    BY <1>1, <1>2, <1>3, <2>1, SteadyByOne
<1>10. StatusIsDerived'
  <2>1. ~unsteady => Has("UPLOADED")'
    BY <1>1, <1>2, <1>4 DEF ReadStands, Has
  <2>2. QED
    BY <1>1, <2>1 DEF StatusIsDerived, Derived
<1>11. QED
  BY <1>6, <1>7, <1>8, <1>9, <1>10 DEF LicenceIInv

\* A document is judged.
LEMMA DocumentJudged ==
    ASSUME LicenceIInv, NEW c \in Clerk, Judge(c)
    PROVE  LicenceIInv'
<1>1. PICK s \in {"APPROVED", "REJECTED"} :
        document' = [document EXCEPT ![task[c].doc] =
                        [status |-> s, by |-> document[task[c].doc].by]]
  BY DEF Judge, WithDocument
<1>2. PICK n : n = [at |-> "recalculating"]
  OBVIOUS
<1>3. /\ task[c].at = "judging"
      /\ task' = [task EXCEPT ![c] = n] /\ unsteady' = unsteady
      /\ settled' = FALSE
      /\ UNCHANGED <<licence, link, file, day, raced>>
  BY <1>2 DEF Judge, Proceeds
<1>4. /\ LicenceTypeOK /\ TasksOK /\ LinksOK /\ SteadyOK
      /\ ~unsteady => ReadStands(c) /\ \A b \in Clerk \ {c} : task[b] = NoTask
  BY <1>3, AtWork
<1>5. n \in Task \cup {NoTask} /\ n.at = "recalculating"
  BY <1>2, MakeTask
<1>6. PICK d : d = task[c].doc
  OBVIOUS
<1>7. d \in Documents /\ d \in Document /\ document[d] \in DocumentRow
  BY <1>3, <1>4, <1>6 DEF TasksOK, Documents, LicenceTypeOK
<1>8. PICK r : r = [status |-> s, by |-> document[d].by]
  OBVIOUS
<1>9. r \in DocumentRow /\ r # NoDocument /\ r.by = document[d].by
  BY <1>7, <1>8 DEF DocumentRow, NoDocument
<1>10. /\ document' \in [Document -> DocumentRow \cup {NoDocument}]
       /\ document'[d] = r /\ \A e \in Document : e # d => document'[e] = document[e]
  BY <1>1, <1>4, <1>6, <1>7, <1>8, <1>9 DEF LicenceTypeOK
<1>11. /\ Documents' = Documents
       /\ \A e \in Documents : document'[e].by = document[e].by
  BY <1>7, <1>9, <1>10 DEF Documents
<1>12. LicenceTypeOK'
  <2>1. ASSUME NEW e \in Document, document'[e] # NoDocument, document'[e].by # NoLink
        PROVE  link'[document'[e].by] # "none"
    BY <1>3, <1>4, <1>11, <2>1 DEF Documents, LicenceTypeOK
  <2>2. QED
    BY <1>3, <1>4, <1>5, <1>10, <2>1, LicenceTyped DEF LicenceTypeOK
<1>13. TasksOK'
  BY <1>3, <1>4, <1>5, <1>11, TasksByOne
<1>14. LinksOK'
  BY <1>3, <1>4, <1>5, <1>11, NoLinkTouched
<1>15. SteadyOK'
  <2>1. ReadStands(c)'
    BY <1>3, <1>4, <1>5 DEF ReadStands, LicenceTypeOK
  <2>2. QED
    BY <1>3, <1>4, <1>5, <2>1, SteadyByOne
<1>16. QED
  BY <1>3, <1>12, <1>13, <1>14, <1>15 DEF LicenceIInv, StatusIsDerived

\* The licence and its documents are read, and the status worked out.
LEMMA StatusWorkedOut ==
    ASSUME LicenceIInv, NEW c \in Clerk, Recalculate(c)
    PROVE  LicenceIInv'
<1>1. /\ task[c].at = "recalculating"
      /\ UNCHANGED <<licence, document, link, file, day, raced>>
  BY DEF Recalculate
<1>2. /\ LicenceTypeOK /\ TasksOK /\ LinksOK /\ SteadyOK
      /\ ~unsteady => ReadStands(c) /\ \A b \in Clerk \ {c} : task[b] = NoTask
  BY <1>1, AtWork
<1>3. PICK n : n = IF Outdated
                   THEN [at |-> "writing", status |-> Derived, inactive |-> licence.status = "INACTIVE"]
                   ELSE NoTask
  OBVIOUS
<1>4. task' = [task EXCEPT ![c] = n] /\ unsteady' = unsteady
  BY <1>3 DEF Recalculate, Proceeds, Finishes
<1>5. n \in Task \cup {NoTask} /\ n.at \in {"idle", "writing"}
  <2>1. (licence.status = "INACTIVE") \in BOOLEAN /\ Derived \in LicenceStatus
    BY <1>2, DerivedType
  <2>2. [at |-> "writing", status |-> Derived, inactive |-> licence.status = "INACTIVE"] \in Task
    BY <2>1, MakeTask
  <2>3. QED
    BY <1>3, <2>2 DEF NoTask
<1>6. task'[c] = n
  BY <1>2, <1>4 DEF LicenceTypeOK
<1>7. Documents' = Documents /\ Derived' = Derived
  BY <1>1, DerivedSame DEF Documents
<1>8. LicenceTypeOK'
  BY <1>1, <1>2, <1>4, <1>5, LicenceTyped, LinksStay DEF LicenceTypeOK
<1>9. TasksOK'
  BY <1>1, <1>2, <1>4, <1>5, <1>7, TasksByOne
<1>10. LinksOK'
  BY <1>1, <1>2, <1>4, <1>5, <1>7, NoLinkTouched
<1>11. SteadyOK'
  <2>1. Outdated => licence.status # "INACTIVE"
    BY DEF Outdated, Derived
  <2>2. n.at = "writing" => n.status = Derived /\ licence.status # "INACTIVE"
    BY <1>3, <2>1 DEF NoTask
  <2>3. ReadStands(c)'
    BY <1>1, <1>5, <1>6, <1>7, <2>2 DEF ReadStands
  <2>4. QED
    BY <1>2, <1>4, <1>5, <2>3, SteadyByOne
<1>12. StatusIsDerived'
  <2>1. CASE Outdated
    <3>1. task'[c] # NoTask
      BY <1>3, <1>6, <2>1 DEF NoTask
    <3>2. QED
      BY <3>1 DEF StatusIsDerived
  <2>2. CASE ~Outdated
    BY <1>1, <1>7, <2>2 DEF StatusIsDerived, Outdated
  <2>3. QED
    BY <2>1, <2>2
<1>13. QED
  BY <1>8, <1>9, <1>10, <1>11, <1>12 DEF LicenceIInv

\* The status worked out is written.
LEMMA StatusWritten ==
    ASSUME LicenceIInv, NEW c \in Clerk, WriteStatus(c)
    PROVE  LicenceIInv'
<1>1. /\ task[c].at = "writing"
      /\ licence' = [status |-> task[c].status, last |-> licence.last]
      /\ task' = [task EXCEPT ![c] = NoTask] /\ unsteady' = unsteady
      /\ UNCHANGED <<document, link, file, day, raced>>
  BY DEF WriteStatus, WithLicence, Finishes, Proceeds
<1>2. /\ LicenceTypeOK /\ TasksOK /\ LinksOK /\ SteadyOK
      /\ ~unsteady => ReadStands(c) /\ \A b \in Clerk \ {c} : task[b] = NoTask
  BY <1>1, AtWork
<1>3. NoTask \in Task \cup {NoTask} /\ NoTask.at = "idle"
  BY DEF NoTask
<1>4. Documents' = Documents
  BY <1>1 DEF Documents
<1>5. licence' \in [status : LicenceStatus, last : LastDay]
  <2>1. task[c].status \in LicenceStatus
    BY <1>1, AtWork, TaskShape
  <2>2. QED
    BY <1>1, <1>2, <2>1 DEF LicenceTypeOK
<1>6. LicenceTypeOK'
  <2>1. \A e \in Document : document'[e] # NoDocument /\ document'[e].by # NoLink =>
              link'[document'[e].by] # "none"
    BY <1>1, <1>2, LinksStay
  <2>2. QED
    BY <1>1, <1>2, <1>3, <1>5, <2>1, LicenceTyped DEF LicenceTypeOK
<1>7. TasksOK'
  BY <1>1, <1>2, <1>3, <1>4, TasksByOne
<1>8. LinksOK'
  BY <1>1, <1>2, <1>3, <1>4, NoLinkTouched
<1>9. SteadyOK'
  <2>1. ReadStands(c)'
    BY <1>1, <1>2, <1>3 DEF ReadStands, LicenceTypeOK
  <2>2. QED
    BY <1>1, <1>2, <1>3, <2>1, SteadyByOne
<1>10. StatusIsDerived'
  <2>1. ASSUME ~unsteady PROVE licence'.status = Derived'
    <3>1. task[c].status = Derived /\ licence.status # "INACTIVE"
      BY <1>1, <1>2, <2>1 DEF ReadStands
    <3>2. Derived # "INACTIVE"
      BY <3>1 DEF Derived
    <3>3. Derived' = Derived
      BY <1>1, <3>1, <3>2, DerivedSame
    <3>4. QED
      BY <1>1, <3>1, <3>3
  <2>2. QED
    BY <1>1, <2>1 DEF StatusIsDerived
<1>11. QED
  BY <1>6, <1>7, <1>8, <1>9, <1>10 DEF LicenceIInv

\* A request dies.
LEMMA RequestDies ==
    ASSUME LicenceIInv, NEW c \in Clerk, Dies(c)
    PROVE  LicenceIInv'
<1>1. /\ task' = [task EXCEPT ![c] = NoTask] /\ unsteady' = TRUE
      /\ raced' = raced \cup {t \in Link : c \in Using(t)}
      /\ UNCHANGED <<licence, document, link, file, day, settled>>
  BY DEF Dies
<1>2. LicenceTypeOK /\ TasksOK /\ LinksOK
  BY DEF LicenceIInv
<1>3. NoTask \in Task \cup {NoTask} /\ NoTask.at = "idle"
  BY DEF NoTask
<1>4. Documents' = Documents
  BY <1>1 DEF Documents
<1>5. LicenceTypeOK'
  <2>1. \A e \in Document : document'[e] # NoDocument /\ document'[e].by # NoLink =>
              link'[document'[e].by] # "none"
    BY <1>1, <1>2, LinksStay
  <2>2. QED
    BY <1>1, <1>2, <1>3, <2>1, LicenceTyped DEF LicenceTypeOK
<1>6. TasksOK'
  BY <1>1, <1>2, <1>3, <1>4, TasksByOne
<1>7. LinksOK'
  <2>1. \A t \in Link \ raced' : c \notin Using(t)
    BY <1>1
  <2>2. QED
    BY <1>1, <1>2, <1>3, <1>4, <2>1, NoLinkTouched
<1>8. QED
  BY <1>1, <1>5, <1>6, <1>7 DEF LicenceIInv, SteadyOK, StatusIsDerived

\* Staff, an administrator or the calendar change something while nobody, or
\* somebody, is at work.
LEMMA SomebodyIntervenes ==
    ASSUME LicenceIInv, UNCHANGED <<link, file, task, raced>>, Intervenes, settled' = FALSE,
           licence' \in [status : LicenceStatus, last : LastDay],
           document' \in [Document -> DocumentRow \cup {NoDocument}],
           \A d \in Document :
              \/ document'[d] = document[d]
              \/ d \in Unnamed /\ document'[d] # NoDocument /\ document'[d].by = NoLink
    PROVE  LicenceIInv'
<1>1. LicenceTypeOK /\ TasksOK /\ LinksOK
  BY DEF LicenceIInv
<1>2. Documents \subseteq Documents'
  BY DEF Documents, Unnamed
<1>3. LicenceTypeOK'
  <2>1. ASSUME NEW d \in Documents', document'[d].by # NoLink
        PROVE  link'[document'[d].by] # "none"
    BY <1>1, <2>1 DEF Documents, LicenceTypeOK
  <2>2. QED
    BY <1>1, <2>1 DEF LicenceTypeOK
<1>4. TasksOK'
  <2>1. ASSUME NEW c \in Clerk, task[c].at = "creating"
        PROVE  task[c].doc \notin Documents'
    <3>1. task[c].doc \notin Documents /\ task[c].doc \notin Unnamed
      BY <1>1, <2>1 DEF TasksOK, Unnamed
    <3>2. QED
      BY <3>1 DEF Documents
  <2>2. QED
    BY <1>1, <1>2, <2>1 DEF TasksOK
<1>5. LinksOK'
  <2>1. SUFFICES ASSUME NEW t \in Link \ raced PROVE LinkOK(t)'
    BY DEF LinksOK
  <2>2. Through(t)' = Through(t)
    <3>1. t # NoLink
      BY LicenceAssumption
    <3>2. \A d \in Documents' : document'[d].by = t => d \in Documents /\ document[d].by = t
      BY <3>1 DEF Documents
    <3>3. \A d \in Documents : document[d] = document'[d] \/ d \in Unnamed
      BY DEF Documents
    <3>4. \A d \in Documents : d \notin Unnamed
      BY DEF Unnamed
    <3>5. QED
      BY <1>2, <3>2, <3>3, <3>4 DEF Through
  <2>3. LinkOK(t)
    BY <1>1 DEF LinksOK
  <2>4. Using(t)' = Using(t) /\ \A c \in Using(t) : task'[c] = task[c]
    BY DEF Using
  <2>5. QED
    BY <2>2, <2>3, <2>4, LinkFrame
<1>6. SteadyOK'
  <2>1. ASSUME ~unsteady', NEW c \in Clerk PROVE task'[c] = NoTask
    BY <2>1 DEF Intervenes
  <2>2. \A c \in Clerk : ~unsteady' => ReadStands(c)'
    <3>1. ASSUME NEW c \in Clerk, ~unsteady' PROVE ReadStands(c)'
      <4>1. task'[c].at = "idle"
        BY <2>1, <3>1 DEF NoTask
      <4>2. QED
        BY <4>1 DEF ReadStands
    <3>2. QED
      BY <3>1
  <2>3. QED
    BY <2>1, <2>2 DEF SteadyOK
<1>7. QED
  BY <1>3, <1>4, <1>5, <1>6 DEF LicenceIInv, StatusIsDerived

\* The initial state satisfies the invariant.
LEMMA LicenceStarts == LicenceInit => LicenceIInv
<1> SUFFICES ASSUME LicenceInit PROVE LicenceIInv
  OBVIOUS
<1>1. \A c \in Clerk : task[c] = NoTask /\ task[c].at = "idle"
  BY DEF LicenceInit, NoTask
<1>2. Documents = {} /\ \A t \in Link : Using(t) = {} /\ Through(t) = {}
  BY <1>1 DEF LicenceInit, Documents, Using, Through
<1>3. LicenceTypeOK
  BY <1>2 DEF LicenceInit, LicenceTypeOK, LicenceStatus, LinkStatus
<1>4. TasksOK /\ SteadyOK
  BY <1>1 DEF TasksOK, SteadyOK, ReadStands
<1>5. LinksOK
  BY <1>2 DEF LicenceInit, LinksOK, LinkOK, Unused
<1>6. QED
  BY <1>3, <1>4, <1>5 DEF LicenceIInv, LicenceInit, StatusIsDerived

\* The three reads that start a request.
LEMMA RequestBegins ==
    ASSUME LicenceIInv, NEW c \in Clerk,
           \/ \E t \in Link : BeginLinkUpload(c, t)
           \/ \E d \in Document : BeginJudge(c, d)
           \/ BeginRecalculate(c)
    PROVE  LicenceIInv'
<1>1. ASSUME NEW t \in Link, BeginLinkUpload(c, t) PROVE LicenceIInv'
  <2>1. PICK n : n = [at |-> "storing", by |-> t, inactive |-> licence.status = "INACTIVE"]
    OBVIOUS
  <2>2. n \in Task /\ n.at = "storing" /\ n.by = t /\ (n.inactive <=> licence.status = "INACTIVE")
    BY <2>1, MakeTask
  <2>3. /\ Starts(c, n) /\ link[t] = "usable"
        /\ raced' = IF Using(t) # {} THEN raced \cup {t} ELSE raced
        /\ UNCHANGED <<licence, document, link, file, day, settled>>
    BY <1>1, <2>1 DEF BeginLinkUpload, Usable
  <2>4. QED
    BY <2>2, <2>3, Begins
<1>2. ASSUME NEW d \in Document, BeginJudge(c, d) PROVE LicenceIInv'
  <2>1. PICK n : n = [at |-> "judging", doc |-> d]
    OBVIOUS
  <2>2. n \in Task /\ n.at = "judging" /\ n.doc = d
    BY <2>1, MakeTask
  <2>3. /\ Starts(c, n) /\ d \in Documents
        /\ UNCHANGED <<licence, document, link, file, day, settled, raced>>
    BY <1>2, <2>1 DEF BeginJudge
  <2>4. QED
    BY <2>2, <2>3, Begins
<1>3. CASE BeginRecalculate(c)
  <2>1. PICK n : n = [at |-> "recalculating"]
    OBVIOUS
  <2>2. n \in Task /\ n.at = "recalculating"
    BY <2>1, MakeTask
  <2>3. /\ Starts(c, n)
        /\ UNCHANGED <<licence, document, link, file, day, settled, raced>>
    BY <1>3, <2>1 DEF BeginRecalculate
  <2>4. QED
    BY <2>2, <2>3, Begins
<1>4. QED
  BY <1>1, <1>2, <1>3

\* Every step keeps the invariant.
LEMMA LicenceSteps == LicenceIInv /\ [LicenceNext]_licenceVars => LicenceIInv'
<1> SUFFICES ASSUME LicenceIInv, [LicenceNext]_licenceVars PROVE LicenceIInv'
  OBVIOUS
<1>0. LicenceTypeOK
  BY DEF LicenceIInv
<1>1. CASE StaffUpload
  <2>1. PICK d \in Unnamed :
          document' = [document EXCEPT ![d] = [status |-> "UPLOADED", by |-> NoLink]]
    BY <1>1 DEF StaffUpload, WithDocument
  <2>2. /\ Intervenes /\ settled' = FALSE
        /\ UNCHANGED <<licence, link, file, task, day, raced>>
    BY <1>1 DEF StaffUpload
  <2>3. PICK r : r = [status |-> "UPLOADED", by |-> NoLink]
    OBVIOUS
  <2>4. r \in DocumentRow /\ r # NoDocument /\ r.by = NoLink /\ d \in Document
    BY <2>3 DEF DocumentRow, NoDocument, Unnamed
  <2>5. /\ document' \in [Document -> DocumentRow \cup {NoDocument}]
        /\ document'[d] = r /\ \A e \in Document : e # d => document'[e] = document[e]
    BY <1>0, <2>1, <2>3, <2>4 DEF LicenceTypeOK
  <2>6. licence' \in [status : LicenceStatus, last : LastDay]
    BY <1>0, <2>2 DEF LicenceTypeOK
  <2>7. \A e \in Document :
              \/ document'[e] = document[e]
              \/ e \in Unnamed /\ document'[e] # NoDocument /\ document'[e].by = NoLink
    BY <2>4, <2>5
  <2>8. QED
    BY <2>2, <2>5, <2>6, <2>7, SomebodyIntervenes
<1>2. ASSUME NEW status \in LicenceStatus, NEW last \in LastDay, UpdateLicence(status, last)
      PROVE  LicenceIInv'
  BY <1>0, <1>2, SomebodyIntervenes DEF UpdateLicence, LicenceTypeOK
<1>3. CASE NextDay
  BY <1>0, <1>3, SomebodyIntervenes DEF NextDay, LicenceTypeOK
<1>4. CASE UNCHANGED licenceVars
  <2>1. UNCHANGED <<licence, document, link, file, task, day, settled, raced, unsteady>>
    BY <1>4 DEF licenceVars
  <2>2. /\ Documents' = Documents /\ Derived' = Derived /\ Has("UPLOADED")' = Has("UPLOADED")
        /\ \A t \in Link : Using(t)' = Using(t) /\ Through(t)' = Through(t)
    BY <2>1, DerivedSame DEF Documents, Has, Using, Through
  <2>3. LicenceTypeOK' /\ TasksOK' /\ SteadyOK' /\ StatusIsDerived'
    BY <2>1, <2>2
    DEF LicenceIInv, LicenceTypeOK, TasksOK, SteadyOK, ReadStands, StatusIsDerived
  <2>4. LinksOK'
    <3>1. SUFFICES ASSUME NEW t \in Link \ raced PROVE LinkOK(t)'
      BY <2>1 DEF LinksOK
    <3>2. LinkOK(t)
      BY DEF LicenceIInv, LinksOK
    <3>3. QED
      BY <2>1, <2>2, <3>2, LinkFrame
  <2>5. QED
    BY <2>3, <2>4 DEF LicenceIInv
<1>5. QED
  BY <1>1, <1>2, <1>3, <1>4, LinkMade, RequestBegins, FileStored, DocumentCreated,
     LinkSpent, LicenceTouched, DocumentJudged, StatusWorkedOut, StatusWritten,
     RequestDies
  DEF LicenceNext

\* It holds of every state.
THEOREM LicenceInvariance == LicenceSpec => []LicenceIInv
  BY LicenceStarts, LicenceSteps, PTL DEF LicenceSpec

\* What the invariant says of a link, as the property has it.
LEMMA ServedOnce == LicenceIInv => LinkServesOnce
<1> SUFFICES ASSUME LicenceIInv, NEW t \in Link \ raced, NEW d \in Documents, NEW e \in Documents,
                    document[d].by = t, document[e].by = t
             PROVE  d = e /\ file[t] = {d}
  BY DEF LinkServesOnce
<1>1. d \in Through(t) /\ e \in Through(t)
  BY DEF Through
<1>2. LinkOK(t)
  BY DEF LicenceIInv, LinksOK
<1>3. QED
  BY <1>1, <1>2 DEF LinkOK, Unused, InUse, Spent

\* For every number of documents, links, clerks and days: a link that two uploads
\* did not use at once brings one document, and that is the file stored under it;
\* a licence left to requests that came one at a time has the status that its
\* documents and the day give it.
THEOREM LicencesAreSound == LicenceSpec => []LicenceIsSound
<1>1. LicenceIInv => LicenceIsSound
  BY ServedOnce DEF LicenceIInv, LicenceIsSound
<1>2. QED
  BY LicenceInvariance, <1>1, PTL

\* A request that is to write the licence did not find it INACTIVE.
FoundActive ==
    \A c \in Clerk : task[c].at \in {"touching", "writing"} => ~task[c].inactive

\* No step makes it otherwise.
LEMMA FoundActiveStep ==
    LicenceIInv /\ FoundActive /\ [LicenceNext]_licenceVars => FoundActive'
<1> SUFFICES ASSUME LicenceIInv, FoundActive, [LicenceNext]_licenceVars PROVE FoundActive'
  OBVIOUS
<1>0. task \in [Clerk -> Task \cup {NoTask}]
  BY DEF LicenceIInv, LicenceTypeOK
<1>1. ASSUME NEW c \in Clerk, NEW n, task' = [task EXCEPT ![c] = n],
             n.at \in {"touching", "writing"} => ~n.inactive
      PROVE  FoundActive'
  <2>1. SUFFICES ASSUME NEW a \in Clerk, (task[a].at \in {"touching", "writing"})'
                 PROVE  ~task'[a].inactive
    BY DEF FoundActive
  <2>2. CASE a = c
    <3>1. task'[a] = n
      BY <1>0, <1>1, <2>2
    <3>2. n.at \in {"touching", "writing"}
      BY <2>1, <3>1
    <3>3. ~n.inactive
      BY <1>1, <3>2
    <3>4. QED
      BY <3>1, <3>3, Zenon
  <2>3. CASE a # c
    <3>1. task'[a] = task[a]
      BY <1>0, <1>1, <2>3
    <3>2. ~task[a].inactive
      BY <2>1, <3>1 DEF FoundActive
    <3>3. QED
      BY <3>1, <3>2, Zenon
  <2>4. QED
    BY <2>2, <2>3
<1>2. ASSUME NEW c \in Clerk, NEW t \in Link, BeginLinkUpload(c, t) PROVE FoundActive'
  <2>1. PICK n : n = [at |-> "storing", by |-> t, inactive |-> licence.status = "INACTIVE"]
    OBVIOUS
  <2>2. n.at = "storing"
    BY <2>1 DEF NoTask
  <2>3. task' = [task EXCEPT ![c] = n]
    BY <1>2, <2>1 DEF BeginLinkUpload, Starts
  <2>4. QED
    BY <1>1, <2>2, <2>3
<1>3. ASSUME NEW c \in Clerk, StoreFile(c) PROVE FoundActive'
  <2>1. PICK d \in Unnamed :
          task' = [task EXCEPT ![c] = [at |-> "creating", by |-> task[c].by,
                                       inactive |-> task[c].inactive, doc |-> d]]
    BY <1>3 DEF StoreFile, Proceeds
  <2>2. PICK n : n = [at |-> "creating", by |-> task[c].by, inactive |-> task[c].inactive,
                      doc |-> d]
    OBVIOUS
  <2>3. n.at = "creating" /\ task' = [task EXCEPT ![c] = n]
    BY <2>1, <2>2
  <2>4. QED
    BY <1>1, <2>3
<1>4. ASSUME NEW c \in Clerk, CreateDocument(c) PROVE FoundActive'
  <2>1. PICK n : n = [at |-> "spending", by |-> task[c].by, inactive |-> task[c].inactive,
                      doc |-> task[c].doc]
    OBVIOUS
  <2>2. n.at = "spending"
    BY <2>1 DEF NoTask
  <2>3. task' = [task EXCEPT ![c] = n]
    BY <1>4, <2>1 DEF CreateDocument, Proceeds
  <2>4. QED
    BY <1>1, <2>2, <2>3
<1>5. ASSUME NEW c \in Clerk, NEW n, n = NoTask \/ (n.at = "touching" /\ n.inactive = FALSE),
             task' = [task EXCEPT ![c] = n]
      PROVE  FoundActive'
  BY <1>1, <1>5 DEF NoTask
<1>6. ASSUME NEW c \in Clerk, SpendLink(c) PROVE FoundActive'
  <2>1. CASE task[c].inactive
    BY <1>5, <1>6, <2>1 DEF SpendLink, Proceeds, Finishes
  <2>2. CASE ~task[c].inactive
    <3>1. PICK n : n = [at |-> "touching", inactive |-> FALSE]
      OBVIOUS
    <3>2. n.at = "touching" /\ n.inactive = FALSE
      BY <3>1
    <3>3. task' = [task EXCEPT ![c] = n]
      BY <1>6, <2>2, <3>1 DEF SpendLink, Proceeds
    <3>4. QED
      BY <1>5, <3>2, <3>3
  <2>3. QED
    BY <2>1, <2>2
<1>7. ASSUME NEW c \in Clerk, TouchLicence(c) \/ WriteStatus(c) PROVE FoundActive'
  BY <1>5, <1>7 DEF TouchLicence, WriteStatus, Proceeds, Finishes
<1>8. ASSUME NEW c \in Clerk, NEW d \in Document, BeginJudge(c, d) PROVE FoundActive'
  <2>1. PICK n : n = [at |-> "judging", doc |-> d]
    OBVIOUS
  <2>2. n.at = "judging"
    BY <2>1 DEF NoTask
  <2>3. task' = [task EXCEPT ![c] = n]
    BY <1>8, <2>1 DEF BeginJudge, Starts
  <2>4. QED
    BY <1>1, <2>2, <2>3
<1>9. ASSUME NEW c \in Clerk, Judge(c) PROVE FoundActive'
  <2>1. PICK n : n = [at |-> "recalculating"]
    OBVIOUS
  <2>2. n.at = "recalculating"
    BY <2>1 DEF NoTask
  <2>3. task' = [task EXCEPT ![c] = n]
    BY <1>9, <2>1 DEF Judge, Proceeds
  <2>4. QED
    BY <1>1, <2>2, <2>3
<1>10. ASSUME NEW c \in Clerk, BeginRecalculate(c) PROVE FoundActive'
  <2>1. PICK n : n = [at |-> "recalculating"]
    OBVIOUS
  <2>2. n.at = "recalculating"
    BY <2>1 DEF NoTask
  <2>3. task' = [task EXCEPT ![c] = n]
    BY <1>10, <2>1 DEF BeginRecalculate, Starts
  <2>4. QED
    BY <1>1, <2>2, <2>3
<1>11. ASSUME NEW c \in Clerk, Recalculate(c) PROVE FoundActive'
  <2>1. CASE Outdated
    <3>1. licence.status # "INACTIVE"
      BY <2>1 DEF Outdated, Derived
    <3>2. PICK n : n = [at |-> "writing", status |-> Derived, inactive |-> licence.status = "INACTIVE"]
      OBVIOUS
    <3>3. task' = [task EXCEPT ![c] = n]
      BY <1>11, <2>1, <3>2 DEF Recalculate, Proceeds
    <3>4. n.inactive <=> licence.status = "INACTIVE"
      BY <3>2
    <3>5. QED
      BY <1>1, <3>1, <3>3, <3>4
  <2>2. CASE ~Outdated
    BY <1>5, <1>11, <2>2 DEF Recalculate, Proceeds, Finishes
  <2>3. QED
    BY <2>1, <2>2
<1>12. ASSUME NEW c \in Clerk, Dies(c) PROVE FoundActive'
  BY <1>5, <1>12 DEF Dies
<1>13. CASE UNCHANGED task
  BY <1>13 DEF FoundActive
<1>14. QED
  BY <1>2, <1>3, <1>4, <1>6, <1>7, <1>8, <1>9, <1>10, <1>11, <1>12, <1>13
  DEF LicenceNext, CreateLink, InvalidateLink, StaffUpload, UpdateLicence, NextDay, licenceVars

\* Only a request that writes the licence changes it in its own step.
LEMMA WriterOnly ==
    ASSUME LicenceIInv, [LicenceNext]_licenceVars, NEW c \in Clerk,
           licence' # licence, task'[c] # task[c]
    PROVE  task[c].at \in {"touching", "writing"}
<1>0. task \in [Clerk -> Task \cup {NoTask}]
  BY DEF LicenceIInv, LicenceTypeOK
<1>1. ASSUME NEW b \in Clerk, TouchLicence(b) \/ WriteStatus(b)
      PROVE  task[c].at \in {"touching", "writing"}
  <2>1. b = c
    BY <1>0, <1>1 DEF TouchLicence, WriteStatus, Finishes, Proceeds
  <2>2. QED
    BY <1>1, <2>1 DEF TouchLicence, WriteStatus
<1>2. QED
  BY <1>1
  DEF LicenceNext, CreateLink, InvalidateLink, BeginLinkUpload, StoreFile,
      CreateDocument, SpendLink, BeginJudge, Judge, BeginRecalculate, Recalculate,
      Dies, StaffUpload, UpdateLicence, NextDay, licenceVars

\* No upload and no recalculation that found a licence INACTIVE brings it back,
\* whatever administrators and other requests do meanwhile.
THEOREM InactiveLicencesStand == LicenceSpec => InactiveStands
<1>1. LicenceInit => FoundActive
  BY DEF LicenceInit, FoundActive, NoTask
<1>2. LicenceIInv /\ FoundActive /\ [LicenceNext]_licenceVars =>
        [\A c \in Clerk :
            licence.status = "INACTIVE" /\ licence'.status # "INACTIVE" /\ task'[c] # task[c]
            => task[c].at \in {"touching", "writing"} /\ ~task[c].inactive]_licenceVars
  <2> SUFFICES ASSUME LicenceIInv, FoundActive, [LicenceNext]_licenceVars, NEW c \in Clerk,
                      licence.status = "INACTIVE", licence'.status # "INACTIVE", task'[c] # task[c]
               PROVE  task[c].at \in {"touching", "writing"} /\ ~task[c].inactive
    OBVIOUS
  <2>1. licence' # licence
    OBVIOUS
  <2>2. task[c].at \in {"touching", "writing"}
    BY <2>1, WriterOnly
  <2>3. QED
    BY <2>2 DEF FoundActive
<1>3. QED
  BY LicenceInvariance, FoundActiveStep, <1>1, <1>2, PTL DEF LicenceSpec, InactiveStands

-----------------------------------------------------------------------------
(* Acknowledgements of an announcement.                                    *)

\* What a request has read of the announcement is what it says, unless an edit
\* crossed it.
FormsAsRead ==
    ~slipped => \A r \in Reader \ late :
        reading[r].at \in {"opening", "read", "found"} => reading[r].form = posted.form

\* Who had acknowledged before still has.
HadBefore ==
    \A r \in Reader \ late :
        reading[r].at = "found" /\ reading[r].already => receipt[r] = "acknowledged"

\* Requests and receipts are of users who are present, until one leaves.
OfThePresent ==
    ~missed /\ late = {} =>
        \A r \in Reader : reading[r] # Nothing \/ receipt[r] # "none" => r \in present

\* Whoever acknowledges last is on the way to tell.
OneIsToTell ==
    ~slipped /\ ~missed /\ late = {} /\ posted.form \in Asking /\ Completed =>
        told \/ \E r \in Reader : reading[r].at \in {"counting", "telling"}

\* Who tells, or told, had counted everybody.
HadCounted ==
    ~grown /\ late = {} /\ (told \/ \E r \in Reader : reading[r].at = "telling") =>
        \A u \in present : receipt[u] = "acknowledged"

\* The inductive invariant.
NoteIInv ==
    /\ NoteTypeOK
    /\ ReceiptsAreOfThisText /\ FormsAsRead /\ HadBefore
    /\ OfThePresent /\ OneIsToTell /\ HadCounted

\* A request that is under way.
LEMMA ErrandShape ==
    ASSUME NoteTypeOK, NEW r \in Reader, reading[r].at # "nothing"
    PROVE  /\ reading[r] \in Errand /\ reading[r] # Nothing
           /\ reading[r].form \in Form \cup {NoForm} /\ reading[r].already \in BOOLEAN
<1>1. reading[r] \in Errand \cup {Nothing}
  BY DEF NoteTypeOK
<1>2. reading[r] # Nothing
  BY DEF Nothing
<1>3. reading[r] \in Errand
  BY <1>1, <1>2
<1>4. QED
  BY <1>2, <1>3 DEF Errand

\* A step of a reader's request: it leaves x of the request, y of the receipt, and
\* z of the text the receipt is for.
Moved(r, x, y, z) ==
    /\ reading' = [reading EXCEPT ![r] = x] /\ receipt' = [receipt EXCEPT ![r] = y]
    /\ meant' = [meant EXCEPT ![r] = z]
    /\ UNCHANGED <<posted, present, editing, late, slipped, grown, changes>>
    /\ told' \in BOOLEAN /\ (told => told')
    /\ missed' \in BOOLEAN /\ (missed => missed') /\ moves' \in Nat
    /\ receipt[r] = "acknowledged" => y = "acknowledged"
    /\ ~slipped /\ r \notin late =>
         /\ y = "acknowledged" => z = posted.form
         /\ x.at \in {"opening", "read", "found"} => x.form = posted.form
    /\ r \notin late /\ x.at = "found" /\ x.already => y = "acknowledged"
    /\ ~missed' /\ late = {} /\ (x # Nothing \/ y # "none") => r \in present
    /\ ~slipped /\ ~missed' /\ late = {} /\ posted.form \in Asking /\ Completed' =>
         \/ told' \/ x.at \in {"counting", "telling"}
         \/ Completed /\ reading[r].at \notin {"counting", "telling"}
    /\ ~grown /\ late = {} /\ (x.at = "telling" \/ (told' /\ ~told)) =>
         \A u \in present : receipt'[u] = "acknowledged"

\* Such a step keeps the invariant.
LEMMA ReaderMoves ==
    ASSUME NoteIInv, NEW r \in Reader, NEW x \in Errand \cup {Nothing},
           NEW y \in {"none", "opened", "acknowledged"}, NEW z \in Form \cup {NoForm},
           Moved(r, x, y, z)
    PROVE  NoteIInv'
<1>1. NoteTypeOK
  BY DEF NoteIInv
<1>2. /\ reading \in [Reader -> Errand \cup {Nothing}] /\ meant \in [Reader -> Form \cup {NoForm}]
      /\ receipt \in [Reader -> {"none", "opened", "acknowledged"}]
      /\ present \in SUBSET Reader /\ late \in SUBSET Reader
  BY <1>1 DEF NoteTypeOK
<1>3. NoteTypeOK'
  BY <1>1, <1>2 DEF NoteTypeOK, Moved
<1>4. /\ reading'[r] = x /\ receipt'[r] = y /\ meant'[r] = z
      /\ \A u \in Reader \ {r} :
            reading'[u] = reading[u] /\ receipt'[u] = receipt[u] /\ meant'[u] = meant[u]
      /\ \A u \in Reader : receipt[u] = "acknowledged" => receipt'[u] = "acknowledged"
  BY <1>2 DEF Moved
<1>5. ReceiptsAreOfThisText'
  BY <1>4 DEF NoteIInv, Moved, ReceiptsAreOfThisText
<1>6. FormsAsRead'
  BY <1>4 DEF NoteIInv, Moved, FormsAsRead
<1>7. HadBefore'
  BY <1>4 DEF NoteIInv, Moved, HadBefore
<1>8. OfThePresent'
  BY <1>4 DEF NoteIInv, Moved, OfThePresent
<1>9. OneIsToTell'
  <2>1. SUFFICES ASSUME ~slipped, ~missed', late = {}, posted.form \in Asking, Completed', ~told'
                 PROVE  \E u \in Reader : reading'[u].at \in {"counting", "telling"}
    BY DEF OneIsToTell, Moved
  <2>2. CASE x.at \in {"counting", "telling"}
    BY <1>4, <2>2
  <2>3. CASE Completed /\ reading[r].at \notin {"counting", "telling"}
    <3>1. PICK u \in Reader : reading[u].at \in {"counting", "telling"}
      BY <2>1, <2>3 DEF NoteIInv, OneIsToTell, Moved
    <3>2. QED
      BY <1>4, <2>3, <3>1
  <2>4. QED
    BY <2>1, <2>2, <2>3 DEF Moved
<1>10. HadCounted'
  <2>1. SUFFICES ASSUME ~grown, late = {}, told' \/ \E u \in Reader : reading'[u].at = "telling",
                        NEW v \in present
                 PROVE  receipt'[v] = "acknowledged"
    BY DEF HadCounted, Moved
  <2>2. CASE told \/ \E u \in Reader : reading[u].at = "telling"
    BY <1>2, <1>4, <2>1, <2>2 DEF NoteIInv, HadCounted
  <2>3. CASE x.at = "telling" \/ (told' /\ ~told)
    BY <2>1, <2>3 DEF Moved
  <2>4. QED
    BY <1>4, <2>1, <2>2, <2>3
<1>11. QED
  BY <1>3, <1>5, <1>6, <1>7, <1>8, <1>9, <1>10 DEF NoteIInv

\* A step of a request that writes no receipt.
Continued(r, x) ==
    /\ reading' = [reading EXCEPT ![r] = x]
    /\ UNCHANGED <<posted, receipt, meant, present, editing, late, slipped, grown, changes>>
    /\ told' \in BOOLEAN /\ (told => told')
    /\ missed' \in BOOLEAN /\ (missed => missed') /\ moves' \in Nat
    /\ ~slipped /\ r \notin late /\ x.at \in {"opening", "read", "found"} => x.form = posted.form
    /\ r \notin late /\ x.at = "found" /\ x.already => receipt[r] = "acknowledged"
    /\ x # Nothing => r \in present \/ reading[r] # Nothing
    /\ reading[r].at \in {"counting", "telling"} =>
         told' \/ missed' \/ x.at \in {"counting", "telling"} \/ ~Completed
    /\ ~grown /\ late = {} /\ (x.at = "telling" \/ (told' /\ ~told)) =>
         \A u \in present : receipt[u] = "acknowledged"

\* Such a step keeps the invariant.
LEMMA ReaderGoesOn ==
    ASSUME NoteIInv, NEW r \in Reader, NEW x \in Errand \cup {Nothing}, Continued(r, x)
    PROVE  NoteIInv'
<1>1. PICK y \in {"none", "opened", "acknowledged"}, z \in Form \cup {NoForm} :
           y = receipt[r] /\ z = meant[r]
  BY DEF NoteIInv, NoteTypeOK
<1>2. /\ receipt' = [receipt EXCEPT ![r] = y] /\ meant' = [meant EXCEPT ![r] = z]
      /\ receipt' = receipt /\ present' = present
  BY <1>1 DEF NoteIInv, NoteTypeOK, Continued
<1>3. ~slipped /\ r \notin late /\ y = "acknowledged" => z = posted.form
  BY <1>1 DEF NoteIInv, ReceiptsAreOfThisText
<1>4. ~missed /\ late = {} /\ (reading[r] # Nothing \/ y # "none") => r \in present
  BY <1>1 DEF NoteIInv, OfThePresent
<1>5. Completed' <=> Completed
  BY <1>2 DEF Completed
<1>6. ~missed' /\ late = {} /\ (x # Nothing \/ y # "none") => r \in present
  BY <1>4 DEF Continued
<1>7. Moved(r, x, y, z)
  BY <1>1, <1>2, <1>3, <1>5, <1>6 DEF Continued, Moved
<1>8. QED
  BY <1>7, ReaderMoves

\* A request comes to its end.
LEMMA Over ==
    ASSUME NEW r \in Reader, Done(r)
    PROVE  \E x \in Errand \cup {Nothing} :
              /\ reading' = [reading EXCEPT ![r] = x]
              /\ x = Nothing /\ x.at = "nothing"
<1>1. PICK x : x = Nothing
  OBVIOUS
<1>2. x \in Errand \cup {Nothing} /\ reading' = [reading EXCEPT ![r] = x]
  BY <1>1 DEF Done
<1>3. x.at = "nothing"
  BY <1>1 DEF Nothing
<1>4. QED
  BY <1>1, <1>2, <1>3

\* A request reads the announcement.
LEMMA ReadsKeeps ==
    ASSUME NoteIInv, NEW r \in Reader, NEW at \in {"opening", "read"}, Reads(r, at)
    PROVE  NoteIInv'
<1>1. posted.form \in Form /\ told \in BOOLEAN /\ missed \in BOOLEAN /\ moves \in Nat
  BY DEF NoteIInv, NoteTypeOK, Row
<1>2. PICK f \in Form \cup {NoForm} : f = posted.form
  BY <1>1
<1>3. PICK x : x = [at |-> at, form |-> f, already |-> FALSE]
  OBVIOUS
<1>4. /\ x \in Errand /\ x.at = at /\ x.form = f /\ ~x.already
      /\ reading' = [reading EXCEPT ![r] = x]
  BY <1>2, <1>3 DEF Reads, Errands, Errand
<1>5. /\ UNCHANGED <<posted, receipt, meant, present, editing, late, slipped, grown, changes>>
      /\ told' \in BOOLEAN /\ (told' <=> told) /\ missed' \in BOOLEAN /\ (missed' <=> missed) /\ moves' \in Nat
      /\ r \in present /\ reading[r] = Nothing
  BY <1>1 DEF Reads
<1>6. reading[r].at \notin {"counting", "telling"}
  BY <1>5 DEF Nothing
<1>7. Continued(r, x)
  BY <1>2, <1>4, <1>5, <1>6 DEF Continued
<1>8. QED
  BY <1>4, <1>7, ReaderGoesOn

\* A request looks for the receipt there is.
LEMMA FindKeeps ==
    ASSUME NoteIInv, NEW r \in Reader, FindReceipt(r)
    PROVE  NoteIInv'
<1>1. /\ told \in BOOLEAN /\ missed \in BOOLEAN /\ moves \in Nat /\ reading[r].at = "read"
      /\ reading[r] # Nothing /\ reading[r].form \in Form \cup {NoForm}
  BY ErrandShape DEF NoteIInv, NoteTypeOK, FindReceipt
<1>2. PICK f \in Form \cup {NoForm}, b \in BOOLEAN :
          f = reading[r].form /\ b = (receipt[r] = "acknowledged")
  BY <1>1
<1>3. PICK x : x = [at |-> "found", form |-> f, already |-> b]
  OBVIOUS
<1>4. /\ x \in Errand /\ x.at = "found" /\ x.form = f /\ x.already = b
      /\ reading' = [reading EXCEPT ![r] = x]
  BY <1>2, <1>3 DEF FindReceipt, Errands, Errand
<1>5. /\ UNCHANGED <<posted, receipt, meant, present, editing, late, slipped, grown, changes>>
      /\ told' \in BOOLEAN /\ (told' <=> told) /\ missed' \in BOOLEAN /\ (missed' <=> missed) /\ moves' \in Nat
  BY <1>1 DEF FindReceipt
<1>6. ~slipped /\ r \notin late => x.form = posted.form
  BY <1>1, <1>2, <1>4 DEF NoteIInv, FormsAsRead
<1>7. Continued(r, x)
  BY <1>1, <1>2, <1>4, <1>5, <1>6 DEF Continued
<1>8. QED
  BY <1>4, <1>7, ReaderGoesOn

\* A request counts the receipts, and goes on to tell if all are there.
LEMMA CountKeeps ==
    ASSUME NoteIInv, NEW r \in Reader, CountReceipts(r)
    PROVE  NoteIInv'
<1>1. /\ told \in BOOLEAN /\ missed \in BOOLEAN /\ moves \in Nat /\ reading[r].at = "counting"
      /\ reading[r] # Nothing
  BY ErrandShape DEF NoteIInv, NoteTypeOK, CountReceipts
<1>2. /\ UNCHANGED <<posted, receipt, meant, present, editing, late, slipped, grown, changes>>
      /\ told' \in BOOLEAN /\ (told' <=> told) /\ missed' \in BOOLEAN /\ (missed' <=> missed) /\ moves' \in Nat
  BY <1>1 DEF CountReceipts
<1>3. CASE Completed
  <2>1. PICK x : x = [at |-> "telling", form |-> NoForm, already |-> FALSE]
    OBVIOUS
  <2>2. x \in Errand /\ x.at = "telling" /\ reading' = [reading EXCEPT ![r] = x]
    BY <1>3, <2>1 DEF CountReceipts, Errands, Errand
  <2>3. \A u \in present : receipt[u] = "acknowledged"
    BY <1>3 DEF Completed
  <2>4. Continued(r, x)
    BY <1>1, <1>2, <2>2, <2>3 DEF Continued
  <2>5. QED
    BY <2>2, <2>4, ReaderGoesOn
<1>4. CASE ~Completed
  <2>1. PICK x \in Errand \cup {Nothing} :
            /\ reading' = [reading EXCEPT ![r] = x]
            /\ x = Nothing /\ x.at = "nothing"
    BY <1>4, Over DEF CountReceipts
  <2>2. Continued(r, x)
    BY <1>1, <1>2, <1>4, <2>1 DEF Continued
  <2>3. QED
    BY <2>2, ReaderGoesOn
<1>5. QED
  BY <1>3, <1>4

\* The managers are told.
LEMMA TellKeeps ==
    ASSUME NoteIInv, NEW r \in Reader, TellManagers(r)
    PROVE  NoteIInv'
<1>1. missed \in BOOLEAN /\ moves \in Nat /\ reading[r].at = "telling"
  BY DEF NoteIInv, NoteTypeOK, TellManagers
<1>2. /\ UNCHANGED <<posted, receipt, meant, present, editing, late, slipped, grown, changes>>
      /\ told' \in BOOLEAN /\ told' /\ missed' \in BOOLEAN /\ (missed' <=> missed) /\ moves' \in Nat
  BY <1>1 DEF TellManagers
<1>3. PICK x \in Errand \cup {Nothing} :
          /\ reading' = [reading EXCEPT ![r] = x]
          /\ x = Nothing /\ x.at = "nothing"
  BY Over DEF TellManagers
<1>4. ~grown /\ late = {} => \A u \in present : receipt[u] = "acknowledged"
  BY <1>1 DEF NoteIInv, HadCounted
<1>5. Continued(r, x)
  BY <1>1, <1>2, <1>3, <1>4 DEF Continued
<1>6. QED
  BY <1>5, ReaderGoesOn

\* A request dies.
LEMMA DiesKeeps ==
    ASSUME NoteIInv, NEW r \in Reader, ErrandDies(r)
    PROVE  NoteIInv'
<1>1. told \in BOOLEAN /\ moves \in Nat
  BY DEF NoteIInv, NoteTypeOK
<1>2. /\ UNCHANGED <<posted, receipt, meant, present, editing, late, slipped, grown, changes>>
      /\ told' \in BOOLEAN /\ (told' <=> told) /\ missed' \in BOOLEAN /\ missed' /\ moves' \in Nat
  BY <1>1 DEF ErrandDies, Move
<1>3. PICK x \in Errand \cup {Nothing} :
          /\ reading' = [reading EXCEPT ![r] = x]
          /\ x = Nothing /\ x.at = "nothing"
  BY Over DEF ErrandDies
<1>4. Continued(r, x)
  BY <1>2, <1>3 DEF Continued
<1>5. QED
  BY <1>4, ReaderGoesOn

\* Opening is kept, or is the acknowledgement where none is asked for.
LEMMA OpenedKeeps ==
    ASSUME NoteIInv, NEW r \in Reader, KeepOpened(r)
    PROVE  NoteIInv'
<1>1. /\ told \in BOOLEAN /\ missed \in BOOLEAN /\ moves \in Nat /\ reading[r].at = "opening"
      /\ reading[r] # Nothing /\ reading[r].form \in Form \cup {NoForm}
      /\ receipt \in [Reader -> {"none", "opened", "acknowledged"}]
      /\ meant \in [Reader -> Form \cup {NoForm}] /\ present \in SUBSET Reader
  BY ErrandShape DEF NoteIInv, NoteTypeOK, KeepOpened
<1>2. /\ UNCHANGED <<posted, present, editing, late, slipped, grown, changes>>
      /\ told' \in BOOLEAN /\ (told' <=> told) /\ missed' \in BOOLEAN /\ (missed' <=> missed) /\ moves' \in Nat
  BY <1>1 DEF KeepOpened
<1>3. PICK x \in Errand \cup {Nothing} :
          /\ reading' = [reading EXCEPT ![r] = x]
          /\ x = Nothing /\ x.at = "nothing"
  BY Over DEF KeepOpened
<1>4. PICK f \in Form \cup {NoForm} : f = reading[r].form
  BY <1>1
<1>5. /\ ~slipped /\ r \notin late => f = posted.form
      /\ ~missed /\ late = {} => r \in present
  BY <1>1, <1>4 DEF NoteIInv, FormsAsRead, OfThePresent
<1>6. CASE f \notin Asking
  <2>1. receipt' = [receipt EXCEPT ![r] = "acknowledged"] /\ meant' = [meant EXCEPT ![r] = f]
    BY <1>4, <1>6 DEF KeepOpened, Marks
  <2>2. ~slipped /\ late = {} => posted.form \notin Asking
    BY <1>5, <1>6
  <2>3. PICK y \in {"none", "opened", "acknowledged"} : y = "acknowledged"
    OBVIOUS
  <2>4. receipt' = [receipt EXCEPT ![r] = y]
    BY <2>1, <2>3
  <2>5. ~grown /\ late = {} /\ (x.at = "telling" \/ (told' /\ ~told)) =>
            \A u \in present : receipt'[u] = "acknowledged"
    BY <1>2, <1>3
  <2>6. Moved(r, x, y, f)
    BY <1>2, <1>3, <1>5, <2>1, <2>2, <2>3, <2>4, <2>5 DEF Moved
  <2>7. QED
    BY <2>6, ReaderMoves
<1>7. CASE f \in Asking
  <2>1. PICK y \in {"none", "opened", "acknowledged"} :
             y = IF receipt[r] = "none" THEN "opened" ELSE receipt[r]
    BY <1>1
  <2>2. receipt' = [receipt EXCEPT ![r] = y] /\ meant' = meant
    BY <1>1, <1>4, <1>7, <2>1 DEF KeepOpened
  <2>3. PICK z \in Form \cup {NoForm} : z = meant[r]
    BY <1>1
  <2>4. meant' = [meant EXCEPT ![r] = z]
    BY <1>1, <2>2, <2>3
  <2>5. /\ receipt[r] = "acknowledged" => y = "acknowledged"
        /\ y = "acknowledged" => receipt[r] = "acknowledged"
    BY <2>1
  <2>6. ~slipped /\ r \notin late /\ y = "acknowledged" => z = posted.form
    BY <2>3, <2>5 DEF NoteIInv, ReceiptsAreOfThisText
  <2>7. \A u \in Reader : receipt'[u] = "acknowledged" => receipt[u] = "acknowledged"
    BY <1>1, <2>2, <2>5
  <2>8. Completed' => Completed
    BY <1>1, <1>2, <2>7 DEF Completed
  <2>9. ~grown /\ late = {} /\ (x.at = "telling" \/ (told' /\ ~told)) =>
            \A u \in present : receipt'[u] = "acknowledged"
    BY <1>2, <1>3
  <2>10. ~missed' /\ late = {} /\ (x # Nothing \/ y # "none") => r \in present
    BY <1>2, <1>5
  <2>11. Moved(r, x, y, z)
    BY <1>1, <1>2, <1>3, <2>2, <2>4, <2>5, <2>6, <2>8, <2>9, <2>10 DEF Moved
  <2>12. QED
    BY <2>11, ReaderMoves
<1>8. QED
  BY <1>6, <1>7

\* The acknowledgement is written; who had given one before is done.
LEMMA AcknowledgedKeeps ==
    ASSUME NoteIInv, NEW r \in Reader, KeepAcknowledged(r)
    PROVE  NoteIInv'
<1>1. /\ told \in BOOLEAN /\ missed \in BOOLEAN /\ moves \in Nat /\ reading[r].at = "found"
      /\ reading[r] # Nothing /\ reading[r].form \in Form \cup {NoForm}
      /\ receipt \in [Reader -> {"none", "opened", "acknowledged"}]
      /\ meant \in [Reader -> Form \cup {NoForm}] /\ present \in SUBSET Reader
  BY ErrandShape DEF NoteIInv, NoteTypeOK, KeepAcknowledged
<1>2. /\ UNCHANGED <<posted, present, editing, late, slipped, grown, changes>>
      /\ told' \in BOOLEAN /\ (told' <=> told) /\ missed' \in BOOLEAN /\ (missed' <=> missed) /\ moves' \in Nat
  BY <1>1 DEF KeepAcknowledged
<1>3. /\ ~slipped /\ r \notin late => reading[r].form = posted.form
      /\ ~missed /\ late = {} => r \in present
      /\ r \notin late /\ reading[r].already => receipt[r] = "acknowledged"
  BY <1>1 DEF NoteIInv, FormsAsRead, OfThePresent, HadBefore
<1>4. PICK x \in Errand \cup {Nothing} :
          /\ reading' = [reading EXCEPT ![r] = x]
          /\ reading[r].already => x = Nothing /\ x.at = "nothing"
          /\ ~reading[r].already => x.at = "counting"
  <2>1. CASE reading[r].already
    BY <2>1, Over DEF KeepAcknowledged
  <2>2. CASE ~reading[r].already
    <3>1. PICK w : w = [at |-> "counting", form |-> NoForm, already |-> FALSE]
      OBVIOUS
    <3>2. w \in Errand /\ w.at = "counting" /\ reading' = [reading EXCEPT ![r] = w]
      BY <2>2, <3>1 DEF KeepAcknowledged, Errands, Errand
    <3>3. QED
      BY <2>2, <3>2
  <2>3. QED
    BY <2>1, <2>2
<1>5. x.at \in {"nothing", "counting"}
  BY <1>4
<1>6. PICK y \in {"none", "opened", "acknowledged"}, z \in Form \cup {NoForm} :
          /\ receipt' = [receipt EXCEPT ![r] = y] /\ meant' = [meant EXCEPT ![r] = z]
          /\ y = "acknowledged" \/ (reading[r].already /\ y = receipt[r])
          /\ z = reading[r].form \/ (reading[r].already /\ y = receipt[r] /\ z = meant[r])
  <2>1. CASE reading[r].already /\ receipt[r] # "none"
    BY <1>1, <2>1 DEF KeepAcknowledged
  <2>2. CASE ~(reading[r].already /\ receipt[r] # "none")
    BY <1>1, <2>2 DEF KeepAcknowledged, Marks
  <2>3. QED
    BY <2>1, <2>2
<1>7. /\ receipt[r] = "acknowledged" => y = "acknowledged"
      /\ ~slipped /\ r \notin late /\ y = "acknowledged" => z = posted.form
  BY <1>3, <1>6 DEF NoteIInv, ReceiptsAreOfThisText
<1>8. ~slipped /\ ~missed' /\ late = {} /\ posted.form \in Asking /\ Completed' =>
          \/ told' \/ x.at \in {"counting", "telling"}
          \/ Completed /\ reading[r].at \notin {"counting", "telling"}
  <2>1. ASSUME late = {}, Completed', reading[r].already
        PROVE  Completed
    <3>1. receipt[r] = "acknowledged"
      BY <1>3, <2>1
    <3>2. \A u \in Reader : receipt'[u] = "acknowledged" => receipt[u] = "acknowledged"
      BY <1>1, <1>6, <3>1
    <3>3. QED
      BY <1>1, <1>2, <2>1, <3>2 DEF Completed
  <2>2. QED
    BY <1>1, <1>4, <2>1
<1>9. ~grown /\ late = {} /\ (x.at = "telling" \/ (told' /\ ~told)) =>
          \A u \in present : receipt'[u] = "acknowledged"
  BY <1>2, <1>5
<1>10. ~missed' /\ late = {} /\ (x # Nothing \/ y # "none") => r \in present
  BY <1>2, <1>3
<1>11. Moved(r, x, y, z)
  BY <1>2, <1>4, <1>5, <1>6, <1>7, <1>8, <1>9, <1>10 DEF Moved
<1>12. QED
  BY <1>11, ReaderMoves

\* An edit begins.
LEMMA EditReads ==
    ASSUME NoteIInv, NEW e \in Editor, BeginEdit(e)
    PROVE  NoteIInv'
<1>1. /\ UNCHANGED <<posted, receipt, meant, told, present, reading, late, slipped, missed, grown,
                     changes, moves>>
      /\ posted.form \in Form
  BY DEF NoteIInv, NoteTypeOK, BeginEdit, Row
<1>2. PICK f \in Form : editing' = [editing EXCEPT ![e] =
                            [at |-> "revising", form |-> f, was |-> posted.form]]
  BY DEF BeginEdit
<1>3. [at |-> "revising", form |-> f, was |-> posted.form] \in Revising
  BY <1>1 DEF Revising
<1>4. NoteTypeOK'
  BY <1>1, <1>2, <1>3 DEF NoteIInv, NoteTypeOK
<1>5. QED
  BY <1>1, <1>4 DEF NoteIInv, ReceiptsAreOfThisText, FormsAsRead, HadBefore, OfThePresent, OneIsToTell,
                    HadCounted, Completed

\* An edit is written: everybody is asked again, or the text is what was read.
LEMMA EditWritten ==
    ASSUME NoteIInv, NEW e \in Editor, SaveEdit(e)
    PROVE  NoteIInv'
<1>1. PICK k : k = editing[e]
  OBVIOUS
<1>2. k \in Revising /\ k.form \in Form /\ k.was \in Form
  BY <1>1 DEF NoteIInv, NoteTypeOK, SaveEdit, Revising
<1>3. posted \in Row /\ posted.form \in Form /\ posted.status \in {"DRAFT", "PUBLISHED", "ARCHIVED"}
  BY DEF NoteIInv, NoteTypeOK, Row
<1>4. PICK status \in {"DRAFT", "PUBLISHED", "ARCHIVED"} :
          posted' = [status |-> status, form |-> k.form]
  BY <1>1, <1>3 DEF SaveEdit
<1>5. posted' \in Row /\ posted'.form = k.form
  BY <1>2, <1>4 DEF Row
<1>6. /\ editing' = [editing EXCEPT ![e] = Nothing] /\ changes' = changes + 1
      /\ UNCHANGED <<present, reading, moves>>
  BY DEF SaveEdit, Change
<1>7. CASE Changed(k.was, k.form)
  <2>1. /\ receipt' = [u \in Reader |-> "none"] /\ meant' = [u \in Reader |-> NoForm]
        /\ told' = FALSE /\ late' = {u \in Reader : reading[u] # Nothing}
        /\ slipped' = FALSE /\ missed' = FALSE /\ grown' = FALSE
    BY <1>1, <1>7 DEF SaveEdit
  <2>2. NoteTypeOK'
    <3>1. /\ receipt' \in [Reader -> {"none", "opened", "acknowledged"}]
          /\ meant' \in [Reader -> Form \cup {NoForm}] /\ late' \in SUBSET Reader
      BY <2>1
    <3>2. told' \in BOOLEAN /\ slipped' \in BOOLEAN /\ missed' \in BOOLEAN /\ grown' \in BOOLEAN
      BY <2>1
    <3>3. QED
      BY <1>5, <1>6, <3>1, <3>2 DEF NoteIInv, NoteTypeOK
  <2>3. /\ \A u \in Reader : receipt'[u] = "none"
        /\ \A u \in Reader \ late' : reading'[u] = Nothing /\ reading'[u].at = "nothing"
    BY <1>6, <2>1 DEF Nothing
  <2>4. ReceiptsAreOfThisText' /\ FormsAsRead' /\ HadBefore' /\ OfThePresent'
    BY <2>3 DEF ReceiptsAreOfThisText, FormsAsRead, HadBefore, OfThePresent
  <2>5. ~Completed'
    BY <2>2, <2>3 DEF Completed, NoteTypeOK
  <2>6. OneIsToTell'
    BY <2>5 DEF OneIsToTell
  <2>7. HadCounted'
    BY <2>1, <2>3 DEF HadCounted
  <2>8. QED
    BY <2>2, <2>4, <2>6, <2>7 DEF NoteIInv
<1>8. CASE ~Changed(k.was, k.form)
  <2>1. /\ slipped' = (slipped \/ posted.form # k.was) /\ k.was = k.form
        /\ UNCHANGED <<receipt, meant, told, late, missed, grown>>
    BY <1>1, <1>8 DEF SaveEdit, Changed
  <2>2. NoteTypeOK'
    BY <1>5, <1>6, <2>1 DEF NoteIInv, NoteTypeOK
  <2>3. ~slipped' => ~slipped /\ posted'.form = posted.form
    BY <1>5, <2>1
  <2>4. ReceiptsAreOfThisText' /\ FormsAsRead' /\ HadBefore' /\ OfThePresent'
    BY <1>6, <2>1, <2>3 DEF NoteIInv, ReceiptsAreOfThisText, FormsAsRead, HadBefore, OfThePresent
  <2>5. Completed' <=> Completed
    BY <1>6, <2>1 DEF Completed
  <2>6. OneIsToTell'
    BY <1>6, <2>1, <2>3, <2>5 DEF NoteIInv, OneIsToTell
  <2>7. HadCounted'
    BY <1>6, <2>1 DEF NoteIInv, HadCounted
  <2>8. QED
    BY <2>2, <2>4, <2>6, <2>7 DEF NoteIInv
<1>9. QED
  BY <1>7, <1>8

\* The announcement is published or archived.
LEMMA StatusSet ==
    ASSUME NoteIInv, NEW status \in {"PUBLISHED", "ARCHIVED"}, SetStatus(status)
    PROVE  NoteIInv'
<1>1. /\ posted' = [status |-> status, form |-> posted.form] /\ changes' = changes + 1
      /\ UNCHANGED <<receipt, meant, told, present, reading, editing, late, slipped, missed, grown, moves>>
  BY DEF SetStatus, Change
<1>2. posted' \in Row /\ posted'.form = posted.form
  BY <1>1 DEF NoteIInv, NoteTypeOK, Row
<1>3. NoteTypeOK'
  BY <1>1, <1>2 DEF NoteIInv, NoteTypeOK
<1>4. QED
  BY <1>1, <1>2, <1>3 DEF NoteIInv, ReceiptsAreOfThisText, FormsAsRead, HadBefore, OfThePresent,
                          OneIsToTell, HadCounted, Completed

\* A user leaves.
LEMMA LeavingKeeps ==
    ASSUME NoteIInv, NEW r \in Reader, Leaves(r)
    PROVE  NoteIInv'
<1>1. /\ present' = present \ {r} /\ missed' = TRUE /\ moves' = moves + 1
      /\ UNCHANGED <<posted, receipt, meant, told, reading, editing, late, slipped, grown, changes>>
  BY DEF Leaves, Move
<1>2. NoteTypeOK'
  BY <1>1 DEF NoteIInv, NoteTypeOK
<1>3. QED
  BY <1>1, <1>2 DEF NoteIInv, ReceiptsAreOfThisText, FormsAsRead, HadBefore, OfThePresent, OneIsToTell,
                    HadCounted

\* A user joins, without a receipt if nobody left.
LEMMA JoiningKeeps ==
    ASSUME NoteIInv, NEW r \in Reader, Joins(r)
    PROVE  NoteIInv'
<1>1. /\ present' = present \cup {r} /\ grown' = TRUE /\ moves' = moves + 1 /\ r \notin present
      /\ UNCHANGED <<posted, receipt, meant, told, reading, editing, late, slipped, missed, changes>>
  BY DEF Joins, Move
<1>2. NoteTypeOK'
  BY <1>1 DEF NoteIInv, NoteTypeOK
<1>3. OfThePresent'
  BY <1>1 DEF NoteIInv, OfThePresent
<1>4. OneIsToTell'
  <2>1. ASSUME ~missed, late = {} PROVE ~Completed'
    <3>1. receipt[r] = "none"
      BY <1>1, <2>1 DEF NoteIInv, OfThePresent
    <3>2. QED
      BY <1>1, <3>1 DEF Completed
  <2>2. QED
    BY <1>1, <2>1 DEF OneIsToTell
<1>5. QED
  BY <1>1, <1>2, <1>3, <1>4 DEF NoteIInv, ReceiptsAreOfThisText, FormsAsRead, HadBefore, HadCounted

\* Nobody has read or acknowledged anything at first.
LEMMA NoteStarts == NoteInit => NoteIInv
<1> SUFFICES ASSUME NoteInit PROVE NoteIInv
  OBVIOUS
<1>1. PICK f \in Form : posted = [status |-> "PUBLISHED", form |-> f]
  BY DEF NoteInit
<1>2. NoteTypeOK
  BY <1>1 DEF NoteInit, NoteTypeOK, Row
<1>3. \A r \in Reader : /\ receipt[r] = "none" /\ reading[r] = Nothing /\ reading[r].at = "nothing"
  BY DEF NoteInit, Nothing
<1>4. ~told /\ ~Completed
  BY <1>2, <1>3 DEF NoteInit, Completed, NoteTypeOK
<1>5. QED
  BY <1>2, <1>3, <1>4 DEF NoteIInv, ReceiptsAreOfThisText, FormsAsRead, HadBefore, OfThePresent, OneIsToTell,
                          HadCounted

\* One step for each thing a reader, a manager or anybody does.
LEMMA NoteSteps == NoteIInv /\ [NoteNext]_noteVars => NoteIInv'
<1> SUFFICES ASSUME NoteIInv, [NoteNext]_noteVars PROVE NoteIInv'
  OBVIOUS
<1>1. CASE UNCHANGED noteVars
  BY <1>1 DEF noteVars, NoteIInv, NoteTypeOK, ReceiptsAreOfThisText, FormsAsRead, HadBefore, OfThePresent,
              OneIsToTell, HadCounted, Completed
<1>2. ASSUME NEW r \in Reader, Look(r) \/ Acknowledge(r) PROVE NoteIInv'
  BY <1>2, ReadsKeeps DEF Look, Acknowledge
<1>3. ASSUME NEW r \in Reader, KeepOpened(r) PROVE NoteIInv'
  BY <1>3, OpenedKeeps
<1>4. ASSUME NEW r \in Reader, FindReceipt(r) PROVE NoteIInv'
  BY <1>4, FindKeeps
<1>5. ASSUME NEW r \in Reader, KeepAcknowledged(r) PROVE NoteIInv'
  BY <1>5, AcknowledgedKeeps
<1>6. ASSUME NEW r \in Reader, CountReceipts(r) PROVE NoteIInv'
  BY <1>6, CountKeeps
<1>7. ASSUME NEW r \in Reader, TellManagers(r) PROVE NoteIInv'
  BY <1>7, TellKeeps
<1>8. ASSUME NEW r \in Reader, Leaves(r) \/ Joins(r) \/ ErrandDies(r) PROVE NoteIInv'
  BY <1>8, LeavingKeeps, JoiningKeeps, DiesKeeps
<1>9. ASSUME NEW e \in Editor, BeginEdit(e) \/ SaveEdit(e) PROVE NoteIInv'
  BY <1>9, EditReads, EditWritten
<1>10. ASSUME NEW status \in {"PUBLISHED", "ARCHIVED"}, SetStatus(status) PROVE NoteIInv'
  BY <1>10, StatusSet
<1>11. QED
  BY <1>1, <1>2, <1>3, <1>4, <1>5, <1>6, <1>7, <1>8, <1>9, <1>10 DEF NoteNext

\* The inductive invariant of the acknowledgements holds in every state.
THEOREM NoteInvariance == NoteSpec => []NoteIInv
  BY NoteStarts, NoteSteps, PTL DEF NoteSpec

\* A receipt is of the text that stands, the managers are told once all have
\* acknowledged it, and not before.
THEOREM AcknowledgementsAreTrue == NoteSpec => []AcknowledgementsHold
<1>1. NoteIInv => AcknowledgementsHold
  <2> SUFFICES ASSUME NoteIInv PROVE AcknowledgementsHold
    OBVIOUS
  <2>1. LastOneTells
    <3>1. (\A r \in Reader : reading[r] = Nothing) =>
              ~\E r \in Reader : reading[r].at \in {"counting", "telling"}
      BY DEF Nothing
    <3>2. QED
      BY <3>1 DEF NoteIInv, OneIsToTell, LastOneTells
  <2>2. ToldWhenAllDid
    BY DEF NoteIInv, HadCounted, ToldWhenAllDid, Completed
  <2>3. QED
    BY <2>1, <2>2 DEF NoteIInv, AcknowledgementsHold
<1>2. QED
  BY <1>1, NoteInvariance, PTL

-----------------------------------------------------------------------------
(* The wiki.                                                               *)

\* A page has a version and a text, and a revision is one of a page.
PagesOK ==
    /\ \A s \in Slug : page[s] # NoPage => page[s].version \in Edition /\ page[s].text \in Text
    /\ \A r \in revision : page[r.page] # NoPage

\* What a handler has in hand at each of its steps.
Fitting(k) ==
    /\ k.at = "creating" => k.op \in {"create", "promote"}
    /\ k.at = "recorded" => k.op = "promote"
    /\ k.at = "writing" => k.op \in {"edit", "restore", "approve"}
    /\ k.at = "deciding" => k.op \in {"approve", "reject"}
    /\ k.at = "written" => k.op # "reject"
    /\ k.at # "idle" => (k.version = 1 <=> k.op \in {"create", "promote"})
    /\ k.at \notin {"idle", "creating"} => page[k.page] # NoPage
    /\ k.at # "idle" => (k.proposal # NoProposal <=> k.op \in {"approve", "reject"})
    /\ k.at # "idle" /\ k.proposal # NoProposal =>
         /\ proposal[k.proposal] # Unmade
         /\ k.page = proposal[k.proposal].page /\ k.text = proposal[k.proposal].text
         /\ k.version = proposal[k.proposal].base + 1
\* Every handler does.
DesksOK == \A w \in Writer : Fitting(desk[w])

\* A handler that has made the page and not recorded its first revision: there is
\* one for a page, and there is no such revision.
First(w, s) ==
    desk[w].at = "written" /\ desk[w].op \in {"create", "promote"} /\ desk[w].page = s
FirstOnce ==
    \A w \in Writer, s \in Slug : First(w, s) =>
        ~Recorded(s, 1) /\ \A o \in Writer : First(o, s) => o = w

\* A handler between the row of a page and its revision.
Pen(w, s) ==
    /\ desk[w].at = "written" \/ (desk[w].at = "deciding" /\ desk[w].op = "approve")
    /\ desk[w].page = s

\* As long as nobody overwrote what he had not read, and nobody died, each version of
\* a page is recorded or in the hand of one handler, the last one with its text.
Accounted(s) ==
    /\ \A v \in Edition :
         Recorded(s, v) <=> v <= page[s].version /\ \A w \in Writer : Pen(w, s) => desk[w].version # v
    /\ \A w \in Writer : Pen(w, s) =>
         /\ desk[w].version <= page[s].version
         /\ desk[w].version = page[s].version => desk[w].text = page[s].text
         /\ \A o \in Writer : Pen(o, s) /\ desk[o].version = desk[w].version => o = w
    /\ \A r \in revision : r.page = s /\ r.version = page[s].version => r.text = page[s].text
\* So is every page that was not overtaken.
PagesAccounted == \A s \in Slug \ overtaken : Accounted(s)

\* Likewise, a request is approved when it is in the history or about to be.
Approver(w, q) == desk[w].at = "written" /\ desk[w].op = "approve" /\ desk[w].proposal = q
Settled(q) ==
    /\ proposal[q].status = "APPROVED" =>
         (\E r \in revision : r.proposal = q) \/ (\E w \in Writer : Approver(w, q))
    /\ (\E r \in revision : r.proposal = q) \/ (\E w \in Writer : Approver(w, q)) =>
         proposal[q].status = "APPROVED"
\* So are all requests for pages that were not overtaken.
ProposalsSettled ==
    \A q \in Proposal : proposal[q].page \in Slug \ overtaken => Settled(q)

\* A page made from the thread is the one it is linked to, or about to be.
Promoter(w) == desk[w].at \in {"written", "recorded"} /\ desk[w].op = "promote"
PromotedInHand ==
    ~promotedAgain =>
        promoted = ({thread} \ {NoSlug}) \cup {desk[w].page : w \in {o \in Writer : Promoter(o)}}

\* The inductive invariant.
WikiIInv ==
    /\ KnowledgeTypeOK /\ PagesOK /\ DesksOK /\ FirstOnce
    /\ PagesAccounted /\ PublishedAsProposed /\ ProposalsSettled /\ PromotedInHand

\* A handler's row is written.
Sets(w, k) == desk' = [desk EXCEPT ![w] = k]

\* A handler that is at work.
LEMMA DeskShape ==
    ASSUME KnowledgeTypeOK, NEW w \in Writer, desk[w].at # "idle"
    PROVE  /\ desk[w] \in Work /\ desk[w] # Idle
           /\ desk[w].at \in {"creating", "writing", "deciding", "written", "recorded"}
           /\ desk[w].op \in {"create", "promote", "edit", "restore", "approve", "reject"}
           /\ desk[w].page \in Slug /\ desk[w].version \in Edition /\ desk[w].text \in Text
           /\ desk[w].proposal \in Proposal \cup {NoProposal}
<1>1. desk[w] \in Work \cup {Idle}
  BY DEF KnowledgeTypeOK
<1>2. desk[w] # Idle
  BY DEF Idle
<1>3. desk[w] \in Work
  BY <1>1, <1>2
<1>4. QED
  BY <1>2, <1>3 DEF Work

\* Only the handler that moves has another row.
LEMMA DeskByOne ==
    ASSUME KnowledgeTypeOK, NEW w \in Writer, NEW k \in Work \cup {Idle}, Sets(w, k)
    PROVE  /\ desk' \in [Writer -> Work \cup {Idle}] /\ desk'[w] = k
           /\ \A o \in Writer \ {w} :
                /\ desk'[o] = desk[o] /\ (Promoter(o)' <=> Promoter(o))
                /\ \A s \in Slug : (Pen(o, s)' <=> Pen(o, s)) /\ (First(o, s)' <=> First(o, s))
                /\ \A q \in Proposal : Approver(o, q)' <=> Approver(o, q)
<1>1. desk \in [Writer -> Work \cup {Idle}]
  BY DEF KnowledgeTypeOK
<1>2. /\ desk' \in [Writer -> Work \cup {Idle}] /\ desk'[w] = k
      /\ \A o \in Writer \ {w} : desk'[o] = desk[o]
  BY <1>1 DEF Sets
<1>3. QED
  BY <1>2 DEF Pen, First, Approver, Promoter

\* A handler has written down what it read and is about to write.
OnDesk(w, stage, op, s, v, t, q) ==
    \E k \in Work :
        /\ Sets(w, k) /\ k # Idle /\ k.at = stage /\ k.op = op
        /\ k.page = s /\ k.version = v /\ k.text = t /\ k.proposal = q

\* What Takes writes, field by field.
LEMMA Taken ==
    ASSUME NEW w \in Writer,
           NEW stage \in {"creating", "writing", "deciding", "written", "recorded"},
           NEW op \in {"create", "promote", "edit", "restore", "approve", "reject"},
           NEW s \in Slug, NEW v \in Edition, NEW t \in Text,
           NEW q \in Proposal \cup {NoProposal}, Takes(w, stage, op, s, v, t, q)
    PROVE  OnDesk(w, stage, op, s, v, t, q)
<1>1. PICK k : k = [at |-> stage, op |-> op, page |-> s, version |-> v, text |-> t, proposal |-> q]
  OBVIOUS
<1>2. /\ k \in Work /\ k.at = stage /\ k.op = op
      /\ k.page = s /\ k.version = v /\ k.text = t /\ k.proposal = q
  BY <1>1 DEF Work
<1>3. k # Idle
  BY <1>2 DEF Idle
<1>4. Sets(w, k)
  BY <1>1 DEF Takes, Sets
<1>5. QED
  BY <1>2, <1>3, <1>4 DEF OnDesk

\* A handler goes on with what it has.
Onward(w, stage) ==
    \E k \in Work :
        /\ Sets(w, k) /\ k # Idle /\ k.at = stage /\ k.op = desk[w].op
        /\ k.page = desk[w].page /\ k.version = desk[w].version /\ k.text = desk[w].text
        /\ k.proposal = desk[w].proposal

\* What GoesOn writes: the same work, at its next stage.
LEMMA Advanced ==
    ASSUME KnowledgeTypeOK, NEW w \in Writer, desk[w].at # "idle",
           NEW stage \in {"creating", "writing", "deciding", "written", "recorded"},
           GoesOn(w, stage)
    PROVE  Onward(w, stage)
<1>1. PICK d : d = desk[w]
  OBVIOUS
<1>2. /\ d.op \in {"create", "promote", "edit", "restore", "approve", "reject"}
      /\ d.page \in Slug /\ d.version \in Edition /\ d.text \in Text
      /\ d.proposal \in Proposal \cup {NoProposal}
  BY <1>1, DeskShape
<1>3. Takes(w, stage, d.op, d.page, d.version, d.text, d.proposal)
  BY <1>1 DEF GoesOn
<1>4. OnDesk(w, stage, d.op, d.page, d.version, d.text, d.proposal)
  BY <1>2, <1>3, Taken
<1>5. QED
  BY <1>1, <1>4 DEF OnDesk, Onward

\* A handler is done.
LEMMA Concluded ==
    ASSUME NEW w \in Writer, Concludes(w)
    PROVE  \E k \in Work \cup {Idle} : Sets(w, k) /\ k = Idle /\ k.at = "idle"
<1>1. PICK k \in Work \cup {Idle} : k = Idle
  OBVIOUS
<1>2. k.at = "idle"
  BY <1>1 DEF Idle
<1>3. Sets(w, k)
  BY <1>1 DEF Concludes, Sets
<1>4. QED
  BY <1>1, <1>2, <1>3

\* Pages do not vanish, and what was proposed stays as it is.
Standing ==
    /\ \A s \in Slug : page[s] # NoPage => page'[s] # NoPage
    /\ \A q \in Proposal : proposal[q] # Unmade =>
         /\ proposal'[q] # Unmade /\ proposal'[q].page = proposal[q].page
         /\ proposal'[q].text = proposal[q].text /\ proposal'[q].base = proposal[q].base

\* Work that fits still fits when no page vanishes and no proposal is rewritten.
LEMMA FittingStill ==
    ASSUME NEW k \in Work \cup {Idle}, Fitting(k), Standing
    PROVE  Fitting(k)'
<1>1. CASE k = Idle
  BY <1>1 DEF Fitting, Idle
<1>2. CASE k \in Work
  <2>1. k.page \in Slug /\ k.proposal \in Proposal \cup {NoProposal}
    BY <1>2 DEF Work
  <2>2. QED
    BY <2>1 DEF Fitting, Standing
<1>3. QED
  BY <1>1, <1>2

\* Every desk fits after a step of one handler whose new work fits.
LEMMA DesksKept ==
    ASSUME WikiIInv, NEW w \in Writer, NEW k \in Work \cup {Idle}, Sets(w, k), Fitting(k)',
           Standing
    PROVE  DesksOK'
<1>1. KnowledgeTypeOK /\ desk \in [Writer -> Work \cup {Idle}]
  BY DEF WikiIInv, KnowledgeTypeOK
<1>2. SUFFICES ASSUME NEW o \in Writer PROVE Fitting(desk[o])'
  BY DEF DesksOK
<1>3. PICK j \in Work \cup {Idle} : j = desk[o]
  BY <1>1
<1>4. CASE o = w
  <2>1. desk'[o] = k
    BY <1>1, <1>4, DeskByOne
  <2>2. QED
    BY <2>1 DEF Fitting
<1>5. CASE o # w
  <2>1. desk'[o] = j
    BY <1>1, <1>3, <1>5, DeskByOne
  <2>2. Fitting(j)
    BY <1>3 DEF WikiIInv, DesksOK
  <2>3. Fitting(j)'
    BY <2>2, FittingStill
  <2>4. QED
    BY <2>1, <2>3 DEF Fitting
<1>6. QED
  BY <1>4, <1>5

\* A page that is not written, and whose revisions and pens are what they were.
LEMMA PageStill ==
    ASSUME KnowledgeTypeOK, NEW w \in Writer, NEW k \in Work \cup {Idle}, Sets(w, k),
           NEW s \in Slug, Accounted(s), page'[s] = page[s],
           {r \in revision' : r.page = s} = {r \in revision : r.page = s},
           Pen(w, s)' <=> Pen(w, s),
           Pen(w, s) => k.version = desk[w].version /\ k.text = desk[w].text
    PROVE  Accounted(s)'
<1>1. /\ \A o \in Writer : Pen(o, s)' <=> Pen(o, s)
      /\ \A o \in Writer : Pen(o, s) => desk'[o].version = desk[o].version /\ desk'[o].text = desk[o].text
  BY DeskByOne
<1>2. \A v : Recorded(s, v)' <=> Recorded(s, v)
  BY DEF Recorded
<1>3. \A v \in Edition :
         Recorded(s, v)' <=> v <= page'[s].version /\ \A o \in Writer : Pen(o, s)' => desk'[o].version # v
  BY <1>1, <1>2 DEF Accounted
<1>4. \A o \in Writer : Pen(o, s)' =>
         /\ desk'[o].version <= page'[s].version
         /\ desk'[o].version = page'[s].version => desk'[o].text = page'[s].text
         /\ \A u \in Writer : Pen(u, s)' /\ desk'[u].version = desk'[o].version => u = o
  BY <1>1 DEF Accounted
<1>5. \A r \in revision' : r.page = s /\ r.version = page'[s].version => r.text = page'[s].text
  BY DEF Accounted
<1>6. QED
  BY <1>3, <1>4, <1>5 DEF Accounted

\* A step of a handler that writes no page and no revision.
LEMMA PagesStill ==
    ASSUME WikiIInv, NEW w \in Writer, NEW k \in Work \cup {Idle}, Sets(w, k),
           UNCHANGED <<page, revision>>, overtaken \subseteq overtaken',
           \A s \in Slug : First(w, s)' => First(w, s),
           \A s \in Slug \ overtaken' :
             /\ Pen(w, s)' <=> Pen(w, s)
             /\ Pen(w, s) => k.version = desk[w].version /\ k.text = desk[w].text
    PROVE  PagesAccounted' /\ FirstOnce'
<1>1. KnowledgeTypeOK
  BY DEF WikiIInv
<1>2. PagesAccounted'
  <2>1. SUFFICES ASSUME NEW s \in Slug \ overtaken' PROVE Accounted(s)'
    BY DEF PagesAccounted
  <2>2. Accounted(s)
    BY DEF WikiIInv, PagesAccounted
  <2>3. page'[s] = page[s] /\ {r \in revision' : r.page = s} = {r \in revision : r.page = s}
    OBVIOUS
  <2>4. /\ Pen(w, s)' <=> Pen(w, s)
        /\ Pen(w, s) => k.version = desk[w].version /\ k.text = desk[w].text
    OBVIOUS
  <2>5. QED
    BY <1>1, <2>2, <2>3, <2>4, PageStill
<1>3. FirstOnce'
  <2>1. \A o \in Writer, s \in Slug : First(o, s)' => First(o, s)
    BY <1>1, DeskByOne
  <2>2. \A s \in Slug : Recorded(s, 1)' <=> Recorded(s, 1)
    BY DEF Recorded
  <2>3. QED
    BY <2>1, <2>2 DEF WikiIInv, FirstOnce
<1>4. QED
  BY <1>2, <1>3

\* A step that decides and publishes nothing.
LEMMA ProposalsStill ==
    ASSUME WikiIInv, NEW w \in Writer, NEW k \in Work \cup {Idle}, Sets(w, k),
           UNCHANGED <<revision, proposal>>, overtaken \subseteq overtaken',
           \A q \in Proposal :
                proposal[q].page \in Slug \ overtaken' => (Approver(w, q)' <=> Approver(w, q))
    PROVE  ProposalsSettled'
<1>1. SUFFICES ASSUME NEW q \in Proposal, proposal'[q].page \in Slug \ overtaken' PROVE Settled(q)'
  BY DEF ProposalsSettled
<1>2. proposal[q].page \in Slug \ overtaken /\ Settled(q)
  BY <1>1 DEF WikiIInv, ProposalsSettled
<1>3. \A o \in Writer : Approver(o, q)' <=> Approver(o, q)
  BY <1>1, DeskByOne DEF WikiIInv
<1>4. QED
  BY <1>2, <1>3 DEF Settled

\* A step that makes no page of the thread.
LEMMA PromotionStill ==
    ASSUME WikiIInv, NEW w \in Writer, NEW k \in Work \cup {Idle}, Sets(w, k),
           UNCHANGED <<thread, promoted>>, promotedAgain => promotedAgain',
           ~promotedAgain' =>
             /\ Promoter(w)' <=> Promoter(w)
             /\ Promoter(w) => k.page = desk[w].page
    PROVE  PromotedInHand'
<1>1. SUFFICES ASSUME ~promotedAgain'
               PROVE  promoted = ({thread} \ {NoSlug}) \cup
                                 {desk'[u].page : u \in {o \in Writer : Promoter(o)'}}
  BY DEF PromotedInHand
<1>2. promoted = ({thread} \ {NoSlug}) \cup {desk[u].page : u \in {o \in Writer : Promoter(o)}}
  BY <1>1 DEF WikiIInv, PromotedInHand
<1>3. \A o \in Writer : (Promoter(o)' <=> Promoter(o)) /\ (Promoter(o) => desk'[o].page = desk[o].page)
  BY <1>1, DeskByOne DEF WikiIInv
<1>4. QED
  BY <1>2, <1>3

\* Revisions that are not added to, of proposals that stand.
LEMMA PublishedStill ==
    ASSUME WikiIInv, UNCHANGED revision, Standing
    PROVE  PublishedAsProposed'
<1>1. \A r \in revision : r.proposal # NoProposal =>
         r.proposal \in Proposal /\ proposal[r.proposal] # Unmade
  <2>1. ASSUME NEW r \in revision, r.proposal # NoProposal
        PROVE  r.proposal \in Proposal /\ proposal[r.proposal] # Unmade
    <3>1. r.proposal \in Proposal /\ r.page \in Slug
      BY <2>1 DEF WikiIInv, KnowledgeTypeOK, RevisionRow
    <3>2. proposal[r.proposal].page \in Slug
      BY <2>1, <3>1 DEF WikiIInv, PublishedAsProposed
    <3>3. QED
      BY <3>1, <3>2, KnowledgeAssumption DEF Unmade
  <2>2. QED
    BY <2>1
<1>2. QED
  BY <1>1 DEF WikiIInv, PublishedAsProposed, Standing

\* A handler has read what it needs.
Begun(w) ==
    \E k \in Work :
        /\ Sets(w, k) /\ Fitting(k) /\ k.at \in {"creating", "writing", "deciding"}
        /\ k.at = "deciding" => k.op = "reject"

\* A page is created, or a thread promoted: the first version is in hand.
LEMMA BegunByCreate ==
    ASSUME WikiIInv, NEW w \in Writer, BeginCreate(w) \/ BeginPromote(w), 1 \in Edition
    PROVE  Begun(w)
<1>1. Plain \in Slug /\ Qualified \in Slug /\ Discussion \in Text
  BY KnowledgeAssumption
<1>2. PICK op \in {"create", "promote"}, s \in Slug, t \in Text :
          Takes(w, "creating", op, s, 1, t, NoProposal)
  <2>1. CASE BeginCreate(w)
    BY <2>1 DEF BeginCreate
  <2>2. CASE BeginPromote(w)
    <3>1. PICK s \in Slug : s = IF IsPage(Plain) THEN Qualified ELSE Plain
      BY <1>1
    <3>2. QED
      BY <1>1, <2>2, <3>1 DEF BeginPromote
  <2>3. QED
    BY <2>1, <2>2
<1>3. /\ "creating" \in {"creating", "writing", "deciding", "written", "recorded"}
      /\ op \in {"create", "promote", "edit", "restore", "approve", "reject"}
      /\ NoProposal \in Proposal \cup {NoProposal}
  OBVIOUS
<1>4. OnDesk(w, "creating", op, s, 1, t, NoProposal)
  BY <1>2, <1>3, Taken
<1>5. PICK k \in Work :
        /\ Sets(w, k) /\ k.at = "creating" /\ k.op = op
        /\ k.page = s /\ k.version = 1 /\ k.text = t /\ k.proposal = NoProposal
  BY <1>4 DEF OnDesk
<1>6. Fitting(k)
  BY <1>5 DEF Fitting
<1>7. QED
  BY <1>5, <1>6 DEF Begun

\* A page is edited, or an old revision restored: the next version is in hand.
LEMMA BegunByEdit ==
    ASSUME WikiIInv, NEW w \in Writer, BeginPageEdit(w) \/ BeginRestore(w),
           \A s \in Slug : page[s].version < MaxEdition
    PROVE  Begun(w)
<1>1. PICK op \in {"edit", "restore"}, s \in Slug, t \in Text :
          page[s] # NoPage /\ Takes(w, "writing", op, s, page[s].version + 1, t, NoProposal)
  <2>1. CASE BeginPageEdit(w)
    <3>1. PICK s \in Slug, t \in Text :
              page[s].active /\ Takes(w, "writing", "edit", s, page[s].version + 1, t, NoProposal)
      BY <2>1 DEF BeginPageEdit
    <3>2. page[s] # NoPage
      BY <3>1 DEF NoPage
    <3>3. QED
      BY <3>1, <3>2
  <2>2. CASE BeginRestore(w)
    <3>1. PICK r \in revision :
              Takes(w, "writing", "restore", r.page, page[r.page].version + 1, r.text, NoProposal)
      BY <2>2 DEF BeginRestore
    <3>2. r.page \in Slug /\ r.text \in Text /\ page[r.page] # NoPage
      BY <3>1 DEF WikiIInv, PagesOK, KnowledgeTypeOK, RevisionRow
    <3>3. QED
      BY <3>1, <3>2
  <2>3. QED
    BY <2>1, <2>2
<1>2. PICK v : v = page[s].version + 1
  OBVIOUS
<1>3. v \in Edition /\ v # 1
  BY <1>1, <1>2, KnowledgeAssumption DEF WikiIInv, PagesOK, Edition
<1>4. /\ "writing" \in {"creating", "writing", "deciding", "written", "recorded"}
      /\ op \in {"create", "promote", "edit", "restore", "approve", "reject"}
      /\ NoProposal \in Proposal \cup {NoProposal} /\ Takes(w, "writing", op, s, v, t, NoProposal)
  BY <1>1, <1>2
<1>5. OnDesk(w, "writing", op, s, v, t, NoProposal)
  BY <1>3, <1>4, Taken
<1>6. PICK k \in Work :
        /\ Sets(w, k) /\ k.at = "writing" /\ k.op = op
        /\ k.page = s /\ k.version = v /\ k.text = t /\ k.proposal = NoProposal
  BY <1>5 DEF OnDesk
<1>7. Fitting(k)
  BY <1>1, <1>3, <1>6 DEF Fitting
<1>8. QED
  BY <1>6, <1>7 DEF Begun

\* A pending request that is current is approved or rejected: what it proposed is in hand.
LEMMA BegunByDecision ==
    ASSUME WikiIInv, NEW w \in Writer, BeginDecide(w), \A s \in Slug : page[s].version < MaxEdition
    PROVE  Begun(w)
<1>1. PICK q \in Proposal, op \in {"approve", "reject"} :
          /\ proposal[q].status = "PENDING" /\ page[proposal[q].page].version = proposal[q].base
          /\ Takes(w, IF op = "approve" THEN "writing" ELSE "deciding", op, proposal[q].page,
                   page[proposal[q].page].version + 1, proposal[q].text, q)
  BY DEF BeginDecide, Current
<1>2. PICK s, t, b : s = proposal[q].page /\ t = proposal[q].text /\ b = proposal[q].base
  OBVIOUS
<1>3. proposal[q] # Unmade /\ s \in Slug /\ t \in Text /\ b \in Edition
  <2>1. proposal[q] \in ProposalRow \cup {Unmade} /\ proposal[q] # Unmade
    BY <1>1 DEF WikiIInv, KnowledgeTypeOK, Unmade
  <2>2. QED
    BY <1>2, <2>1 DEF ProposalRow
<1>4. page[s] # NoPage
  BY <1>1, <1>2, <1>3, KnowledgeAssumption DEF NoPage, Edition
<1>5. PICK v, stage : v = b + 1 /\ stage = IF op = "approve" THEN "writing" ELSE "deciding"
  OBVIOUS
<1>6. v \in Edition /\ v # 1
  BY <1>1, <1>2, <1>3, <1>5, KnowledgeAssumption DEF Edition
<1>7. /\ stage \in {"creating", "writing", "deciding", "written", "recorded"}
      /\ op \in {"create", "promote", "edit", "restore", "approve", "reject"}
      /\ q \in Proposal \cup {NoProposal} /\ Takes(w, stage, op, s, v, t, q)
  BY <1>1, <1>2, <1>5
<1>8. OnDesk(w, stage, op, s, v, t, q)
  BY <1>3, <1>6, <1>7, Taken
<1>9. PICK k \in Work :
        /\ Sets(w, k) /\ k.at = stage /\ k.op = op
        /\ k.page = s /\ k.version = v /\ k.text = t /\ k.proposal = q
  BY <1>8 DEF OnDesk
<1>10. Fitting(k)
  BY <1>2, <1>3, <1>4, <1>5, <1>6, <1>9, KnowledgeAssumption DEF Fitting
<1>11. QED
  BY <1>5, <1>9, <1>10 DEF Begun

\* A handler begins; it has written nothing yet.
LEMMA HandlerBegins ==
    ASSUME WikiIInv, NEW w \in Writer, Begin(w)
    PROVE  WikiIInv'
<1>1. KnowledgeTypeOK
  BY DEF WikiIInv
<1>2. /\ desk[w] = Idle /\ desk[w].at = "idle"
      /\ UNCHANGED <<page, revision, proposal, thread, promoted, overtaken, promotedAgain>>
      /\ \A s \in Slug : page[s].version < MaxEdition
  BY DEF Begin, Idle
<1>3. 1 \in Edition
  <2>1. Plain \in Slug
    BY KnowledgeAssumption
  <2>2. page[Plain].version \in Nat
    BY <1>1, <2>1 DEF KnowledgeTypeOK, PageRow
  <2>3. QED
    BY <1>2, <2>1, <2>2, KnowledgeAssumption DEF Edition
<1>4. Begun(w)
  BY <1>2, <1>3, BegunByCreate, BegunByEdit, BegunByDecision DEF Begin
<1>5. PICK k \in Work \cup {Idle} :
          /\ Sets(w, k) /\ Fitting(k) /\ k.at \in {"creating", "writing", "deciding"}
          /\ k.at = "deciding" => k.op = "reject"
  BY <1>4 DEF Begun
<1>6. desk' \in [Writer -> Work \cup {Idle}] /\ desk'[w] = k
  BY <1>1, <1>5, DeskByOne
<1>7. /\ ~Promoter(w) /\ ~Promoter(w)'
      /\ \A s \in Slug : ~Pen(w, s) /\ ~Pen(w, s)' /\ ~First(w, s)'
      /\ \A q \in Proposal : ~Approver(w, q) /\ ~Approver(w, q)'
  BY <1>2, <1>5, <1>6 DEF Promoter, Pen, First, Approver
<1>8. Standing
  BY <1>2 DEF Standing
<1>9. KnowledgeTypeOK' /\ PagesOK'
  BY <1>1, <1>2, <1>6 DEF WikiIInv, KnowledgeTypeOK, PagesOK
<1>10. DesksOK'
  BY <1>5, <1>8, FittingStill, DesksKept
<1>11. PagesAccounted' /\ FirstOnce'
  BY <1>2, <1>5, <1>7, PagesStill
<1>12. ProposalsSettled'
  BY <1>2, <1>5, <1>7, ProposalsStill
<1>13. PromotedInHand'
  BY <1>2, <1>5, <1>7, PromotionStill
<1>14. PublishedAsProposed'
  BY <1>2, <1>8, PublishedStill
<1>15. QED
  BY <1>9, <1>10, <1>11, <1>12, <1>13, <1>14 DEF WikiIInv

\* The row of a page is created, unless the slug was taken meanwhile.
LEMMA PageTaken ==
    ASSUME WikiIInv, NEW w \in Writer, CreatePage(w), page[desk[w].page] # NoPage
    PROVE  WikiIInv'
<1>1. KnowledgeTypeOK
  BY DEF WikiIInv
<1>2. /\ desk[w].at = "creating" /\ Concludes(w)
      /\ UNCHANGED <<page, revision, proposal, thread, promoted, overtaken, promotedAgain>>
  BY DEF CreatePage, IsPage
<1>3. PICK k \in Work \cup {Idle} : Sets(w, k) /\ k = Idle /\ k.at = "idle"
  BY <1>2, Concluded
<1>4. desk' \in [Writer -> Work \cup {Idle}] /\ desk'[w] = k
  BY <1>1, <1>3, DeskByOne
<1>5. /\ ~Promoter(w) /\ ~Promoter(w)'
      /\ \A s \in Slug : ~Pen(w, s) /\ ~Pen(w, s)' /\ ~First(w, s)'
      /\ \A q \in Proposal : ~Approver(w, q) /\ ~Approver(w, q)'
  BY <1>2, <1>3, <1>4 DEF Promoter, Pen, First, Approver
<1>6. Standing
  BY <1>2 DEF Standing
<1>7. KnowledgeTypeOK' /\ PagesOK'
  BY <1>1, <1>2, <1>4 DEF WikiIInv, KnowledgeTypeOK, PagesOK
<1>8. DesksOK'
  <2>1. Fitting(k)
    BY <1>3 DEF Fitting
  <2>2. Fitting(k)'
    BY <1>6, <2>1, FittingStill
  <2>3. QED
    BY <1>3, <1>6, <2>2, DesksKept
<1>9. PagesAccounted' /\ FirstOnce'
  BY <1>2, <1>3, <1>5, PagesStill
<1>10. ProposalsSettled'
  BY <1>2, <1>3, <1>5, ProposalsStill
<1>11. PromotedInHand'
  BY <1>2, <1>3, <1>5, PromotionStill
<1>12. PublishedAsProposed'
  BY <1>2, <1>6, PublishedStill
<1>13. QED
  BY <1>7, <1>8, <1>9, <1>10, <1>11, <1>12 DEF WikiIInv

\* A page that is not there has no revisions and no pens.
LEMMA NothingOfNoPage ==
    ASSUME WikiIInv, NEW s \in Slug, page[s] = NoPage
    PROVE  /\ page[s].version = 0
           /\ \A r \in revision : r.page # s
           /\ \A o \in Writer : ~Pen(o, s) /\ ~First(o, s)
<1>1. page[s].version = 0
  BY DEF NoPage
<1>2. \A r \in revision : r.page # s
  BY DEF WikiIInv, PagesOK
<1>3. ASSUME NEW o \in Writer, Pen(o, s) \/ First(o, s) PROVE FALSE
  <2>1. desk[o].page = s /\ desk[o].at \notin {"idle", "creating"}
    BY <1>3 DEF Pen, First
  <2>2. QED
    BY <2>1 DEF WikiIInv, DesksOK, Fitting
<1>4. QED
  BY <1>1, <1>2, <1>3

\* The slug is free: the row of the page is created, and its first revision is in hand.
LEMMA PageCreated ==
    ASSUME WikiIInv, NEW w \in Writer, CreatePage(w), page[desk[w].page] = NoPage
    PROVE  WikiIInv'
<1>1. KnowledgeTypeOK
  BY DEF WikiIInv
<1>2. desk[w].at = "creating" /\ UNCHANGED <<revision, proposal, thread, overtaken, promotedAgain>>
  BY DEF CreatePage
<1>3. PICK s \in Slug, t \in Text, op \in {"create", "promote"} :
          s = desk[w].page /\ t = desk[w].text /\ op = desk[w].op
  <2>1. desk[w].op \in {"create", "promote"}
    BY <1>2 DEF WikiIInv, DesksOK, Fitting
  <2>2. QED
    BY <1>1, <1>2, <2>1, DeskShape
<1>4. PICK row : row = [version |-> 1, text |-> t, active |-> TRUE]
  OBVIOUS
<1>5. /\ page' = [page EXCEPT ![s] = row] /\ GoesOn(w, "written")
      /\ promoted' = IF op = "promote" THEN promoted \cup {s} ELSE promoted
  BY <1>3, <1>4 DEF CreatePage, IsPage
<1>6. Onward(w, "written")
  BY <1>1, <1>2, <1>5, Advanced
<1>7. PICK k \in Work \cup {Idle} :
        /\ Sets(w, k) /\ k.at = "written" /\ k.op = op /\ k.page = s
        /\ k.version = desk[w].version /\ k.text = t /\ k.proposal = desk[w].proposal
  BY <1>3, <1>6 DEF Onward
<1>8. /\ desk' \in [Writer -> Work \cup {Idle}] /\ desk'[w] = k
      /\ \A o \in Writer \ {w} :
            /\ desk'[o] = desk[o] /\ (Promoter(o)' <=> Promoter(o))
            /\ \A u \in Slug : (Pen(o, u)' <=> Pen(o, u)) /\ (First(o, u)' <=> First(o, u))
  BY <1>1, <1>7, DeskByOne
<1>9. k.version = 1 /\ k.version \in Edition /\ k.proposal = NoProposal
  BY <1>1, <1>2, <1>3, <1>7, DeskShape DEF WikiIInv, DesksOK, Fitting
<1>10. row \in PageRow /\ row # NoPage /\ row.version = 1 /\ row.text = t
  BY <1>4, <1>9 DEF PageRow, NoPage, Edition
<1>11. page' \in [Slug -> PageRow] /\ page'[s] = row /\ \A u \in Slug \ {s} : page'[u] = page[u]
  BY <1>1, <1>5, <1>10 DEF KnowledgeTypeOK
<1>12. Standing
  BY <1>2, <1>10, <1>11 DEF Standing
<1>13. KnowledgeTypeOK'
  BY <1>1, <1>2, <1>5, <1>8, <1>11 DEF KnowledgeTypeOK
<1>14. PagesOK'
  <2>1. \A u \in Slug : page'[u] # NoPage => page'[u].version \in Edition /\ page'[u].text \in Text
    BY <1>9, <1>7, <1>10, <1>11 DEF WikiIInv, PagesOK
  <2>2. \A r \in revision' : page'[r.page] # NoPage
    <3>1. \A r \in revision : r.page \in Slug /\ page[r.page] # NoPage
      BY <1>1 DEF WikiIInv, PagesOK, KnowledgeTypeOK, RevisionRow
    <3>2. QED
      BY <1>2, <1>12, <3>1 DEF Standing
  <2>3. QED
    BY <2>1, <2>2 DEF PagesOK
<1>15. DesksOK'
  <2>1. Fitting(k)'
    BY <1>7, <1>9, <1>10, <1>11 DEF Fitting
  <2>2. QED
    BY <1>7, <1>12, <2>1, DesksKept
<1>16. /\ \A r \in revision : r.page # s
       /\ page[s].version = 0 /\ \A o \in Writer : ~Pen(o, s) /\ ~First(o, s)
  BY <1>3, NothingOfNoPage
<1>17. /\ \A u \in Slug : (First(w, u)' => u = s) /\ (Pen(w, u)' <=> u = s) /\ ~Pen(w, u)
       /\ \A u \in Slug : Recorded(u, 1)' <=> Recorded(u, 1)
  BY <1>2, <1>7, <1>8 DEF First, Pen, Recorded
<1>18. FirstOnce'
  <2>1. SUFFICES ASSUME NEW o \in Writer, NEW u \in Slug, First(o, u)'
                 PROVE  ~Recorded(u, 1) /\ \A p \in Writer : First(p, u)' => p = o
    BY <1>17 DEF FirstOnce
  <2>2. CASE u = s
    <3>1. ~Recorded(s, 1)
      BY <1>16 DEF Recorded
    <3>2. \A p \in Writer : First(p, s)' => p = w
      BY <1>8, <1>16
    <3>3. QED
      BY <2>1, <2>2, <3>1, <3>2
  <2>3. CASE u # s
    <3>1. First(o, u) /\ \A p \in Writer : First(p, u)' => First(p, u)
      BY <1>8, <1>17, <2>1, <2>3
    <3>2. QED
      BY <3>1 DEF WikiIInv, FirstOnce
  <2>4. QED
    BY <2>2, <2>3
<1>19. PagesAccounted'
  <2>1. SUFFICES ASSUME NEW u \in Slug \ overtaken PROVE Accounted(u)'
    BY <1>2 DEF PagesAccounted
  <2>2. CASE u = s
    <3>1. \A o \in Writer : Pen(o, s)' <=> o = w
      BY <1>8, <1>16, <1>17
    <3>2. \A v : ~Recorded(s, v)'
      BY <1>2, <1>16 DEF Recorded
    <3>3. \A v \in Edition : v <= 1 => v = 1
      BY DEF Edition
    <3>4. \A v \in Edition :
            Recorded(s, v)' <=> v <= page'[s].version /\ \A o \in Writer : Pen(o, s)' => desk'[o].version # v
      BY <1>8, <1>9, <1>10, <1>11, <3>1, <3>2, <3>3
    <3>5. \A o \in Writer : Pen(o, s)' =>
            /\ desk'[o].version <= page'[s].version
            /\ desk'[o].version = page'[s].version => desk'[o].text = page'[s].text
            /\ \A p \in Writer : Pen(p, s)' /\ desk'[p].version = desk'[o].version => p = o
      BY <1>7, <1>8, <1>9, <1>10, <1>11, <3>1
    <3>6. \A r \in revision' : r.page = s /\ r.version = page'[s].version => r.text = page'[s].text
      BY <1>2, <1>16
    <3>7. QED
      BY <2>2, <3>4, <3>5, <3>6 DEF Accounted
  <2>3. CASE u # s
    <3>1. /\ Accounted(u) /\ page'[u] = page[u]
          /\ {r \in revision' : r.page = u} = {r \in revision : r.page = u}
      BY <1>2, <1>11, <2>1, <2>3 DEF WikiIInv, PagesAccounted
    <3>2. /\ Pen(w, u)' <=> Pen(w, u)
          /\ Pen(w, u) => k.version = desk[w].version /\ k.text = desk[w].text
      BY <1>17, <2>3
    <3>3. QED
      BY <1>1, <1>7, <2>1, <3>1, <3>2, PageStill
  <2>4. QED
    BY <2>2, <2>3
<1>20. ProposalsSettled'
  <2>1. \A q \in Proposal : ~Approver(w, q) /\ ~Approver(w, q)'
    BY <1>2, <1>7, <1>8 DEF Approver
  <2>2. QED
    BY <1>2, <1>7, <2>1, ProposalsStill
<1>21. PromotedInHand'
  <2>1. SUFFICES ASSUME ~promotedAgain
                 PROVE  promoted' = ({thread} \ {NoSlug}) \cup
                                       {desk'[u].page : u \in {o \in Writer : Promoter(o)'}}
    BY <1>2 DEF PromotedInHand
  <2>2. promoted = ({thread} \ {NoSlug}) \cup {desk[u].page : u \in {o \in Writer : Promoter(o)}}
    BY <2>1 DEF WikiIInv, PromotedInHand
  <2>3. ~Promoter(w) /\ (Promoter(w)' <=> op = "promote") /\ desk'[w].page = s
    BY <1>2, <1>7, <1>8 DEF Promoter
  <2>4. \A o \in Writer \ {w} : (Promoter(o)' <=> Promoter(o)) /\ desk'[o].page = desk[o].page
    BY <1>8
  <2>5. CASE op = "promote"
    <3>1. {desk'[u].page : u \in {o \in Writer : Promoter(o)'}}
            = {desk[u].page : u \in {o \in Writer : Promoter(o)}} \cup {s}
      BY <2>3, <2>4, <2>5
    <3>2. QED
      BY <1>5, <2>2, <2>5, <3>1
  <2>6. CASE op # "promote"
    <3>1. {desk'[u].page : u \in {o \in Writer : Promoter(o)'}}
            = {desk[u].page : u \in {o \in Writer : Promoter(o)}}
      BY <2>3, <2>4, <2>6
    <3>2. QED
      BY <1>5, <2>2, <2>6, <3>1
  <2>7. QED
    BY <2>5, <2>6
<1>22. PublishedAsProposed'
  BY <1>2, <1>12, PublishedStill
<1>23. QED
  BY <1>13, <1>14, <1>15, <1>18, <1>19, <1>20, <1>21, <1>22 DEF WikiIInv

\* The row of a page is overwritten.
LEMMA PageWritten ==
    ASSUME WikiIInv, NEW w \in Writer, WritePage(w)
    PROVE  WikiIInv'
<1>1. KnowledgeTypeOK
  BY DEF WikiIInv
<1>2. desk[w].at = "writing" /\ UNCHANGED <<revision, proposal, thread, promoted, promotedAgain>>
  BY DEF WritePage
<1>3. PICK s \in Slug, t \in Text, v \in Edition, op \in {"edit", "restore", "approve"} :
          s = desk[w].page /\ t = desk[w].text /\ v = desk[w].version /\ op = desk[w].op
  <2>1. desk[w].op \in {"edit", "restore", "approve"}
    BY <1>2 DEF WikiIInv, DesksOK, Fitting
  <2>2. QED
    BY <1>1, <1>2, <2>1, DeskShape
<1>4. /\ Fitting(desk[w]) /\ v # 1
      /\ desk[w].proposal # NoProposal <=> op = "approve"
  BY <1>2, <1>3 DEF WikiIInv, DesksOK, Fitting
<1>5. PICK active \in BOOLEAN : active = (page[s].active \/ op = "restore")
  OBVIOUS
<1>6. PICK row : row = [version |-> v, text |-> t, active |-> active]
  OBVIOUS
<1>7. PICK stage : stage = IF op = "approve" THEN "deciding" ELSE "written"
  OBVIOUS
<1>8. /\ page' = [page EXCEPT ![s] = row] /\ GoesOn(w, stage)
      /\ overtaken' = IF page[s].version = v - 1 THEN overtaken ELSE overtaken \cup {s}
  BY <1>3, <1>5, <1>6, <1>7 DEF WritePage
<1>9. Onward(w, stage)
  BY <1>1, <1>2, <1>7, <1>8, Advanced
<1>10. PICK k \in Work \cup {Idle} :
        /\ Sets(w, k) /\ k.at = stage /\ k.op = op /\ k.page = s
        /\ k.version = v /\ k.text = t /\ k.proposal = desk[w].proposal
  BY <1>3, <1>9 DEF Onward
<1>11. /\ desk' \in [Writer -> Work \cup {Idle}] /\ desk'[w] = k
       /\ \A o \in Writer \ {w} :
            /\ desk'[o] = desk[o] /\ \A u \in Slug : Pen(o, u)' <=> Pen(o, u)
  BY <1>1, <1>10, DeskByOne
<1>12. row \in PageRow /\ row # NoPage /\ row.version = v /\ row.text = t
  BY <1>6, KnowledgeAssumption DEF PageRow, NoPage, Edition
<1>13. page' \in [Slug -> PageRow] /\ page'[s] = row /\ \A u \in Slug \ {s} : page'[u] = page[u]
  BY <1>1, <1>8, <1>12 DEF KnowledgeTypeOK
<1>14. Standing
  BY <1>2, <1>12, <1>13 DEF Standing
<1>15. overtaken' \in SUBSET Slug /\ overtaken \subseteq overtaken'
  BY <1>1, <1>8 DEF KnowledgeTypeOK
<1>16. KnowledgeTypeOK'
  BY <1>1, <1>2, <1>11, <1>13, <1>15 DEF KnowledgeTypeOK
<1>17. PagesOK'
  <2>1. \A u \in Slug : page'[u] # NoPage => page'[u].version \in Edition /\ page'[u].text \in Text
    BY <1>12, <1>13 DEF WikiIInv, PagesOK
  <2>2. \A r \in revision : r.page \in Slug /\ page[r.page] # NoPage
    BY <1>1 DEF WikiIInv, PagesOK, KnowledgeTypeOK, RevisionRow
  <2>3. \A r \in revision' : page'[r.page] # NoPage
    BY <1>2, <1>14, <2>2 DEF Standing
  <2>4. QED
    BY <2>1, <2>3 DEF PagesOK
<1>18. DesksOK'
  <2>1. page'[k.page] # NoPage
    BY <1>10, <1>12, <1>13
  <2>2. k.proposal # NoProposal =>
           /\ proposal[k.proposal] # Unmade
           /\ k.page = proposal[k.proposal].page /\ k.text = proposal[k.proposal].text
           /\ k.version = proposal[k.proposal].base + 1
    BY <1>2, <1>3, <1>4, <1>10 DEF Fitting
  <2>3. Fitting(k)'
    BY <1>2, <1>4, <1>7, <1>10, <2>1, <2>2 DEF Fitting
  <2>4. QED
    BY <1>10, <1>14, <2>3, DesksKept
<1>19. \A u \in Slug : ~First(w, u)' /\ (Pen(w, u)' <=> u = s) /\ ~Pen(w, u)
  BY <1>2, <1>7, <1>10, <1>11 DEF First, Pen
<1>20. FirstOnce'
  <2>1. \A o \in Writer, u \in Slug : First(o, u)' => First(o, u)
    BY <1>1, <1>10, <1>19, DeskByOne
  <2>2. \A u \in Slug : Recorded(u, 1)' <=> Recorded(u, 1)
    BY <1>2 DEF Recorded
  <2>3. QED
    BY <2>1, <2>2 DEF WikiIInv, FirstOnce
<1>21. PagesAccounted'
  <2>1. SUFFICES ASSUME NEW u \in Slug \ overtaken' PROVE Accounted(u)'
    BY DEF PagesAccounted
  <2>2. Accounted(u)
    BY <1>15, <2>1 DEF WikiIInv, PagesAccounted
  <2>3. CASE u = s
    <3>1. PICK n \in Nat : n = page[s].version
      BY <1>1 DEF KnowledgeTypeOK, PageRow
    <3>2. n = v - 1 /\ v \in Nat
      BY <1>8, <2>1, <2>3, <3>1 DEF Edition
    <3>3. \A z \in Edition :
             Recorded(s, z)' <=> z <= n /\ \A o \in Writer : Pen(o, s) => desk[o].version # z
      BY <1>2, <2>2, <2>3, <3>1 DEF Accounted, Recorded
    <3>4. \A o \in Writer : Pen(o, s) => desk[o].version <= n /\ desk[o].version \in Edition
      <4>1. ASSUME NEW o \in Writer, Pen(o, s) PROVE desk[o].version \in Edition
        <5>1. desk[o].at # "idle"
          BY <4>1 DEF Pen
        <5>2. QED
          BY <1>1, <5>1, DeskShape
      <4>2. QED
        BY <2>2, <2>3, <3>1, <4>1 DEF Accounted
    <3>5. \A z \in Edition : z \in Nat /\ (z <= v <=> z <= n \/ z = v)
      BY <3>2 DEF Edition
    <3>6. \A o \in Writer : Pen(o, s)' <=> (o = w \/ Pen(o, s))
      BY <1>11, <1>19
    <3>7. desk'[w].version = v /\ desk'[w].text = t
      BY <1>10, <1>11
    <3>8. \A o \in Writer : Pen(o, s) => o # w /\ desk'[o] = desk[o] /\ desk[o].version # v
      BY <1>11, <1>19, <3>2, <3>4
    <3>9. \A z \in Edition :
             Recorded(s, z)' <=> z <= page'[s].version /\ \A o \in Writer : Pen(o, s)' => desk'[o].version # z
      <4>1. ASSUME NEW z \in Edition
            PROVE  (\A o \in Writer : Pen(o, s)' => desk'[o].version # z) <=>
                   z # v /\ (\A o \in Writer : Pen(o, s) => desk[o].version # z)
        BY <3>6, <3>7, <3>8
      <4>2. ~(v <= n)
        BY <3>2
      <4>3. QED
        BY <1>12, <1>13, <3>3, <3>5, <4>1, <4>2
    <3>10. \A o \in Writer : Pen(o, s)' =>
             /\ desk'[o].version <= page'[s].version
             /\ desk'[o].version = page'[s].version => desk'[o].text = page'[s].text
             /\ \A p \in Writer : Pen(p, s)' /\ desk'[p].version = desk'[o].version => p = o
      <4>1. SUFFICES ASSUME NEW o \in Writer, Pen(o, s)'
                     PROVE  /\ desk'[o].version <= v
                            /\ desk'[o].version = v => desk'[o].text = t
                            /\ \A p \in Writer : Pen(p, s)' /\ desk'[p].version = desk'[o].version => p = o
        BY <1>12, <1>13
      <4>2. CASE o = w
        BY <3>2, <3>6, <3>7, <3>8, <4>2
      <4>3. CASE o # w
        <5>1. Pen(o, s) /\ desk'[o] = desk[o] /\ desk[o].version <= n /\ desk[o].version \in Edition
          BY <3>4, <3>6, <3>8, <4>1, <4>3
        <5>2. desk[o].version <= v /\ desk[o].version # v
          BY <3>5, <3>8, <5>1
        <5>3. \A p \in Writer : Pen(p, s) /\ desk[p].version = desk[o].version => p = o
          BY <2>2, <2>3, <5>1 DEF Accounted
        <5>4. QED
          BY <3>6, <3>7, <3>8, <5>1, <5>2, <5>3
      <4>4. QED
        BY <4>2, <4>3
    <3>11. \A r \in revision' : r.page = s /\ r.version = page'[s].version => r.text = page'[s].text
      <4>1. ~Recorded(s, v)'
        BY <3>2, <3>3
      <4>2. QED
        BY <1>12, <1>13, <4>1 DEF Recorded
    <3>12. QED
      BY <2>3, <3>9, <3>10, <3>11 DEF Accounted
  <2>4. CASE u # s
    <3>1. page'[u] = page[u] /\ {r \in revision' : r.page = u} = {r \in revision : r.page = u}
      BY <1>2, <1>13, <2>1, <2>4
    <3>2. /\ Pen(w, u)' <=> Pen(w, u)
          /\ Pen(w, u) => k.version = desk[w].version /\ k.text = desk[w].text
      BY <1>19, <2>4
    <3>3. QED
      BY <1>1, <1>10, <2>1, <2>2, <3>1, <3>2, PageStill
  <2>5. QED
    BY <2>3, <2>4
<1>22. ProposalsSettled'
  <2>1. \A q \in Proposal : ~Approver(w, q) /\ ~Approver(w, q)'
    BY <1>2, <1>7, <1>10, <1>11 DEF Approver
  <2>2. QED
    BY <1>2, <1>10, <1>15, <2>1, ProposalsStill
<1>23. PromotedInHand'
  <2>1. ~Promoter(w) /\ ~Promoter(w)'
    BY <1>2, <1>10, <1>11 DEF Promoter
  <2>2. QED
    BY <1>2, <1>10, <2>1, PromotionStill
<1>24. PublishedAsProposed'
  BY <1>2, <1>14, PublishedStill
<1>25. QED
  BY <1>16, <1>17, <1>18, <1>20, <1>21, <1>22, <1>23, <1>24 DEF WikiIInv

\* A request is decided.
LEMMA RequestDecided ==
    ASSUME WikiIInv, NEW w \in Writer, Decide(w)
    PROVE  WikiIInv'
<1>1. KnowledgeTypeOK
  BY DEF WikiIInv
<1>2. desk[w].at = "deciding" /\ UNCHANGED <<page, revision, thread, promoted, promotedAgain>>
  BY DEF Decide
<1>3. PICK s \in Slug, q \in Proposal, op \in {"approve", "reject"} :
          s = desk[w].page /\ q = desk[w].proposal /\ op = desk[w].op
  <2>1. desk[w].op \in {"approve", "reject"} /\ desk[w].proposal # NoProposal
    BY <1>2 DEF WikiIInv, DesksOK, Fitting
  <2>2. QED
    BY <1>1, <1>2, <2>1, DeskShape
<1>4. proposal[q] # Unmade /\ proposal[q].page = s
  BY <1>2, <1>3, KnowledgeAssumption DEF WikiIInv, DesksOK, Fitting
<1>5. PICK verdict \in {"APPROVED", "REJECTED"} : verdict = IF op = "approve" THEN "APPROVED" ELSE "REJECTED"
  OBVIOUS
<1>6. PICK row : row = [status |-> verdict, page |-> proposal[q].page, base |-> proposal[q].base,
                        text |-> proposal[q].text]
  OBVIOUS
<1>7. /\ proposal' = [proposal EXCEPT ![q] = row]
      /\ overtaken' = IF proposal[q].status = "PENDING" THEN overtaken ELSE overtaken \cup {s}
      /\ IF op = "approve" THEN GoesOn(w, "written") ELSE Concludes(w)
  BY <1>3, <1>5, <1>6 DEF Decide
<1>8. PICK k \in Work \cup {Idle} :
        /\ Sets(w, k)
        /\ op = "reject" => k.at = "idle"
        /\ op = "approve" =>
             /\ k.at = "written" /\ k.op = op /\ k.page = s /\ k.version = desk[w].version
             /\ k.text = desk[w].text /\ k.proposal = q
  <2>1. CASE op = "approve"
    <3>1. Onward(w, "written")
      BY <1>1, <1>2, <1>7, <2>1, Advanced
    <3>2. QED
      BY <1>3, <2>1, <3>1 DEF Onward
  <2>2. CASE op = "reject"
    BY <1>7, <2>2, Concluded
  <2>3. QED
    BY <2>1, <2>2
<1>9. /\ desk' \in [Writer -> Work \cup {Idle}] /\ desk'[w] = k
      /\ \A o \in Writer \ {w} : \A u \in Proposal : Approver(o, u)' <=> Approver(o, u)
  BY <1>1, <1>8, DeskByOne
<1>10. /\ row \in ProposalRow /\ row.status = verdict /\ row.page = s
       /\ row.base = proposal[q].base /\ row.text = proposal[q].text /\ row # Unmade
  <2>1. proposal[q] \in ProposalRow
    BY <1>1, <1>4 DEF KnowledgeTypeOK
  <2>2. row \in ProposalRow
    BY <1>6, <2>1 DEF ProposalRow
  <2>3. /\ row.status = verdict /\ row.page = s
        /\ row.base = proposal[q].base /\ row.text = proposal[q].text
    BY <1>4, <1>6
  <2>4. row # Unmade
    BY <2>3 DEF Unmade
  <2>5. QED
    BY <2>2, <2>3, <2>4
<1>11. /\ proposal' \in [Proposal -> ProposalRow \cup {Unmade}] /\ proposal'[q] = row
       /\ \A u \in Proposal \ {q} : proposal'[u] = proposal[u]
  BY <1>1, <1>7, <1>10 DEF KnowledgeTypeOK
<1>12. Standing
  BY <1>2, <1>4, <1>10, <1>11 DEF Standing
<1>13. overtaken' \in SUBSET Slug /\ overtaken \subseteq overtaken'
  BY <1>1, <1>7 DEF KnowledgeTypeOK
<1>14. KnowledgeTypeOK' /\ PagesOK'
  BY <1>1, <1>2, <1>9, <1>11, <1>13 DEF WikiIInv, KnowledgeTypeOK, PagesOK
<1>15. DesksOK'
  <2>1. Fitting(desk[w])
    BY DEF WikiIInv, DesksOK
  <2>2. Fitting(k)
    <3>1. CASE op = "approve"
      BY <1>2, <1>3, <1>8, <2>1, <3>1 DEF Fitting
    <3>2. CASE op = "reject"
      BY <1>8, <3>2 DEF Fitting
    <3>3. QED
      BY <3>1, <3>2
  <2>3. Fitting(k)'
    BY <1>12, <2>2, FittingStill
  <2>4. QED
    BY <1>8, <1>12, <2>3, DesksKept
<1>16. /\ \A u \in Slug : ~First(w, u)' /\ (Pen(w, u)' <=> Pen(w, u))
       /\ \A u \in Slug : Pen(w, u) => k.version = desk[w].version /\ k.text = desk[w].text
       /\ \A u \in Proposal : ~Approver(w, u) /\ (Approver(w, u)' <=> u = q /\ op = "approve")
       /\ ~Promoter(w) /\ ~Promoter(w)'
  BY <1>2, <1>3, <1>8, <1>9 DEF First, Pen, Approver, Promoter
<1>17. PagesAccounted' /\ FirstOnce'
  BY <1>2, <1>8, <1>13, <1>16, PagesStill
<1>18. ProposalsSettled'
  <2>1. SUFFICES ASSUME NEW u \in Proposal, proposal'[u].page \in Slug \ overtaken'
                 PROVE  Settled(u)'
    BY DEF ProposalsSettled
  <2>2. CASE u # q
    <3>1. Settled(u) /\ proposal'[u] = proposal[u]
      BY <1>11, <1>13, <2>1, <2>2 DEF WikiIInv, ProposalsSettled
    <3>2. \A o \in Writer : Approver(o, u)' <=> Approver(o, u)
      BY <1>9, <1>16, <2>2
    <3>3. QED
      BY <1>2, <3>1, <3>2 DEF Settled
  <2>3. CASE u = q
    <3>1. s \notin overtaken' /\ proposal[q].status = "PENDING"
      BY <1>7, <1>10, <1>11, <2>1, <2>3
    <3>2. Settled(q)
      BY <1>4, <1>13, <3>1 DEF WikiIInv, ProposalsSettled
    <3>3. (\A r \in revision : r.proposal # q) /\ (\A o \in Writer : ~Approver(o, q))
      BY <3>1, <3>2 DEF Settled
    <3>4. \A o \in Writer : Approver(o, q)' <=> o = w /\ op = "approve"
      BY <1>9, <1>16, <3>3
    <3>5. proposal'[q].status = verdict
      BY <1>10, <1>11
    <3>6. QED
      BY <1>2, <1>5, <2>3, <3>3, <3>4, <3>5 DEF Settled
  <2>4. QED
    BY <2>2, <2>3
<1>19. PromotedInHand'
  BY <1>2, <1>8, <1>16, PromotionStill
<1>20. PublishedAsProposed'
  BY <1>2, <1>12, PublishedStill
<1>21. QED
  BY <1>14, <1>15, <1>17, <1>18, <1>19, <1>20 DEF WikiIInv

\* A handler about to record what it wrote: unless it was overtaken, the number is free.
LEMMA NumberFree ==
    ASSUME WikiIInv, NEW w \in Writer, desk[w].at = "written",
           Recorded(desk[w].page, desk[w].version)
    PROVE  desk[w].page \in overtaken /\ desk[w].op \notin {"create", "promote"}
<1>1. /\ desk[w].page \in Slug /\ desk[w].version \in Edition
  BY DeskShape DEF WikiIInv
<1>2. Pen(w, desk[w].page)
  BY DEF Pen
<1>3. desk[w].page \in overtaken
  BY <1>1, <1>2 DEF WikiIInv, PagesAccounted, Accounted
<1>4. ASSUME desk[w].op \in {"create", "promote"} PROVE FALSE
  <2>1. First(w, desk[w].page)
    BY <1>4 DEF First
  <2>2. desk[w].version = 1
    BY <1>4 DEF WikiIInv, DesksOK, Fitting
  <2>3. QED
    BY <1>1, <2>1, <2>2 DEF WikiIInv, FirstOnce
<1>5. QED
  BY <1>3, <1>4

\* The number of the revision is taken: the handler fails, and all stays as it was.
LEMMA RevisionRefused ==
    ASSUME WikiIInv, NEW w \in Writer, AddRevision(w), Recorded(desk[w].page, desk[w].version)
    PROVE  WikiIInv'
<1>1. KnowledgeTypeOK
  BY DEF WikiIInv
<1>2. /\ desk[w].at = "written" /\ Concludes(w)
      /\ UNCHANGED <<page, revision, proposal, thread, promoted, overtaken, promotedAgain>>
  BY DEF AddRevision
<1>3. PICK k \in Work \cup {Idle} : Sets(w, k) /\ k = Idle /\ k.at = "idle"
  BY <1>2, Concluded
<1>4. desk' \in [Writer -> Work \cup {Idle}] /\ desk'[w] = k
  BY <1>1, <1>3, DeskByOne
<1>5. desk[w].page \in overtaken /\ desk[w].op \notin {"create", "promote"}
  BY <1>2, NumberFree
<1>6. /\ ~Promoter(w) /\ ~Promoter(w)'
      /\ \A s \in Slug : (Pen(w, s) => s \in overtaken) /\ ~Pen(w, s)' /\ ~First(w, s)'
  BY <1>2, <1>3, <1>4, <1>5 DEF Promoter, Pen, First
<1>7. \A q \in Proposal : ~Approver(w, q)' /\ (Approver(w, q) => proposal[q].page \in overtaken)
  BY <1>2, <1>3, <1>4, <1>5, KnowledgeAssumption DEF Approver, WikiIInv, DesksOK, Fitting
<1>8. Standing
  BY <1>2 DEF Standing
<1>9. KnowledgeTypeOK' /\ PagesOK'
  BY <1>1, <1>2, <1>4 DEF WikiIInv, KnowledgeTypeOK, PagesOK
<1>10. DesksOK'
  <2>1. Fitting(k)
    BY <1>3 DEF Fitting
  <2>2. Fitting(k)'
    BY <1>8, <2>1, FittingStill
  <2>3. QED
    BY <1>3, <1>8, <2>2, DesksKept
<1>11. PagesAccounted' /\ FirstOnce'
  BY <1>2, <1>3, <1>6, PagesStill
<1>12. ProposalsSettled'
  BY <1>2, <1>3, <1>7, ProposalsStill
<1>13. PromotedInHand'
  BY <1>2, <1>3, <1>6, PromotionStill
<1>14. PublishedAsProposed'
  BY <1>2, <1>8, PublishedStill
<1>15. QED
  BY <1>9, <1>10, <1>11, <1>12, <1>13, <1>14 DEF WikiIInv

\* The revision is recorded.
LEMMA RevisionAdded ==
    ASSUME WikiIInv, NEW w \in Writer, AddRevision(w), ~Recorded(desk[w].page, desk[w].version)
    PROVE  WikiIInv'
<1>1. KnowledgeTypeOK
  BY DEF WikiIInv
<1>2. /\ desk[w].at = "written"
      /\ UNCHANGED <<page, proposal, thread, promoted, overtaken, promotedAgain>>
  BY DEF AddRevision
<1>3. PICK s \in Slug, v \in Edition, t \in Text, q \in Proposal \cup {NoProposal} :
          /\ s = desk[w].page /\ v = desk[w].version /\ t = desk[w].text
          /\ q = desk[w].proposal
  BY <1>1, <1>2, DeskShape
<1>4. /\ page[s] # NoPage
      /\ v = 1 <=> desk[w].op \in {"create", "promote"}
      /\ q # NoProposal <=> desk[w].op = "approve"
      /\ q # NoProposal =>
           /\ proposal[q].page = s /\ proposal[q].text = t /\ v = proposal[q].base + 1
  BY <1>2, <1>3 DEF WikiIInv, DesksOK, Fitting
<1>5. PICK e : e = [page |-> s, version |-> v, text |-> t, proposal |-> q]
  OBVIOUS
<1>6. /\ e \in RevisionRow /\ e.page = s /\ e.version = v /\ e.text = t /\ e.proposal = q
      /\ revision' = revision \cup {e}
  BY <1>3, <1>5 DEF AddRevision, RevisionOf, RevisionRow
<1>7. ~Recorded(s, v)
  BY <1>3
<1>8. PICK k \in Work \cup {Idle} :
        /\ Sets(w, k)
        /\ desk[w].op # "promote" => k = Idle /\ k.at = "idle"
        /\ desk[w].op = "promote" =>
             /\ k.at = "recorded" /\ k.op = "promote" /\ k.page = s /\ k.version = v
             /\ k.text = t /\ k.proposal = q
  <2>1. CASE desk[w].op = "promote"
    <3>1. GoesOn(w, "recorded")
      BY <2>1 DEF AddRevision
    <3>2. Onward(w, "recorded")
      BY <1>1, <1>2, <3>1, Advanced
    <3>3. QED
      BY <1>3, <2>1, <3>2 DEF Onward
  <2>2. CASE desk[w].op # "promote"
    <3>1. Concludes(w)
      BY <2>2 DEF AddRevision
    <3>2. QED
      BY <2>2, <3>1, Concluded
  <2>3. QED
    BY <2>1, <2>2
<1>9. /\ desk' \in [Writer -> Work \cup {Idle}] /\ desk'[w] = k
      /\ \A o \in Writer \ {w} :
            /\ desk'[o] = desk[o]
            /\ \A u \in Slug : (Pen(o, u)' <=> Pen(o, u)) /\ (First(o, u)' <=> First(o, u))
            /\ \A u \in Proposal : Approver(o, u)' <=> Approver(o, u)
  BY <1>1, <1>8, DeskByOne
<1>10. Standing
  BY <1>2 DEF Standing
<1>11. KnowledgeTypeOK' /\ PagesOK'
  BY <1>1, <1>2, <1>4, <1>6, <1>9 DEF WikiIInv, KnowledgeTypeOK, PagesOK
<1>12. DesksOK'
  <2>1. Fitting(k)
    <3>1. CASE desk[w].op = "promote"
      BY <1>4, <1>8, <3>1 DEF Fitting
    <3>2. CASE desk[w].op # "promote"
      BY <1>8, <3>2 DEF Fitting
    <3>3. QED
      BY <3>1, <3>2
  <2>2. Fitting(k)'
    BY <1>10, <2>1, FittingStill
  <2>3. QED
    BY <1>8, <1>10, <2>2, DesksKept
<1>13. /\ \A u \in Slug : ~First(w, u)' /\ ~Pen(w, u)' /\ (Pen(w, u) <=> u = s)
       /\ \A u \in Proposal : ~Approver(w, u)' /\ (Approver(w, u) <=> u = q)
  BY <1>2, <1>3, <1>4, <1>8, <1>9, KnowledgeAssumption DEF First, Pen, Approver
<1>14. \A u \in Slug, z \in Edition : Recorded(u, z)' <=> Recorded(u, z) \/ (u = s /\ z = v)
  BY <1>6 DEF Recorded
<1>15. FirstOnce'
  <2>1. SUFFICES ASSUME NEW o \in Writer, NEW u \in Slug, First(o, u)'
                 PROVE  ~Recorded(u, 1)' /\ \A p \in Writer : First(p, u)' => p = o
    BY DEF FirstOnce
  <2>2. First(o, u) /\ o # w
    BY <1>9, <1>13, <2>1
  <2>3. ~Recorded(u, 1) /\ \A p \in Writer : First(p, u) => p = o
    BY <2>2 DEF WikiIInv, FirstOnce
  <2>4. ~(u = s /\ v = 1)
    BY <1>2, <1>3, <1>4, <2>2, <2>3 DEF First
  <2>5. Recorded(u, 1)' => Recorded(u, 1)
    BY <1>6, <2>4 DEF Recorded
  <2>6. QED
    BY <1>9, <1>13, <2>3, <2>5
<1>16. PagesAccounted'
  <2>1. SUFFICES ASSUME NEW u \in Slug \ overtaken PROVE Accounted(u)'
    BY <1>2 DEF PagesAccounted
  <2>2. Accounted(u)
    BY DEF WikiIInv, PagesAccounted
  <2>3. CASE u = s
    <3>1. Pen(w, s) /\ \A o \in Writer : Pen(o, s)' <=> Pen(o, s) /\ o # w
      BY <1>9, <1>13
    <3>2. /\ v <= page[s].version /\ (v = page[s].version => t = page[s].text)
          /\ \A o \in Writer : Pen(o, s) /\ desk[o].version = v => o = w
      BY <1>3, <2>2, <2>3, <3>1 DEF Accounted
    <3>3. ASSUME NEW z \in Edition
          PROVE  Recorded(s, z)' <=>
                 z <= page'[s].version /\ \A o \in Writer : Pen(o, s)' => desk'[o].version # z
      <4>1. Recorded(s, z) <=> z <= page[s].version /\ \A o \in Writer : Pen(o, s) => desk[o].version # z
        BY <2>2, <2>3 DEF Accounted
      <4>2. CASE z = v
        BY <1>2, <1>9, <1>14, <3>1, <3>2, <4>2
      <4>3. CASE z # v
        <5>1. (\A o \in Writer : Pen(o, s)' => desk'[o].version # z) <=>
              (\A o \in Writer : Pen(o, s) => desk[o].version # z)
          BY <1>3, <1>9, <3>1, <4>3
        <5>2. QED
          BY <1>2, <1>14, <4>1, <4>3, <5>1
      <4>4. QED
        BY <4>2, <4>3
    <3>4. \A o \in Writer : Pen(o, s)' =>
             /\ desk'[o].version <= page'[s].version
             /\ desk'[o].version = page'[s].version => desk'[o].text = page'[s].text
             /\ \A p \in Writer : Pen(p, s)' /\ desk'[p].version = desk'[o].version => p = o
      BY <1>2, <1>9, <2>2, <2>3, <3>1 DEF Accounted
    <3>5. \A r \in revision' : r.page = s /\ r.version = page'[s].version => r.text = page'[s].text
      BY <1>2, <1>6, <2>2, <2>3, <3>2 DEF Accounted
    <3>6. QED
      BY <2>3, <3>3, <3>4, <3>5 DEF Accounted
  <2>4. CASE u # s
    <3>1. page'[u] = page[u] /\ {r \in revision' : r.page = u} = {r \in revision : r.page = u}
      BY <1>2, <1>6, <2>4
    <3>2. /\ Pen(w, u)' <=> Pen(w, u)
          /\ Pen(w, u) => k.version = desk[w].version /\ k.text = desk[w].text
      BY <1>13, <2>4
    <3>3. QED
      BY <1>1, <1>8, <2>2, <3>1, <3>2, PageStill
  <2>5. QED
    BY <2>3, <2>4
<1>17. PublishedAsProposed'
  <2>1. ASSUME NEW r \in revision', r.proposal # NoProposal
        PROVE  /\ proposal[r.proposal].page = r.page /\ proposal[r.proposal].text = r.text
               /\ r.version = proposal[r.proposal].base + 1
    BY <1>4, <1>6, <2>1 DEF WikiIInv, PublishedAsProposed
  <2>2. ASSUME NEW r \in revision, r.proposal = q, q # NoProposal PROVE FALSE
    <3>1. r.page = s /\ r.version = v
      BY <1>4, <2>2 DEF WikiIInv, PublishedAsProposed
    <3>2. QED
      BY <1>7, <3>1 DEF Recorded
  <2>3. ASSUME NEW r \in revision', NEW o \in revision', r.proposal # NoProposal,
               o.proposal = r.proposal
        PROVE  o = r
    BY <1>6, <2>2, <2>3 DEF WikiIInv, PublishedAsProposed
  <2>4. QED
    BY <1>2, <2>1, <2>3 DEF PublishedAsProposed
<1>18. ProposalsSettled'
  <2>1. SUFFICES ASSUME NEW u \in Proposal, proposal[u].page \in Slug \ overtaken PROVE Settled(u)'
    BY <1>2 DEF ProposalsSettled
  <2>2. Settled(u)
    BY <2>1 DEF WikiIInv, ProposalsSettled
  <2>3. CASE u = q
    <3>1. proposal[u].status = "APPROVED"
      BY <1>13, <2>2, <2>3 DEF Settled
    <3>2. \E r \in revision' : r.proposal = u
      BY <1>6, <2>3
    <3>3. QED
      BY <1>2, <3>1, <3>2 DEF Settled
  <2>4. CASE u # q
    <3>1. (\E r \in revision' : r.proposal = u) <=> (\E r \in revision : r.proposal = u)
      BY <1>6, <2>4
    <3>2. \A o \in Writer : Approver(o, u)' <=> Approver(o, u)
      BY <1>9, <1>13, <2>4
    <3>3. QED
      BY <1>2, <2>2, <3>1, <3>2 DEF Settled
  <2>5. QED
    BY <2>3, <2>4
<1>19. PromotedInHand'
  <2>1. (Promoter(w)' <=> Promoter(w)) /\ (Promoter(w) => k.page = desk[w].page)
    BY <1>2, <1>3, <1>8, <1>9 DEF Promoter
  <2>2. QED
    BY <1>2, <1>8, <2>1, PromotionStill
<1>20. QED
  BY <1>11, <1>12, <1>15, <1>16, <1>17, <1>18, <1>19 DEF WikiIInv

\* The thread is linked to its page.
LEMMA ThreadLinked ==
    ASSUME WikiIInv, NEW w \in Writer, LinkThread(w)
    PROVE  WikiIInv'
<1>1. KnowledgeTypeOK
  BY DEF WikiIInv
<1>2. /\ desk[w].at = "recorded" /\ Concludes(w) /\ thread' = desk[w].page
      /\ promotedAgain' = (promotedAgain \/ thread # NoSlug)
      /\ UNCHANGED <<page, revision, proposal, promoted, overtaken>>
  BY DEF LinkThread
<1>3. PICK k \in Work \cup {Idle} : Sets(w, k) /\ k = Idle /\ k.at = "idle"
  BY <1>2, Concluded
<1>4. /\ desk' \in [Writer -> Work \cup {Idle}] /\ desk'[w] = k
      /\ \A o \in Writer \ {w} : desk'[o] = desk[o] /\ (Promoter(o)' <=> Promoter(o))
  BY <1>1, <1>3, DeskByOne
<1>5. /\ ~Promoter(w)'
      /\ \A s \in Slug : ~Pen(w, s) /\ ~Pen(w, s)' /\ ~First(w, s)'
      /\ \A q \in Proposal : ~Approver(w, q) /\ ~Approver(w, q)'
  BY <1>2, <1>3, <1>4 DEF Promoter, Pen, First, Approver
<1>6. Standing
  BY <1>2 DEF Standing
<1>7. desk[w].page \in Slug
  BY <1>1, <1>2, DeskShape
<1>8. KnowledgeTypeOK' /\ PagesOK'
  <2>1. promotedAgain' \in BOOLEAN
    BY <1>2
  <2>2. thread' \in Slug \cup {NoSlug}
    BY <1>2, <1>7
  <2>3. QED
    BY <1>1, <1>2, <1>4, <2>1, <2>2 DEF WikiIInv, KnowledgeTypeOK, PagesOK
<1>9. DesksOK'
  <2>1. Fitting(k)
    BY <1>3 DEF Fitting
  <2>2. Fitting(k)'
    BY <1>6, <2>1, FittingStill
  <2>3. QED
    BY <1>3, <1>6, <2>2, DesksKept
<1>10. PagesAccounted' /\ FirstOnce'
  BY <1>2, <1>3, <1>5, PagesStill
<1>11. ProposalsSettled'
  BY <1>2, <1>3, <1>5, ProposalsStill
<1>12. PromotedInHand'
  <2>1. SUFFICES ASSUME ~promotedAgain'
                 PROVE  promoted = ({thread'} \ {NoSlug}) \cup
                                      {desk'[u].page : u \in {o \in Writer : Promoter(o)'}}
    BY <1>2 DEF PromotedInHand
  <2>2. ~promotedAgain /\ thread = NoSlug
    BY <1>2, <2>1
  <2>3. promoted = {desk[u].page : u \in {o \in Writer : Promoter(o)}}
    BY <2>2 DEF WikiIInv, PromotedInHand
  <2>4. Promoter(w)
    BY <1>2 DEF Promoter, WikiIInv, DesksOK, Fitting
  <2>5. \A o \in Writer : Promoter(o)' <=> Promoter(o) /\ o # w
    BY <1>4, <1>5
  <2>6. {desk[u].page : u \in {o \in Writer : Promoter(o)}}
          = {desk'[u].page : u \in {o \in Writer : Promoter(o)'}} \cup {desk[w].page}
    BY <1>4, <2>4, <2>5
  <2>7. {thread'} \ {NoSlug} = {desk[w].page}
    BY <1>2, <1>7, KnowledgeAssumption
  <2>8. QED
    BY <2>3, <2>6, <2>7
<1>13. PublishedAsProposed'
  BY <1>2, <1>6, PublishedStill
<1>14. QED
  BY <1>8, <1>9, <1>10, <1>11, <1>12, <1>13 DEF WikiIInv

\* A handler dies after its first write.
LEMMA WriterGone ==
    ASSUME WikiIInv, NEW w \in Writer, WriterDies(w)
    PROVE  WikiIInv'
<1>1. KnowledgeTypeOK
  BY DEF WikiIInv
<1>2. /\ desk[w].at \in {"written", "recorded", "deciding"} /\ Concludes(w)
      /\ overtaken' = overtaken \cup {desk[w].page}
      /\ promotedAgain' = (promotedAgain \/ desk[w].op = "promote")
      /\ UNCHANGED <<page, revision, proposal, thread, promoted>>
  BY DEF WriterDies
<1>3. PICK k \in Work \cup {Idle} : Sets(w, k) /\ k = Idle /\ k.at = "idle"
  BY <1>2, Concluded
<1>4. desk' \in [Writer -> Work \cup {Idle}] /\ desk'[w] = k
  BY <1>1, <1>3, DeskByOne
<1>5. desk[w].page \in Slug
  BY <1>1, <1>2, DeskShape
<1>6. /\ overtaken' \in SUBSET Slug /\ overtaken \subseteq overtaken'
      /\ promotedAgain' \in BOOLEAN
  BY <1>1, <1>2, <1>5 DEF KnowledgeTypeOK
<1>7. /\ ~Promoter(w)' /\ (Promoter(w) => promotedAgain')
      /\ \A s \in Slug : (Pen(w, s) => s \in overtaken') /\ ~Pen(w, s)' /\ ~First(w, s)'
  BY <1>2, <1>3, <1>4 DEF Promoter, Pen, First
<1>8. \A q \in Proposal : ~Approver(w, q)' /\ (Approver(w, q) => proposal[q].page \in overtaken')
  BY <1>2, <1>3, <1>4, KnowledgeAssumption DEF Approver, WikiIInv, DesksOK, Fitting
<1>9. Standing
  BY <1>2 DEF Standing
<1>10. KnowledgeTypeOK' /\ PagesOK'
  BY <1>1, <1>2, <1>4, <1>6 DEF WikiIInv, KnowledgeTypeOK, PagesOK
<1>11. DesksOK'
  <2>1. Fitting(k)
    BY <1>3 DEF Fitting
  <2>2. Fitting(k)'
    BY <1>9, <2>1, FittingStill
  <2>3. QED
    BY <1>3, <1>9, <2>2, DesksKept
<1>12. PagesAccounted' /\ FirstOnce'
  BY <1>2, <1>3, <1>6, <1>7, PagesStill
<1>13. ProposalsSettled'
  BY <1>2, <1>3, <1>6, <1>8, ProposalsStill
<1>14. PromotedInHand'
  <2>1. promotedAgain => promotedAgain'
    BY <1>2
  <2>2. ~promotedAgain' => ~Promoter(w) /\ ~Promoter(w)'
    BY <1>7
  <2>3. QED
    BY <1>2, <1>3, <2>1, <2>2, PromotionStill
<1>15. PublishedAsProposed'
  BY <1>2, <1>9, PublishedStill
<1>16. QED
  BY <1>10, <1>11, <1>12, <1>13, <1>14, <1>15 DEF WikiIInv

\* A step of no handler: what it holds still fits.
LEMMA DesksStand ==
    ASSUME WikiIInv, UNCHANGED desk, Standing
    PROVE  DesksOK'
<1>1. SUFFICES ASSUME NEW o \in Writer PROVE Fitting(desk[o])'
  BY DEF DesksOK
<1>2. PICK k \in Work \cup {Idle} : k = desk[o]
  BY DEF WikiIInv, KnowledgeTypeOK
<1>3. Fitting(k)
  BY <1>2 DEF WikiIInv, DesksOK
<1>4. Fitting(k)'
  BY <1>3, FittingStill
<1>5. QED
  BY <1>2, <1>4 DEF Fitting

\* An edit is proposed.
LEMMA EditProposed ==
    ASSUME WikiIInv, NEW q \in Proposal, Propose(q)
    PROVE  WikiIInv'
<1>1. KnowledgeTypeOK
  BY DEF WikiIInv
<1>2. proposal[q] = Unmade /\ UNCHANGED <<page, revision, thread, promoted, desk, overtaken, promotedAgain>>
  BY DEF Propose
<1>3. PICK s \in Slug, t \in Text :
          /\ page[s].active
          /\ proposal' = [proposal EXCEPT ![q] =
                [status |-> "PENDING", page |-> s, base |-> page[s].version, text |-> t]]
  BY DEF Propose
<1>4. page[s].version \in Edition
  <2>1. page[s] # NoPage
    BY <1>3 DEF NoPage
  <2>2. QED
    BY <2>1 DEF WikiIInv, PagesOK
<1>5. PICK row : row = [status |-> "PENDING", page |-> s, base |-> page[s].version, text |-> t]
  OBVIOUS
<1>6. row \in ProposalRow /\ row.status = "PENDING" /\ row # Unmade
  BY <1>4, <1>5 DEF ProposalRow, Unmade
<1>7. /\ proposal' \in [Proposal -> ProposalRow \cup {Unmade}] /\ proposal'[q] = row
      /\ \A u \in Proposal \ {q} : proposal'[u] = proposal[u]
  BY <1>1, <1>3, <1>5, <1>6 DEF KnowledgeTypeOK
<1>8. Standing
  BY <1>2, <1>6, <1>7 DEF Standing
<1>9. KnowledgeTypeOK' /\ PagesOK'
  BY <1>1, <1>2, <1>7 DEF WikiIInv, KnowledgeTypeOK, PagesOK
<1>10. DesksOK'
  BY <1>2, <1>8, DesksStand
<1>11. PagesAccounted' /\ FirstOnce'
  BY <1>2 DEF WikiIInv, PagesAccounted, Accounted, Pen, FirstOnce, First, Recorded
<1>12. PublishedAsProposed'
  BY <1>2, <1>8, PublishedStill
<1>13. \A r \in revision : r.proposal # q
  <2>1. SUFFICES ASSUME NEW r \in revision, r.proposal = q PROVE FALSE
    OBVIOUS
  <2>2. r.page \in Slug
    BY <1>1 DEF KnowledgeTypeOK, RevisionRow
  <2>3. proposal[q].page = r.page
    BY <2>1, KnowledgeAssumption DEF WikiIInv, PublishedAsProposed
  <2>4. QED
    BY <1>2, <2>2, <2>3, KnowledgeAssumption DEF Unmade
<1>14. \A o \in Writer : ~Approver(o, q)
  BY <1>2, KnowledgeAssumption DEF Approver, WikiIInv, DesksOK, Fitting
<1>15. ProposalsSettled'
  <2>1. SUFFICES ASSUME NEW u \in Proposal, proposal'[u].page \in Slug \ overtaken
                 PROVE  Settled(u)'
    BY <1>2 DEF ProposalsSettled
  <2>2. \A o \in Writer : Approver(o, u)' <=> Approver(o, u)
    BY <1>2 DEF Approver
  <2>3. CASE u = q
    BY <1>2, <1>6, <1>7, <1>13, <1>14, <2>2, <2>3 DEF Settled
  <2>4. CASE u # q
    <3>1. proposal'[u] = proposal[u] /\ Settled(u)
      BY <1>7, <2>1, <2>4 DEF WikiIInv, ProposalsSettled
    <3>2. QED
      BY <1>2, <2>2, <3>1 DEF Settled
  <2>5. QED
    BY <2>3, <2>4
<1>16. PromotedInHand'
  BY <1>2 DEF WikiIInv, PromotedInHand, Promoter
<1>17. QED
  BY <1>9, <1>10, <1>11, <1>12, <1>15, <1>16 DEF WikiIInv

\* A page is archived, or brought back.
LEMMA PageSwitched ==
    ASSUME WikiIInv, NEW s \in Slug, SetActive(s)
    PROVE  WikiIInv'
<1>1. KnowledgeTypeOK
  BY DEF WikiIInv
<1>2. /\ page[s] # NoPage
      /\ UNCHANGED <<revision, proposal, thread, promoted, desk, overtaken, promotedAgain>>
  BY DEF SetActive, IsPage
<1>3. PICK row : row = [version |-> page[s].version, text |-> page[s].text, active |-> ~page[s].active]
  OBVIOUS
<1>4. page' = [page EXCEPT ![s] = row]
  BY <1>3 DEF SetActive
<1>5. page[s] \in PageRow /\ page[s].version \in Edition /\ page[s].text \in Text
  BY <1>1, <1>2 DEF KnowledgeTypeOK, WikiIInv, PagesOK
<1>6. row \in PageRow /\ row.version = page[s].version /\ row.text = page[s].text
  <2>1. (~page[s].active) \in BOOLEAN
    OBVIOUS
  <2>2. QED
    BY <1>3, <1>5, <2>1 DEF PageRow
<1>7. row # NoPage
  BY <1>5, <1>6, KnowledgeAssumption DEF NoPage
<1>8. /\ page' \in [Slug -> PageRow]
      /\ \A u \in Slug :
            /\ page'[u].version = page[u].version /\ page'[u].text = page[u].text
            /\ page'[u] # NoPage <=> page[u] # NoPage
  BY <1>1, <1>2, <1>4, <1>6, <1>7 DEF KnowledgeTypeOK
<1>9. Standing
  BY <1>2, <1>8 DEF Standing
<1>10. KnowledgeTypeOK'
  BY <1>1, <1>2, <1>8 DEF KnowledgeTypeOK
<1>11. PagesOK'
  <2>1. \A r \in revision : r.page \in Slug
    BY <1>1 DEF KnowledgeTypeOK, RevisionRow
  <2>2. QED
    BY <1>2, <1>8, <2>1 DEF WikiIInv, PagesOK
<1>12. DesksOK'
  BY <1>2, <1>9, DesksStand
<1>13. FirstOnce'
  BY <1>2 DEF WikiIInv, FirstOnce, First, Recorded
<1>14. PagesAccounted'
  <2>1. SUFFICES ASSUME NEW u \in Slug \ overtaken PROVE Accounted(u)'
    BY <1>2 DEF PagesAccounted
  <2>2. Accounted(u)
    BY DEF WikiIInv, PagesAccounted
  <2>3. /\ \A o \in Writer : Pen(o, u)' <=> Pen(o, u)
        /\ \A v : Recorded(u, v)' <=> Recorded(u, v)
    BY <1>2 DEF Pen, Recorded
  <2>4. QED
    BY <1>2, <1>8, <2>2, <2>3 DEF Accounted
<1>15. PublishedAsProposed'
  BY <1>2, <1>9, PublishedStill
<1>16. ProposalsSettled' /\ PromotedInHand'
  BY <1>2 DEF WikiIInv, ProposalsSettled, Settled, Approver, PromotedInHand, Promoter
<1>17. QED
  BY <1>10, <1>11, <1>12, <1>13, <1>14, <1>15, <1>16 DEF WikiIInv

\* The wiki is empty at first.
LEMMA WikiStarts == KnowledgeInit => WikiIInv
<1> SUFFICES ASSUME KnowledgeInit PROVE WikiIInv
  OBVIOUS
<1>1. KnowledgeTypeOK
  <2>1. NoPage \in PageRow
    <3>1. 0 \in 0 .. MaxEdition
      BY KnowledgeAssumption
    <3>2. QED
      BY <3>1 DEF NoPage, PageRow
  <2>2. page \in [Slug -> PageRow]
    BY <2>1 DEF KnowledgeInit
  <2>3. /\ revision \in SUBSET RevisionRow
        /\ promoted \in SUBSET Slug
        /\ overtaken \in SUBSET Slug
    BY DEF KnowledgeInit
  <2>4. /\ proposal \in [Proposal -> ProposalRow \cup {Unmade}]
        /\ desk \in [Writer -> Work \cup {Idle}]
    BY DEF KnowledgeInit
  <2>5. thread \in Slug \cup {NoSlug} /\ promotedAgain \in BOOLEAN
    BY DEF KnowledgeInit
  <2>6. QED
    BY <2>2, <2>3, <2>4, <2>5 DEF KnowledgeTypeOK
<1>2. /\ \A w \in Writer : desk[w] = Idle /\ desk[w].at = "idle"
      /\ \A s \in Slug : page[s] = NoPage /\ page[s].version = 0
      /\ revision = {} /\ promoted = {} /\ thread = NoSlug
      /\ \A q \in Proposal : proposal[q] = Unmade /\ proposal[q].page = NoSlug
  BY DEF KnowledgeInit, Idle, NoPage, Unmade
<1>3. PagesOK /\ PublishedAsProposed
  BY <1>2 DEF PagesOK, PublishedAsProposed
<1>4. DesksOK
  BY <1>2 DEF DesksOK, Fitting
<1>5. /\ FirstOnce
      /\ \A w \in Writer : ~Promoter(w) /\ \A s \in Slug : ~Pen(w, s)
  BY <1>2 DEF FirstOnce, First, Promoter, Pen
<1>6. PagesAccounted
  BY <1>2, <1>5 DEF PagesAccounted, Accounted, Recorded, Edition
<1>7. ProposalsSettled
  BY <1>2, KnowledgeAssumption DEF ProposalsSettled
<1>8. PromotedInHand
  BY <1>2, <1>5 DEF PromotedInHand
<1>9. QED
  BY <1>1, <1>3, <1>4, <1>5, <1>6, <1>7, <1>8 DEF WikiIInv

\* One step for each thing that a handler writes.
LEMMA WikiSteps == WikiIInv /\ [KnowledgeNext]_knowledgeVars => WikiIInv'
<1> SUFFICES ASSUME WikiIInv, [KnowledgeNext]_knowledgeVars PROVE WikiIInv'
  OBVIOUS
<1>1. CASE UNCHANGED knowledgeVars
  <2>1. UNCHANGED <<page, revision, proposal, thread, promoted, desk, overtaken, promotedAgain>>
    BY <1>1 DEF knowledgeVars
  <2>2. KnowledgeTypeOK' /\ PagesOK' /\ PublishedAsProposed'
    BY <2>1 DEF WikiIInv, KnowledgeTypeOK, PagesOK, PublishedAsProposed
  <2>3. DesksOK' /\ FirstOnce' /\ PagesAccounted'
    BY <2>1 DEF WikiIInv, DesksOK, Fitting, FirstOnce, First, PagesAccounted, Accounted, Pen, Recorded
  <2>4. ProposalsSettled' /\ PromotedInHand'
    BY <2>1 DEF WikiIInv, ProposalsSettled, Settled, Approver, PromotedInHand, Promoter
  <2>5. QED
    BY <2>2, <2>3, <2>4 DEF WikiIInv
<1>2. ASSUME NEW w \in Writer, Begin(w) PROVE WikiIInv'
  BY <1>2, HandlerBegins
<1>3. ASSUME NEW w \in Writer, CreatePage(w) PROVE WikiIInv'
  BY <1>3, PageTaken, PageCreated
<1>4. ASSUME NEW w \in Writer, WritePage(w) PROVE WikiIInv'
  BY <1>4, PageWritten
<1>5. ASSUME NEW w \in Writer, Decide(w) PROVE WikiIInv'
  BY <1>5, RequestDecided
<1>6. ASSUME NEW w \in Writer, AddRevision(w) PROVE WikiIInv'
  BY <1>6, RevisionRefused, RevisionAdded
<1>7. ASSUME NEW w \in Writer, LinkThread(w) PROVE WikiIInv'
  BY <1>7, ThreadLinked
<1>8. ASSUME NEW w \in Writer, WriterDies(w) PROVE WikiIInv'
  BY <1>8, WriterGone
<1>9. ASSUME NEW q \in Proposal, Propose(q) PROVE WikiIInv'
  BY <1>9, EditProposed
<1>10. ASSUME NEW s \in Slug, SetActive(s) PROVE WikiIInv'
  BY <1>10, PageSwitched
<1>11. QED
  BY <1>1, <1>2, <1>3, <1>4, <1>5, <1>6, <1>7, <1>8, <1>9, <1>10 DEF KnowledgeNext

\* The inductive invariant of the wiki holds in every state.
THEOREM WikiInvariance == KnowledgeSpec => []WikiIInv
  BY WikiStarts, WikiSteps, PTL DEF KnowledgeSpec

\* For any pages, proposals and handlers: the history of a page leads to it, what was
\* published for a request is what was proposed, and once, and a thread becomes one page
\* (createWikiPage, updateWikiPage, approveWikiEditRequest, promoteFaqThreadToWiki).
THEOREM WikiStandsWhole == KnowledgeSpec => []WikiIsWhole
<1>1. WikiIInv => WikiIsWhole
  <2> SUFFICES ASSUME WikiIInv PROVE WikiIsWhole
    OBVIOUS
  <2>1. KnowledgeTypeOK /\ PublishedAsProposed
    BY DEF WikiIInv
  <2>2. ASSUME NEW s \in Slug, AtRest(s)
        PROVE  s \in Slug \ overtaken /\ \A w \in Writer : ~Pen(w, s)
    <3>1. ASSUME NEW w \in Writer, Pen(w, s) PROVE FALSE
      <4>1. desk[w].at \in {"written", "deciding"} /\ desk[w].page = s
        BY <3>1 DEF Pen
      <4>2. desk[w] # Idle
        BY <2>1, <4>1, DeskShape
      <4>3. QED
        BY <2>2, <4>1, <4>2 DEF AtRest
    <3>2. QED
      BY <2>2, <3>1 DEF AtRest
  <2>3. HistoryLeadsHere
    BY <2>2 DEF HistoryLeadsHere, WikiIInv, PagesAccounted, Accounted
  <2>4. ApprovedArePublished
    <3>1. SUFFICES ASSUME NEW q \in Proposal, proposal[q] # Unmade, AtRest(proposal[q].page)
                   PROVE  proposal[q].status = "APPROVED" <=> \E r \in revision : r.proposal = q
      BY DEF ApprovedArePublished
    <3>2. proposal[q].page \in Slug
      BY <2>1, <3>1 DEF KnowledgeTypeOK, ProposalRow
    <3>3. \A w \in Writer : ~Approver(w, q)
      <4>1. ASSUME NEW w \in Writer, Approver(w, q) PROVE FALSE
        <5>1. desk[w].page = proposal[q].page
          BY <4>1, KnowledgeAssumption DEF Approver, WikiIInv, DesksOK, Fitting
        <5>2. Pen(w, proposal[q].page)
          BY <4>1, <5>1 DEF Approver, Pen
        <5>3. QED
          BY <2>2, <3>1, <3>2, <5>2
      <4>2. QED
        BY <4>1
    <3>4. Settled(q)
      BY <2>2, <3>1, <3>2 DEF WikiIInv, ProposalsSettled
    <3>5. QED
      BY <3>3, <3>4 DEF Settled
  <2>5. PromotedOnce
    <3>1. SUFFICES ASSUME ~promotedAgain, \A w \in Writer : desk[w] # Idle => desk[w].op # "promote"
                   PROVE  promoted = {thread} \ {NoSlug}
      BY DEF PromotedOnce
    <3>2. \A w \in Writer : ~Promoter(w)
      BY <2>1, <3>1, DeskShape DEF Promoter
    <3>3. QED
      BY <3>1, <3>2 DEF WikiIInv, PromotedInHand
  <2>6. QED
    BY <2>1, <2>3, <2>4, <2>5 DEF WikiIsWhole
<1>2. QED
  BY <1>1, WikiInvariance, PTL
=============================================================================
