--------------------- MODULE NotificationDeliveryProofs ---------------------
(***************************************************************************)
(* Theorems of NotificationDelivery for every set of jobs and workers and  *)
(* every bound: type correctness, one provider call per attempt, the       *)
(* refinement of DeliveryContract, confirmations of messages that did      *)
(* arrive, and one worker per job while a lease lasts.                     *)
(***************************************************************************)
EXTENDS NotificationDelivery, TLAPS

(***************************************************************************)
(* TypeOK, the two conjuncts about a worker's memory that it needs, and    *)
(* what makes the attempt number a fencing token: the worker that holds    *)
(* attempt n of a job is the only one, n is at most the row's counter, and *)
(* no call has been made under it until the worker makes it.               *)
(***************************************************************************)
CurOK ==
    \A w \in Worker :
        /\ pc[w] = "insert" => cur[w] \in Job
        /\ pc[w] \in InHand => /\ cur[w] \in Job
                               /\ claimNo[w] \in 1..job[cur[w]].attempts

SnapshotsOK ==
    \A w \in Worker : \A s \in batch[w] :
        /\ s.attempts < MaxAttempts
        /\ s.status \in {"PENDING", "FAILED", "PROCESSING"}

OneHolder ==
    \A v, w \in Worker :
        /\ v # w
        /\ pc[v] \in InHand /\ pc[w] \in InHand
        /\ cur[v] = cur[w]
        => claimNo[v] # claimNo[w]

CallsOK ==
    /\ \A j \in Job, n \in Attempt :
         /\ calls[j][n] <= 1
         /\ n > job[j].attempts => calls[j][n] = 0
    /\ \A w \in Worker : pc[w] = "claimed" => calls[cur[w]][claimNo[w]] = 0

\* A call accepted was one of the attempts made.
AcceptedOK == \A m \in accepted : m.n <= job[m.job].attempts

\* The inductive invariant.
IInv == TypeOK /\ CurOK /\ SnapshotsOK /\ OneHolder /\ CallsOK /\ AcceptedOK

\* The back-off of nextRetryDate is a number of ticks.
LEMMA BackoffType == \A n \in Nat : Backoff(n) \in Nat
  BY DeliveryAssumption DEF Backoff

\* A countdown stays in its range.
LEMMA DownType ==
    /\ \A t \in 0..Lease : Down(t) \in 0..Lease
    /\ \A t \in Nat : Down(t) \in Nat
  BY DeliveryAssumption DEF Down

\* Changing only the status of a row leaves a row.
LEMMA StatusType ==
    ASSUME NEW r \in Row, NEW st \in Status
    PROVE  [r EXCEPT !.status = st] \in Row
  BY DEF Row

\* The initial state satisfies the strengthened invariant.
LEMMA InitIInv == Init => IInv
  BY DeliveryAssumption
  DEF Init, IInv, TypeOK, CurOK, SnapshotsOK, OneHolder, CallsOK, AcceptedOK,
      Row, NoRow, Status, Attempt, Snapshot, Event, InHand

-----------------------------------------------------------------------------
\* A finish with a well-typed row keeps every variable in its type.
LEMMA FinishType ==
    ASSUME TypeOK, NEW w \in Worker, cur[w] \in Job, NEW row \in Row, Finish(w, row)
    PROVE  TypeOK'
  <1>1. job' \in [Job -> Row]
    BY DEF Finish, TypeOK
  <1>2. QED
    BY <1>1, DeliveryAssumption DEF Finish, TypeOK, world

\* Every step keeps every variable in its type.
LEMMA TypeStep == IInv /\ [Next]_vars => TypeOK'
<1> SUFFICES ASSUME IInv, [Next]_vars PROVE TypeOK'
  OBVIOUS
<1> USE DeliveryAssumption DEF IInv, TypeOK, vars, workers, world, rows
<1>1. ASSUME NEW w \in Worker, StartRun(w) PROVE TypeOK'
  BY <1>1 DEF StartRun, Start
<1>2. ASSUME NEW w \in Worker, StartRequest(w) PROVE TypeOK'
  <2>1. ASSUME NEW keys \in SUBSET Job, NEW from \in SUBSET Job, Start(w, keys, from)
        PROVE TypeOK'
    BY <2>1 DEF Start
  <2>2. CASE Start(w, Job, {})
    BY <2>1, <2>2
  <2>3. CASE Start(w, {}, Job)
    BY <2>1, <2>3
  <2>4. ASSUME NEW j \in Job, Start(w, {j}, {}) PROVE TypeOK'
    <3>1. {j} \in SUBSET Job /\ {} \in SUBSET Job
      OBVIOUS
    <3>2. QED
      BY <2>1, <2>4, <3>1
  <2>5. QED
    BY <1>2, <2>2, <2>3, <2>4 DEF StartRequest
<1>3. ASSUME NEW w \in Worker, NEW j \in Job, LookUp(w, j) PROVE TypeOK'
  BY <1>3 DEF LookUp
<1>4. ASSUME NEW w \in Worker, Insert(w) PROVE TypeOK'
  <2>1. cur[w] \in Job
    BY <1>4 DEF Insert, CurOK
  <2>2. [job[cur[w]] EXCEPT !.status = "PENDING"] \in Row
    BY <2>1, StatusType DEF Status
  <2>3. job' \in [Job -> Row]
    BY <1>4, <2>1, <2>2 DEF Insert
  <2>4. QED
    BY <1>4, <2>1, <2>3 DEF Insert
<1>5. ASSUME NEW w \in Worker, InsertRefused(w) PROVE TypeOK'
  BY <1>5 DEF InsertRefused, Reset
<1>6. ASSUME NEW w \in Worker, EndScan(w) PROVE TypeOK'
  BY <1>6 DEF EndScan, Reset
<1>7. ASSUME NEW w \in Worker, Select(w) PROVE TypeOK'
  <2>1. \A j \in Job : SnapshotOf(j) \in Snapshot
    BY DEF SnapshotOf, Snapshot, Row
  <2>2. batch' \in [Worker -> SUBSET Snapshot]
    BY <1>7, <2>1 DEF Select
  <2>3. QED
    BY <1>7, <2>2 DEF Select
<1>8. ASSUME NEW w \in Worker, EndRun(w) PROVE TypeOK'
  BY <1>8 DEF EndRun, Reset
<1>9. ASSUME NEW w \in Worker, Claim(w) PROVE TypeOK'
  <2>1. PICK s \in batch[w] :
          /\ StillAsSelected(s)
          /\ batch' = [batch EXCEPT ![w] = @ \ {s}]
          /\ job' = [job EXCEPT ![s.job] =
                       [status |-> "PROCESSING", attempts |-> @.attempts + 1,
                        claim |-> s.attempts + 1, lease |-> Lease,
                        retry |-> 0, msg |-> @.msg]]
          /\ cur' = [cur EXCEPT ![w] = s.job]
          /\ claimNo' = [claimNo EXCEPT ![w] = s.attempts + 1]
    BY <1>9 DEF Claim
  <2>2. s.job \in Job /\ s.attempts + 1 \in 0..MaxAttempts
    BY <2>1 DEF Snapshot, SnapshotsOK
  <2>3. job[s.job] \in Row /\ job[s.job].attempts = s.attempts
    BY <2>1, <2>2 DEF StillAsSelected
  <2>4. [status |-> "PROCESSING", attempts |-> job[s.job].attempts + 1,
         claim |-> s.attempts + 1, lease |-> Lease,
         retry |-> 0, msg |-> job[s.job].msg] \in Row
    BY <2>2, <2>3 DEF Row, Status
  <2>5. job' \in [Job -> Row]
    BY <2>1, <2>2, <2>4
  <2>6. cur' \in [Worker -> Job \cup {NoJob}] /\ claimNo' \in [Worker -> 0..MaxAttempts]
    BY <2>1, <2>2
  <2>7. batch' \in [Worker -> SUBSET Snapshot]
    BY <2>1
  <2>8. QED
    BY <1>9, <2>5, <2>6, <2>7 DEF Claim
<1>10. ASSUME NEW w \in Worker, ClaimLost(w) PROVE TypeOK'
  BY <1>10 DEF ClaimLost
<1>11. ASSUME NEW w \in Worker, ConfigurationError(w) PROVE TypeOK'
  <2>1. Unclaimed("FAILED", MaxAttempts, 0, job[cur[w]].msg) \in Row
    BY <1>11 DEF ConfigurationError, CurOK, InHand, Row, Status, Unclaimed
  <2>2. QED
    BY <1>11, <2>1, FinishType DEF ConfigurationError, CurOK, InHand
<1>12. ASSUME NEW w \in Worker, BadPayload(w) PROVE TypeOK'
  BY <1>12 DEF BadPayload
<1>13. ASSUME NEW w \in Worker, CallProvider(w) PROVE TypeOK'
  <2>1. cur[w] \in Job /\ claimNo[w] \in Attempt
    BY <1>13 DEF CallProvider, CurOK, InHand, Attempt, Row
  <2>2. calls' \in [Job -> [Attempt -> Nat]]
    BY <1>13, <2>1 DEF CallProvider
  <2>3. QED
    BY <1>13, <2>2 DEF CallProvider
<1>14. ASSUME NEW w \in Worker, NEW fate \in Fate, NEW heard \in BOOLEAN,
              Accept(w, fate, heard)
       PROVE TypeOK'
  <2>1. cur[w] \in Job /\ claimNo[w] \in Attempt
    BY <1>14 DEF Accept, CurOK, InHand, Attempt, Row
  <2>2. QED
    BY <1>14, <2>1 DEF Accept
<1>15. ASSUME NEW w \in Worker, Refuse(w) PROVE TypeOK'
  BY <1>15 DEF Refuse
<1>16. ASSUME NEW w \in Worker, RecordSent(w) PROVE TypeOK'
  <2>1. Unclaimed("SENT", job[cur[w]].attempts, 0, claimNo[w]) \in Row
    BY <1>16 DEF RecordSent, CurOK, InHand, Row, Status, Unclaimed
  <2>2. QED
    BY <1>16, <2>1, FinishType DEF RecordSent, CurOK, InHand
<1>17. ASSUME NEW w \in Worker, RecordFailed(w) PROVE TypeOK'
  <2>1. Backoff(claimNo[w]) \in Nat
    BY BackoffType
  <2>2. Unclaimed("FAILED", job[cur[w]].attempts,
                  IF claimNo[w] >= MaxAttempts THEN 0 ELSE Backoff(claimNo[w]),
                  job[cur[w]].msg) \in Row
    BY <1>17, <2>1 DEF RecordFailed, CurOK, InHand, Row, Status, Unclaimed
  <2>3. QED
    BY <1>17, <2>2, FinishType DEF RecordFailed, CurOK, InHand
<1>18. ASSUME NEW w \in Worker, Crash(w) PROVE TypeOK'
  BY <1>18 DEF Crash, Reset
<1>19. ASSUME NEW e \in Event, HandleWebhook(e) PROVE TypeOK'
  <2>1. e.job \in Job /\ e.status \in Status
    BY DEF Event, Reports, Status
  <2>2. [job[e.job] EXCEPT !.status = e.status] \in Row
    BY <2>1, StatusType
  <2>3. QED
    BY <1>19, <2>1, <2>2 DEF HandleWebhook
<1>20. ASSUME Tick PROVE TypeOK'
  <2>1. \A j \in Job :
          [status |-> job[j].status, attempts |-> job[j].attempts,
           claim |-> job[j].claim, lease |-> Down(job[j].lease),
           retry |-> Down(job[j].retry), msg |-> job[j].msg] \in Row
    BY DownType DEF Row
  <2>2. \A w \in Worker : Down(left[w]) \in 0..Lease
    BY DownType
  <2>3. QED
    BY <1>20, <2>1, <2>2 DEF Tick
<1>21. CASE UNCHANGED vars
  BY <1>21
<1>22. QED
  BY <1>1, <1>2, <1>3, <1>4, <1>5, <1>6, <1>7, <1>8, <1>9, <1>10, <1>11, <1>12,
     <1>13, <1>14, <1>15, <1>16, <1>17, <1>18, <1>19, <1>20, <1>21
  DEF Next, Scan, Process

\* The attempt counter of a row never goes down.
LEMMA AttemptsStep == IInv /\ [Next]_vars => \A j \in Job : job'[j].attempts >= job[j].attempts
<1> SUFFICES ASSUME IInv, [Next]_vars PROVE \A j \in Job : job'[j].attempts >= job[j].attempts
  OBVIOUS
<1> USE DeliveryAssumption DEF IInv, TypeOK, vars, workers, world, rows
<1>1. ASSUME NEW w \in Worker, StartRun(w) PROVE \A j \in Job : job'[j].attempts >= job[j].attempts
  BY <1>1 DEF StartRun, Start, Row
<1>2. ASSUME NEW w \in Worker, StartRequest(w) PROVE \A j \in Job : job'[j].attempts >= job[j].attempts
  BY <1>2 DEF StartRequest, Start, Row
<1>3. ASSUME NEW w \in Worker, NEW k \in Job, LookUp(w, k) PROVE \A j \in Job : job'[j].attempts >= job[j].attempts
  BY <1>3 DEF LookUp, Row
<1>4. ASSUME NEW w \in Worker, Insert(w) PROVE \A j \in Job : job'[j].attempts >= job[j].attempts
  BY <1>4 DEF Insert, Row
<1>5. ASSUME NEW w \in Worker, InsertRefused(w) PROVE \A j \in Job : job'[j].attempts >= job[j].attempts
  BY <1>5 DEF InsertRefused, Reset, Row
<1>6. ASSUME NEW w \in Worker, EndScan(w) PROVE \A j \in Job : job'[j].attempts >= job[j].attempts
  BY <1>6 DEF EndScan, Reset, Row
<1>7. ASSUME NEW w \in Worker, Select(w) PROVE \A j \in Job : job'[j].attempts >= job[j].attempts
  BY <1>7 DEF Select, Row
<1>8. ASSUME NEW w \in Worker, EndRun(w) PROVE \A j \in Job : job'[j].attempts >= job[j].attempts
  BY <1>8 DEF EndRun, Reset, Row
<1>9. ASSUME NEW w \in Worker, Claim(w) PROVE \A j \in Job : job'[j].attempts >= job[j].attempts
  BY <1>9 DEF Claim, Row
<1>10. ASSUME NEW w \in Worker, ClaimLost(w) PROVE \A j \in Job : job'[j].attempts >= job[j].attempts
  BY <1>10 DEF ClaimLost, Row
<1>11. ASSUME NEW w \in Worker, ConfigurationError(w) PROVE \A j \in Job : job'[j].attempts >= job[j].attempts
  BY <1>11 DEF ConfigurationError, Finish, Unclaimed, Row
<1>12. ASSUME NEW w \in Worker, BadPayload(w) PROVE \A j \in Job : job'[j].attempts >= job[j].attempts
  BY <1>12 DEF BadPayload, Row
<1>13. ASSUME NEW w \in Worker, CallProvider(w) PROVE \A j \in Job : job'[j].attempts >= job[j].attempts
  BY <1>13 DEF CallProvider, Row
<1>14. ASSUME NEW w \in Worker, NEW fate \in Fate, NEW heard \in BOOLEAN, Accept(w, fate, heard) PROVE \A j \in Job : job'[j].attempts >= job[j].attempts
  BY <1>14 DEF Accept, Row
<1>15. ASSUME NEW w \in Worker, Refuse(w) PROVE \A j \in Job : job'[j].attempts >= job[j].attempts
  BY <1>15 DEF Refuse, Row
<1>16. ASSUME NEW w \in Worker, RecordSent(w) PROVE \A j \in Job : job'[j].attempts >= job[j].attempts
  BY <1>16 DEF RecordSent, Finish, Unclaimed, Row
<1>17. ASSUME NEW w \in Worker, RecordFailed(w) PROVE \A j \in Job : job'[j].attempts >= job[j].attempts
  BY <1>17 DEF RecordFailed, Finish, Unclaimed, Row
<1>18. ASSUME NEW w \in Worker, Crash(w) PROVE \A j \in Job : job'[j].attempts >= job[j].attempts
  BY <1>18 DEF Crash, Reset, Row
<1>19. ASSUME NEW e \in Event, HandleWebhook(e) PROVE \A j \in Job : job'[j].attempts >= job[j].attempts
  BY <1>19 DEF HandleWebhook, Row
<1>20. ASSUME Tick PROVE \A j \in Job : job'[j].attempts >= job[j].attempts
  BY <1>20 DEF Tick, Down, Row
<1>21. CASE UNCHANGED vars
  BY <1>21 DEF Row
<1>22. QED
  BY <1>1, <1>2, <1>3, <1>4, <1>5, <1>6, <1>7, <1>8, <1>9, <1>10, <1>11, <1>12, <1>13, <1>14, <1>15, <1>16, <1>17, <1>18, <1>19, <1>20, <1>21
  DEF Next, Scan, Process

\* A worker with a claim in hand holds an attempt the row has already counted.
LEMMA CurStep == IInv /\ [Next]_vars => CurOK'
<1> SUFFICES ASSUME IInv, [Next]_vars PROVE CurOK'
  OBVIOUS
<1> USE DeliveryAssumption DEF IInv, TypeOK, vars, workers, world, rows
<1>1. ASSUME NEW w \in Worker, StartRun(w) PROVE CurOK'
  BY <1>1 DEF StartRun, Start, CurOK, SnapshotsOK, Snapshot, StillAsSelected, InHand, Row
<1>2. ASSUME NEW w \in Worker, StartRequest(w) PROVE CurOK'
  BY <1>2 DEF StartRequest, Start, CurOK, SnapshotsOK, Snapshot, StillAsSelected, InHand, Row
<1>3. ASSUME NEW w \in Worker, NEW k \in Job, LookUp(w, k) PROVE CurOK'
  BY <1>3 DEF LookUp, CurOK, SnapshotsOK, Snapshot, StillAsSelected, InHand, Row
<1>4. ASSUME NEW w \in Worker, Insert(w) PROVE CurOK'
  BY <1>4 DEF Insert, CurOK, SnapshotsOK, Snapshot, StillAsSelected, InHand, Row
<1>5. ASSUME NEW w \in Worker, InsertRefused(w) PROVE CurOK'
  BY <1>5 DEF InsertRefused, Reset, CurOK, SnapshotsOK, Snapshot, StillAsSelected, InHand, Row
<1>6. ASSUME NEW w \in Worker, EndScan(w) PROVE CurOK'
  BY <1>6 DEF EndScan, Reset, CurOK, SnapshotsOK, Snapshot, StillAsSelected, InHand, Row
<1>7. ASSUME NEW w \in Worker, Select(w) PROVE CurOK'
  BY <1>7 DEF Select, CurOK, SnapshotsOK, Snapshot, StillAsSelected, InHand, Row
<1>8. ASSUME NEW w \in Worker, EndRun(w) PROVE CurOK'
  BY <1>8 DEF EndRun, Reset, CurOK, SnapshotsOK, Snapshot, StillAsSelected, InHand, Row
<1>9. ASSUME NEW w \in Worker, Claim(w) PROVE CurOK'
  BY <1>9 DEF Claim, CurOK, SnapshotsOK, Snapshot, StillAsSelected, InHand, Row
<1>10. ASSUME NEW w \in Worker, ClaimLost(w) PROVE CurOK'
  BY <1>10 DEF ClaimLost, CurOK, SnapshotsOK, Snapshot, StillAsSelected, InHand, Row
<1>11. ASSUME NEW w \in Worker, ConfigurationError(w) PROVE CurOK'
  BY <1>11 DEF ConfigurationError, Finish, Unclaimed, CurOK, SnapshotsOK, Snapshot, StillAsSelected, InHand, Row
<1>12. ASSUME NEW w \in Worker, BadPayload(w) PROVE CurOK'
  BY <1>12 DEF BadPayload, CurOK, SnapshotsOK, Snapshot, StillAsSelected, InHand, Row
<1>13. ASSUME NEW w \in Worker, CallProvider(w) PROVE CurOK'
  BY <1>13 DEF CallProvider, CurOK, SnapshotsOK, Snapshot, StillAsSelected, InHand, Row
<1>14. ASSUME NEW w \in Worker, NEW fate \in Fate, NEW heard \in BOOLEAN, Accept(w, fate, heard) PROVE CurOK'
  BY <1>14 DEF Accept, CurOK, SnapshotsOK, Snapshot, StillAsSelected, InHand, Row
<1>15. ASSUME NEW w \in Worker, Refuse(w) PROVE CurOK'
  BY <1>15 DEF Refuse, CurOK, SnapshotsOK, Snapshot, StillAsSelected, InHand, Row
<1>16. ASSUME NEW w \in Worker, RecordSent(w) PROVE CurOK'
  BY <1>16 DEF RecordSent, Finish, Unclaimed, CurOK, SnapshotsOK, Snapshot, StillAsSelected, InHand, Row
<1>17. ASSUME NEW w \in Worker, RecordFailed(w) PROVE CurOK'
  BY <1>17 DEF RecordFailed, Finish, Unclaimed, CurOK, SnapshotsOK, Snapshot, StillAsSelected, InHand, Row
<1>18. ASSUME NEW w \in Worker, Crash(w) PROVE CurOK'
  BY <1>18 DEF Crash, Reset, CurOK, SnapshotsOK, Snapshot, StillAsSelected, InHand, Row
<1>19. ASSUME NEW e \in Event, HandleWebhook(e) PROVE CurOK'
  BY <1>19 DEF HandleWebhook, CurOK, SnapshotsOK, Snapshot, StillAsSelected, InHand, Row
<1>20. ASSUME Tick PROVE CurOK'
  BY <1>20 DEF Tick, Down, CurOK, SnapshotsOK, Snapshot, StillAsSelected, InHand, Row
<1>21. CASE UNCHANGED vars
  BY <1>21 DEF CurOK, SnapshotsOK, Snapshot, StillAsSelected, InHand, Row
<1>22. QED
  BY <1>1, <1>2, <1>3, <1>4, <1>5, <1>6, <1>7, <1>8, <1>9, <1>10, <1>11, <1>12, <1>13, <1>14, <1>15, <1>16, <1>17, <1>18, <1>19, <1>20, <1>21
  DEF Next, Scan, Process

\* A batch holds only rows that were eligible when they were read.
LEMMA SnapshotsStep == IInv /\ [Next]_vars => SnapshotsOK'
<1> SUFFICES ASSUME IInv, [Next]_vars PROVE SnapshotsOK'
  OBVIOUS
<1> USE DeliveryAssumption DEF IInv, TypeOK, vars, workers, world, rows
<1>1. ASSUME NEW w \in Worker, StartRun(w) PROVE SnapshotsOK'
  BY <1>1 DEF StartRun, Start, SnapshotsOK, SnapshotOf, Eligible, Row
<1>2. ASSUME NEW w \in Worker, StartRequest(w) PROVE SnapshotsOK'
  BY <1>2 DEF StartRequest, Start, SnapshotsOK, SnapshotOf, Eligible, Row
<1>3. ASSUME NEW w \in Worker, NEW k \in Job, LookUp(w, k) PROVE SnapshotsOK'
  BY <1>3 DEF LookUp, SnapshotsOK, SnapshotOf, Eligible, Row
<1>4. ASSUME NEW w \in Worker, Insert(w) PROVE SnapshotsOK'
  BY <1>4 DEF Insert, SnapshotsOK, SnapshotOf, Eligible, Row
<1>5. ASSUME NEW w \in Worker, InsertRefused(w) PROVE SnapshotsOK'
  BY <1>5 DEF InsertRefused, Reset, SnapshotsOK, SnapshotOf, Eligible, Row
<1>6. ASSUME NEW w \in Worker, EndScan(w) PROVE SnapshotsOK'
  BY <1>6 DEF EndScan, Reset, SnapshotsOK, SnapshotOf, Eligible, Row
<1>7. ASSUME NEW w \in Worker, Select(w) PROVE SnapshotsOK'
  BY <1>7 DEF Select, SnapshotsOK, SnapshotOf, Eligible, Row
<1>8. ASSUME NEW w \in Worker, EndRun(w) PROVE SnapshotsOK'
  BY <1>8 DEF EndRun, Reset, SnapshotsOK, SnapshotOf, Eligible, Row
<1>9. ASSUME NEW w \in Worker, Claim(w) PROVE SnapshotsOK'
  BY <1>9 DEF Claim, SnapshotsOK, SnapshotOf, Eligible, Row
<1>10. ASSUME NEW w \in Worker, ClaimLost(w) PROVE SnapshotsOK'
  BY <1>10 DEF ClaimLost, SnapshotsOK, SnapshotOf, Eligible, Row
<1>11. ASSUME NEW w \in Worker, ConfigurationError(w) PROVE SnapshotsOK'
  BY <1>11 DEF ConfigurationError, Finish, Unclaimed, SnapshotsOK, SnapshotOf, Eligible, Row
<1>12. ASSUME NEW w \in Worker, BadPayload(w) PROVE SnapshotsOK'
  BY <1>12 DEF BadPayload, SnapshotsOK, SnapshotOf, Eligible, Row
<1>13. ASSUME NEW w \in Worker, CallProvider(w) PROVE SnapshotsOK'
  BY <1>13 DEF CallProvider, SnapshotsOK, SnapshotOf, Eligible, Row
<1>14. ASSUME NEW w \in Worker, NEW fate \in Fate, NEW heard \in BOOLEAN, Accept(w, fate, heard) PROVE SnapshotsOK'
  BY <1>14 DEF Accept, SnapshotsOK, SnapshotOf, Eligible, Row
<1>15. ASSUME NEW w \in Worker, Refuse(w) PROVE SnapshotsOK'
  BY <1>15 DEF Refuse, SnapshotsOK, SnapshotOf, Eligible, Row
<1>16. ASSUME NEW w \in Worker, RecordSent(w) PROVE SnapshotsOK'
  BY <1>16 DEF RecordSent, Finish, Unclaimed, SnapshotsOK, SnapshotOf, Eligible, Row
<1>17. ASSUME NEW w \in Worker, RecordFailed(w) PROVE SnapshotsOK'
  BY <1>17 DEF RecordFailed, Finish, Unclaimed, SnapshotsOK, SnapshotOf, Eligible, Row
<1>18. ASSUME NEW w \in Worker, Crash(w) PROVE SnapshotsOK'
  BY <1>18 DEF Crash, Reset, SnapshotsOK, SnapshotOf, Eligible, Row
<1>19. ASSUME NEW e \in Event, HandleWebhook(e) PROVE SnapshotsOK'
  BY <1>19 DEF HandleWebhook, SnapshotsOK, SnapshotOf, Eligible, Row
<1>20. ASSUME Tick PROVE SnapshotsOK'
  BY <1>20 DEF Tick, Down, SnapshotsOK, SnapshotOf, Eligible, Row
<1>21. CASE UNCHANGED vars
  BY <1>21 DEF SnapshotsOK, SnapshotOf, Eligible, Row
<1>22. QED
  BY <1>1, <1>2, <1>3, <1>4, <1>5, <1>6, <1>7, <1>8, <1>9, <1>10, <1>11, <1>12, <1>13, <1>14, <1>15, <1>16, <1>17, <1>18, <1>19, <1>20, <1>21
  DEF Next, Scan, Process

\* Two workers never hold the same attempt of a job.
LEMMA HolderStep == IInv /\ [Next]_vars => OneHolder'
<1> SUFFICES ASSUME IInv, [Next]_vars PROVE OneHolder'
  OBVIOUS
<1> USE DeliveryAssumption DEF IInv, TypeOK, vars, workers, world, rows
<1>1. ASSUME NEW w \in Worker, StartRun(w) PROVE OneHolder'
  BY <1>1 DEF StartRun, Start, OneHolder, CurOK, SnapshotsOK, Snapshot, StillAsSelected, InHand
<1>2. ASSUME NEW w \in Worker, StartRequest(w) PROVE OneHolder'
  BY <1>2 DEF StartRequest, Start, OneHolder, CurOK, SnapshotsOK, Snapshot, StillAsSelected, InHand
<1>3. ASSUME NEW w \in Worker, NEW k \in Job, LookUp(w, k) PROVE OneHolder'
  BY <1>3 DEF LookUp, OneHolder, CurOK, SnapshotsOK, Snapshot, StillAsSelected, InHand
<1>4. ASSUME NEW w \in Worker, Insert(w) PROVE OneHolder'
  BY <1>4 DEF Insert, OneHolder, CurOK, SnapshotsOK, Snapshot, StillAsSelected, InHand
<1>5. ASSUME NEW w \in Worker, InsertRefused(w) PROVE OneHolder'
  BY <1>5 DEF InsertRefused, Reset, OneHolder, CurOK, SnapshotsOK, Snapshot, StillAsSelected, InHand
<1>6. ASSUME NEW w \in Worker, EndScan(w) PROVE OneHolder'
  BY <1>6 DEF EndScan, Reset, OneHolder, CurOK, SnapshotsOK, Snapshot, StillAsSelected, InHand
<1>7. ASSUME NEW w \in Worker, Select(w) PROVE OneHolder'
  BY <1>7 DEF Select, OneHolder, CurOK, SnapshotsOK, Snapshot, StillAsSelected, InHand
<1>8. ASSUME NEW w \in Worker, EndRun(w) PROVE OneHolder'
  BY <1>8 DEF EndRun, Reset, OneHolder, CurOK, SnapshotsOK, Snapshot, StillAsSelected, InHand
<1>9. ASSUME NEW w \in Worker, Claim(w) PROVE OneHolder'
  BY <1>9 DEF Claim, OneHolder, CurOK, SnapshotsOK, Snapshot, StillAsSelected, InHand
<1>10. ASSUME NEW w \in Worker, ClaimLost(w) PROVE OneHolder'
  BY <1>10 DEF ClaimLost, OneHolder, CurOK, SnapshotsOK, Snapshot, StillAsSelected, InHand
<1>11. ASSUME NEW w \in Worker, ConfigurationError(w) PROVE OneHolder'
  BY <1>11 DEF ConfigurationError, Finish, Unclaimed, OneHolder, CurOK, SnapshotsOK, Snapshot, StillAsSelected, InHand
<1>12. ASSUME NEW w \in Worker, BadPayload(w) PROVE OneHolder'
  BY <1>12 DEF BadPayload, OneHolder, CurOK, SnapshotsOK, Snapshot, StillAsSelected, InHand
<1>13. ASSUME NEW w \in Worker, CallProvider(w) PROVE OneHolder'
  BY <1>13 DEF CallProvider, OneHolder, CurOK, SnapshotsOK, Snapshot, StillAsSelected, InHand
<1>14. ASSUME NEW w \in Worker, NEW fate \in Fate, NEW heard \in BOOLEAN, Accept(w, fate, heard) PROVE OneHolder'
  BY <1>14 DEF Accept, OneHolder, CurOK, SnapshotsOK, Snapshot, StillAsSelected, InHand
<1>15. ASSUME NEW w \in Worker, Refuse(w) PROVE OneHolder'
  BY <1>15 DEF Refuse, OneHolder, CurOK, SnapshotsOK, Snapshot, StillAsSelected, InHand
<1>16. ASSUME NEW w \in Worker, RecordSent(w) PROVE OneHolder'
  BY <1>16 DEF RecordSent, Finish, Unclaimed, OneHolder, CurOK, SnapshotsOK, Snapshot, StillAsSelected, InHand
<1>17. ASSUME NEW w \in Worker, RecordFailed(w) PROVE OneHolder'
  BY <1>17 DEF RecordFailed, Finish, Unclaimed, OneHolder, CurOK, SnapshotsOK, Snapshot, StillAsSelected, InHand
<1>18. ASSUME NEW w \in Worker, Crash(w) PROVE OneHolder'
  BY <1>18 DEF Crash, Reset, OneHolder, CurOK, SnapshotsOK, Snapshot, StillAsSelected, InHand
<1>19. ASSUME NEW e \in Event, HandleWebhook(e) PROVE OneHolder'
  BY <1>19 DEF HandleWebhook, OneHolder, CurOK, SnapshotsOK, Snapshot, StillAsSelected, InHand
<1>20. ASSUME Tick PROVE OneHolder'
  BY <1>20 DEF Tick, Down, OneHolder, CurOK, SnapshotsOK, Snapshot, StillAsSelected, InHand
<1>21. CASE UNCHANGED vars
  BY <1>21 DEF OneHolder, CurOK, SnapshotsOK, Snapshot, StillAsSelected, InHand
<1>22. QED
  BY <1>1, <1>2, <1>3, <1>4, <1>5, <1>6, <1>7, <1>8, <1>9, <1>10, <1>11, <1>12, <1>13, <1>14, <1>15, <1>16, <1>17, <1>18, <1>19, <1>20, <1>21
  DEF Next, Scan, Process

\* At most one call is made under an attempt, none before its claim.
LEMMA CallsStep == IInv /\ [Next]_vars => CallsOK'
<1> SUFFICES ASSUME IInv, [Next]_vars PROVE CallsOK'
  OBVIOUS
<1> USE DeliveryAssumption DEF IInv, TypeOK, vars, workers, world, rows
<1>0. \A j \in Job : /\ job[j].attempts \in Nat
                     /\ job'[j].attempts \in Nat
                     /\ job'[j].attempts >= job[j].attempts
  BY AttemptsStep, TypeStep DEF Row
<1>a. ASSUME NEW j \in Job, NEW n \in Attempt
      PROVE  calls[j][n] <= 1 /\ (n > job'[j].attempts => calls[j][n] = 0)
  <2>1. n \in Nat
    BY DEF Attempt
  <2>2. n > job'[j].attempts => n > job[j].attempts
    BY <1>0, <2>1
  <2>3. QED
    BY <2>2 DEF CallsOK
\* Without a call and without a worker that newly holds a claim, nothing to show.
<1>1. ASSUME UNCHANGED calls,
             \A w \in Worker : pc'[w] = "claimed" =>
                pc[w] = "claimed" /\ cur'[w] = cur[w] /\ claimNo'[w] = claimNo[w]
      PROVE  CallsOK'
  BY <1>a, <1>1 DEF CallsOK
<1>2. ASSUME NEW w \in Worker, Claim(w) PROVE CallsOK'
  <2>1. PICK s \in batch[w] :
          /\ StillAsSelected(s)
          /\ cur' = [cur EXCEPT ![w] = s.job]
          /\ claimNo' = [claimNo EXCEPT ![w] = s.attempts + 1]
    BY <1>2 DEF Claim
  <2>2. s.job \in Job /\ s.attempts + 1 \in Attempt /\ s.attempts = job[s.job].attempts
    BY <2>1 DEF Snapshot, SnapshotsOK, StillAsSelected, Attempt
  <2>3. calls[s.job][s.attempts + 1] = 0
    BY <1>0, <2>2 DEF CallsOK
  <2>4. /\ UNCHANGED calls
        /\ pc' = [pc EXCEPT ![w] = "claimed"]
    BY <1>2 DEF Claim
  <2>5. \A j \in Job, n \in Attempt :
          calls'[j][n] <= 1 /\ (n > job'[j].attempts => calls'[j][n] = 0)
    BY <1>a, <2>4
  <2>6. \A v \in Worker : pc'[v] = "claimed" => calls'[cur'[v]][claimNo'[v]] = 0
    BY <2>1, <2>3, <2>4 DEF CallsOK
  <2>7. QED
    BY <2>5, <2>6 DEF CallsOK
<1>3. ASSUME NEW w \in Worker, CallProvider(w) PROVE CallsOK'
  <2>1. /\ pc[w] = "claimed"
        /\ calls' = [calls EXCEPT ![cur[w]][claimNo[w]] = @ + 1]
        /\ pc' = [pc EXCEPT ![w] = "calling"]
        /\ UNCHANGED <<job, cur, claimNo>>
    BY <1>3 DEF CallProvider
  <2>2. cur[w] \in Job /\ claimNo[w] \in Attempt /\ claimNo[w] <= job[cur[w]].attempts
    BY <1>0, <2>1 DEF CurOK, InHand, Attempt
  <2>3. calls[cur[w]][claimNo[w]] = 0
    BY <2>1 DEF CallsOK
  <2>4. \A j \in Job, n \in Attempt :
          calls'[j][n] <= 1 /\ (n > job'[j].attempts => calls'[j][n] = 0)
    <3>1. SUFFICES ASSUME NEW j \in Job, NEW n \in Attempt
                   PROVE  calls'[j][n] <= 1 /\ (n > job'[j].attempts => calls'[j][n] = 0)
      OBVIOUS
    <3>2. CASE j = cur[w] /\ n = claimNo[w]
      <4>1. calls'[j][n] = 1
        BY <2>1, <2>2, <2>3, <3>2
      <4>2. ~(n > job'[j].attempts)
        BY <1>0, <2>1, <2>2, <3>2 DEF Attempt
      <4>3. QED
        BY <4>1, <4>2
    <3>3. CASE ~(j = cur[w] /\ n = claimNo[w])
      <4>1. calls'[j][n] = calls[j][n]
        BY <2>1, <2>2, <3>3
      <4>2. QED
        BY <2>1, <4>1 DEF CallsOK
    <3>4. QED
      BY <3>2, <3>3
  <2>5. ASSUME NEW v \in Worker, pc'[v] = "claimed"
        PROVE  calls'[cur'[v]][claimNo'[v]] = 0
    <3>1. v # w /\ pc[v] = "claimed"
      BY <2>1, <2>5
    <3>2. cur[v] \in Job /\ claimNo[v] \in Attempt
      BY <1>0, <3>1 DEF CurOK, InHand, Attempt, Row
    <3>3. ~(cur[v] = cur[w] /\ claimNo[v] = claimNo[w])
      BY <2>1, <3>1 DEF OneHolder, InHand
    <3>4. calls'[cur[v]][claimNo[v]] = calls[cur[v]][claimNo[v]]
      BY <2>1, <2>2, <3>2, <3>3
    <3>5. QED
      BY <2>1, <3>1, <3>4 DEF CallsOK
  <2>6. QED
    BY <2>4, <2>5 DEF CallsOK
<1>4. ASSUME NEW w \in Worker, \/ StartRun(w) \/ StartRequest(w)
                              \/ InsertRefused(w) \/ EndScan(w) \/ EndRun(w)
                              \/ Crash(w)
      PROVE  CallsOK'
  BY <1>1, <1>4
  DEF StartRun, StartRequest, Start, InsertRefused, EndScan, EndRun, Crash, Reset
<1>5. ASSUME NEW w \in Worker, \/ Insert(w) \/ Select(w) \/ ClaimLost(w)
                              \/ \E k \in Job : LookUp(w, k)
      PROVE  CallsOK'
  BY <1>1, <1>5 DEF Insert, Select, ClaimLost, LookUp
<1>6. ASSUME NEW w \in Worker,
             \/ BadPayload(w) \/ Refuse(w)
             \/ \E fate \in Fate, heard \in BOOLEAN : Accept(w, fate, heard)
      PROVE  CallsOK'
  BY <1>1, <1>6 DEF BadPayload, Refuse, Accept
<1>7. ASSUME NEW w \in Worker,
             ConfigurationError(w) \/ RecordSent(w) \/ RecordFailed(w)
      PROVE  CallsOK'
  BY <1>1, <1>7 DEF ConfigurationError, RecordSent, RecordFailed, Finish
<1>8. CASE Tick \/ (\E e \in Event : HandleWebhook(e)) \/ UNCHANGED vars
  BY <1>1, <1>8 DEF Tick, HandleWebhook
<1>9. QED
  BY <1>2, <1>3, <1>4, <1>5, <1>6, <1>7, <1>8 DEF Next, Scan, Process

\* What the provider took belongs to an attempt that has begun.
LEMMA AcceptedStep == IInv /\ [Next]_vars => AcceptedOK'
<1> SUFFICES ASSUME IInv, [Next]_vars PROVE AcceptedOK'
  OBVIOUS
<1>1. \A j \in Job : /\ job[j].attempts \in Nat
                     /\ job'[j].attempts \in Nat
                     /\ job'[j].attempts >= job[j].attempts
  BY AttemptsStep, TypeStep DEF IInv, TypeOK, Row
<1>2. ASSUME UNCHANGED accepted PROVE AcceptedOK'
  <2>1. SUFFICES ASSUME NEW m \in accepted PROVE m.n <= job'[m.job].attempts
    BY <1>2 DEF AcceptedOK
  <2>2. m.n \in Nat /\ m.job \in Job
    BY DEF IInv, TypeOK, Attempt
  <2>3. m.n <= job[m.job].attempts
    BY DEF IInv, AcceptedOK
  <2>4. QED
    BY <1>1, <2>2, <2>3
<1>3. ASSUME NEW w \in Worker, NEW fate \in Fate, NEW heard \in BOOLEAN,
             Accept(w, fate, heard)
      PROVE  AcceptedOK'
  BY <1>1, <1>3 DEF Accept, IInv, TypeOK, CurOK, InHand, AcceptedOK, Attempt
<1>4. CASE UNCHANGED vars
  BY <1>2, <1>4 DEF vars
<1>5. QED
  BY <1>2, <1>3, <1>4
  DEF Next, Scan, Process, StartRun, StartRequest, Start, LookUp, Insert,
      InsertRefused, EndScan, Select, EndRun, Claim, ClaimLost,
      ConfigurationError, BadPayload, CallProvider, Refuse, RecordSent,
      RecordFailed, Finish, Crash, HandleWebhook, Tick, world

-----------------------------------------------------------------------------
\* The strengthened invariant is inductive.
THEOREM Invariance == Spec => []IInv
<1>1. IInv /\ [Next]_vars => IInv'
  BY TypeStep, CurStep, SnapshotsStep, HolderStep, CallsStep, AcceptedStep DEF IInv
<1>2. QED
  BY InitIInv, <1>1, PTL DEF Spec

\* Every variable keeps its type, whatever the bounds.
THEOREM TypeCorrect == Spec => []TypeOK
<1>1. IInv => TypeOK
  BY DEF IInv
<1>2. QED
  BY Invariance, <1>1, PTL

\* No attempt of a job reaches the provider twice: the claim's compare-and-set
\* hands every attempt number to one worker, for any number of workers, deaths,
\* expired leases and redelivered webhooks.
THEOREM NoAttemptCalledTwice == Spec => []OneCallPerAttempt
<1>1. IInv => OneCallPerAttempt
  BY DEF IInv, CallsOK, OneCallPerAttempt
<1>2. QED
  BY Invariance, <1>1, PTL

\* No two workers may both write under a claim they believe in.
THEOREM NoTwoOwners == Spec => []OneOwner
<1>1. IInv => OneOwner
  BY DEF IInv, OneHolder, OneOwner, Holds, Owns
<1>2. QED
  BY Invariance, <1>1, PTL

-----------------------------------------------------------------------------
\* A step of the outbox is a step of its contract, or none.
LEMMA ContractStep ==
    IInv /\ IInv' /\ [Next]_vars => [Contract!Next]_(Contract!contract)
<1> SUFFICES ASSUME IInv, IInv', [Next]_vars
             PROVE  [Contract!Next]_(Contract!contract)
  OBVIOUS
<1> USE DeliveryAssumption
<1>0. job \in [Job -> Row] /\ job' \in [Job -> Row]
  BY DEF IInv, TypeOK
\* A step that leaves the counters and the confirmations alone.
<1>1. ASSUME \A j \in Job : /\ job'[j].attempts = job[j].attempts
                            /\ Confirmed(j)' = Confirmed(j)
      PROVE  UNCHANGED Contract!contract
  BY <1>1 DEF Contract!contract
<1>2. ASSUME NEW w \in Worker, Claim(w) PROVE Contract!Next
  <2>1. PICK s \in batch[w] :
          /\ StillAsSelected(s)
          /\ job' = [job EXCEPT ![s.job] =
                       [status |-> "PROCESSING", attempts |-> @.attempts + 1,
                        claim |-> s.attempts + 1, lease |-> Lease,
                        retry |-> 0, msg |-> @.msg]]
    BY <1>2 DEF Claim
  <2>2. /\ s.job \in Job
        /\ job[s.job].attempts < MaxAttempts
        /\ job[s.job].status \in {"PENDING", "FAILED", "PROCESSING"}
    BY <2>1 DEF IInv, TypeOK, Snapshot, SnapshotsOK, StillAsSelected
  <2>a. \A j \in Job : job'[j].attempts =
                         IF j = s.job THEN job[j].attempts + 1 ELSE job[j].attempts
    BY <1>0, <2>1, <2>2
  <2>b. \A j \in Job : Confirmed(j)' = Confirmed(j)
    BY <1>0, <2>1, <2>2 DEF Confirmed
  <2>c. ~Confirmed(s.job)
    BY <2>2 DEF Confirmed
  <2>3. Contract!Try(s.job)
    BY <2>2, <2>a, <2>b, <2>c DEF Contract!Try
  <2>4. QED
    BY <2>2, <2>3 DEF Contract!Next
<1>3. ASSUME NEW w \in Worker, ConfigurationError(w) PROVE [Contract!Next]_(Contract!contract)
  <2>1. cur[w] \in Job /\ job[cur[w]].attempts > 0
    BY <1>0, <1>3 DEF ConfigurationError, IInv, CurOK, InHand, Row
  <2>2. CASE Owns(w)
    <3>a. \A j \in Job : job'[j].attempts =
                           IF j = cur[w] THEN MaxAttempts ELSE job[j].attempts
      BY <1>0, <1>3, <2>1, <2>2 DEF ConfigurationError, Finish, Unclaimed
    <3>b. \A j \in Job : Confirmed(j)' = Confirmed(j)
      BY <1>0, <1>3, <2>1, <2>2
      DEF ConfigurationError, Finish, Unclaimed, Owns, Confirmed
    <3>c. ~Confirmed(cur[w])
      BY <2>2 DEF Owns, Confirmed
    <3>1. PICK k \in Job : k = cur[w]
      BY <2>1
    <3>d. Contract!GiveUp(k)
      BY <2>1, <3>1, <3>a, <3>b, <3>c DEF Contract!GiveUp
    <3>2. Contract!Next
      BY <3>d DEF Contract!Next
    <3>3. QED
      BY <3>2
  <2>3. CASE ~Owns(w)
    BY <1>1, <1>3, <2>3 DEF ConfigurationError, Finish, Confirmed
  <2>4. QED
    BY <2>2, <2>3
<1>4. ASSUME NEW w \in Worker, RecordSent(w) \/ RecordFailed(w)
      PROVE  UNCHANGED Contract!contract
  <2>1. cur[w] \in Job
    BY <1>4 DEF RecordSent, RecordFailed, IInv, CurOK, InHand
  <2>2. \A j \in Job : /\ job'[j].attempts = job[j].attempts
                       /\ Confirmed(j)' = Confirmed(j)
    BY <1>0, <1>4, <2>1
    DEF RecordSent, RecordFailed, Finish, Unclaimed, Owns, Confirmed
  <2>3. QED
    BY <1>1, <2>2
<1>5. ASSUME NEW e \in Event, HandleWebhook(e) PROVE [Contract!Next]_(Contract!contract)
  <2>1. PICK m \in accepted : e \in MayReport(m)
    BY <1>5 DEF HandleWebhook
  <2>2. /\ e.job \in Job
        /\ job[e.job].attempts > 0
    <3>1. e.job = m.job /\ m.n \in Attempt /\ m.job \in Job
      BY <2>1 DEF MayReport, IInv, TypeOK
    <3>2. m.n <= job[m.job].attempts
      BY DEF IInv, AcceptedOK
    <3>3. QED
      BY <1>0, <3>1, <3>2 DEF Attempt, Row
  <2>3. /\ job' = [job EXCEPT ![e.job].status = e.status]
        /\ job[e.job].status \in Predecessors(e.status)
        /\ e.status \in Reports
    BY <1>5 DEF HandleWebhook, Applies, Event
  <2>4. \A j \in Job : job'[j].attempts = job[j].attempts
    BY <1>0, <2>2, <2>3 DEF Row
  <2>5. \A j \in Job : j # e.job => Confirmed(j)' = Confirmed(j)
    BY <1>0, <2>3 DEF Confirmed
  <2>6. Confirmed(e.job)' <=> e.status \in {"DELIVERED", "READ"}
    BY <1>0, <2>2, <2>3 DEF Confirmed
  <2>7. Confirmed(e.job) => e.status = "READ"
    BY <2>3 DEF Confirmed, Predecessors, Reports
  <2>8. CASE Confirmed(e.job)' = Confirmed(e.job)
    BY <1>1, <2>4, <2>5, <2>8
  <2>9. CASE ~Confirmed(e.job) /\ Confirmed(e.job)'
    <3>1. Contract!Confirm(e.job)
      BY <2>2, <2>4, <2>5, <2>9 DEF Contract!Confirm
    <3>2. QED
      BY <2>2, <3>1 DEF Contract!Next
  <2>10. QED
    BY <2>6, <2>7, <2>8, <2>9 DEF Confirmed
<1>6. ASSUME NEW w \in Worker, Insert(w) PROVE UNCHANGED Contract!contract
  <2>1. \A j \in Job : /\ job'[j].attempts = job[j].attempts
                       /\ Confirmed(j)' = Confirmed(j)
    BY <1>0, <1>6 DEF Insert, Confirmed, Row, IInv, CurOK
  <2>2. QED
    BY <1>1, <2>1
<1>7. CASE Tick
  <2>1. \A j \in Job : /\ job'[j].attempts = job[j].attempts
                       /\ Confirmed(j)' = Confirmed(j)
    BY <1>7 DEF Tick, Confirmed
  <2>2. QED
    BY <1>1, <2>1
<1>8. CASE UNCHANGED job
  BY <1>1, <1>8 DEF Confirmed
<1>9. QED
  BY <1>2, <1>3, <1>4, <1>5, <1>6, <1>7, <1>8
  DEF Next, Scan, Process, StartRun, StartRequest, Start, LookUp, InsertRefused,
      EndScan, Select, EndRun, ClaimLost, BadPayload, CallProvider, Accept,
      Refuse, Crash, Reset, vars

\* The outbox implements its contract: bounded tries, and none once confirmed.
THEOREM OutboxImplementsContract == Spec => ImplementsContract
<1>1. ASSUME Init PROVE Contract!Init
  <2>1. \A j \in Job : job[j].attempts = 0 /\ Confirmed(j) = FALSE
    BY <1>1 DEF Init, NoRow, Confirmed
  <2>2. QED
    BY <2>1 DEF Contract!Init
<1>2. QED
  BY Invariance, <1>1, ContractStep, PTL DEF Spec, ImplementsContract, Contract!Spec

\* An attempt is in one hand, before the provider and after.
THEOREM OneHand == Spec => []OneHandPerAttempt
  BY NoAttemptCalledTwice, NoTwoOwners, PTL DEF OneHandPerAttempt

-----------------------------------------------------------------------------
\* An attempt has one fate: nothing is taken under it before its worker's call
\* is answered, and then once.
FateKnown ==
    /\ \A j \in Job, n \in Attempt :
         ~([job |-> j, n |-> n, fate |-> "reaches"] \in accepted
           /\ [job |-> j, n |-> n, fate |-> "bounces"] \in accepted)
    /\ \A w \in Worker : pc[w] \in {"claimed", "calling"} =>
         \A m \in accepted : ~(m.job = cur[w] /\ m.n = claimNo[w])

\* A row that may still be tried carries a message only if the provider has
\* reported its failure.
FailureKnown ==
    \A j \in Job :
        /\ job[j].status = "ABSENT" => job[j].msg = 0
        /\ job[j].status \in {"PENDING", "PROCESSING", "FAILED"} /\ job[j].msg > 0 =>
             [job |-> j, n |-> job[j].msg, status |-> "FAILED"] \in applied

\* A row that a batch saw in PROCESSING had no time left on its claim, and gets
\* none while it stays as it was seen.
SelectedExpired ==
    /\ \A j \in Job : job[j].status = "PROCESSING" => job[j].claim > 0
    /\ \A w \in Worker : \A s \in batch[w] :
         /\ s.attempts <= job[s.job].attempts
         /\ s.status = "PROCESSING" /\ StillAsSelected(s) => job[s.job].lease = 0

\* A claim with time left is the row's current one, or the row was reported on
\* meanwhile and is no longer to be tried: its message's failure, the one report
\* that would open it again, has been applied.
LeaseKept ==
    \A w \in Worker : pc[w] \in InHand /\ left[w] > 0 =>
        /\ claimNo[w] = job[cur[w]].attempts
        /\ \/ /\ job[cur[w]].status = "PROCESSING"
              /\ job[cur[w]].claim = claimNo[w]
              /\ job[cur[w]].lease = left[w]
           \/ /\ job[cur[w]].status \in {"SENT", "DELIVERED", "READ"}
              /\ job[cur[w]].msg > 0
              /\ [job |-> cur[w], n |-> job[cur[w]].msg, status |-> "FAILED"] \in applied

-----------------------------------------------------------------------------
\* A step gives no attempt a second fate.
LEMMA FateStep == IInv /\ FateKnown /\ [Next]_vars => FateKnown'
<1> SUFFICES ASSUME IInv, FateKnown, [Next]_vars PROVE FateKnown'
  OBVIOUS
<1> USE DEF IInv, TypeOK, vars, workers, world, rows
\* Without a new message, a worker may only come to hold what it held, or a
\* claim that nothing has been sent under.
<1>1. ASSUME UNCHANGED accepted,
             \A w \in Worker : pc'[w] \in {"claimed", "calling"} =>
                /\ pc[w] \in {"claimed", "calling"}
                /\ cur'[w] = cur[w] /\ claimNo'[w] = claimNo[w]
      PROVE  FateKnown'
  BY <1>1 DEF FateKnown
<1>2. ASSUME NEW w \in Worker, Claim(w) PROVE FateKnown'
  <2>1. PICK s \in batch[w] :
          /\ StillAsSelected(s)
          /\ cur' = [cur EXCEPT ![w] = s.job]
          /\ claimNo' = [claimNo EXCEPT ![w] = s.attempts + 1]
    BY <1>2 DEF Claim
  <2>2. /\ UNCHANGED accepted
        /\ pc' = [pc EXCEPT ![w] = "claimed"]
    BY <1>2 DEF Claim
  <2>3. s.job \in Job /\ s.attempts = job[s.job].attempts /\ s.attempts \in Nat
    BY <2>1 DEF Snapshot, StillAsSelected
  <2>4. \A m \in accepted : ~(m.job = s.job /\ m.n = s.attempts + 1)
    BY <2>3 DEF AcceptedOK, Attempt
  <2>5. \A v \in Worker : pc'[v] \in {"claimed", "calling"} =>
          \A m \in accepted : ~(m.job = cur'[v] /\ m.n = claimNo'[v])
    BY <2>1, <2>2, <2>4 DEF FateKnown
  <2>6. QED
    BY <2>2, <2>5 DEF FateKnown
<1>3. ASSUME NEW w \in Worker, NEW fate \in Fate, NEW heard \in BOOLEAN,
             Accept(w, fate, heard)
      PROVE  FateKnown'
  <2>1. /\ pc[w] = "calling"
        /\ accepted' = accepted \cup {[job |-> cur[w], n |-> claimNo[w], fate |-> fate]}
        /\ UNCHANGED <<cur, claimNo>>
        /\ pc'[w] \notin {"claimed", "calling"}
        /\ \A v \in Worker : v # w => pc'[v] = pc[v]
    BY <1>3 DEF Accept
  <2>2. \A m \in accepted : ~(m.job = cur[w] /\ m.n = claimNo[w])
    BY <2>1 DEF FateKnown
  <2>3. \A j \in Job, n \in Attempt :
          ~([job |-> j, n |-> n, fate |-> "reaches"] \in accepted'
            /\ [job |-> j, n |-> n, fate |-> "bounces"] \in accepted')
    <3>1. SUFFICES ASSUME NEW j \in Job, NEW n \in Attempt,
                          [job |-> j, n |-> n, fate |-> "reaches"] \in accepted',
                          [job |-> j, n |-> n, fate |-> "bounces"] \in accepted'
                   PROVE  FALSE
      OBVIOUS
    <3>2. CASE j = cur[w] /\ n = claimNo[w]
      <4>1. /\ [job |-> j, n |-> n, fate |-> "reaches"] \notin accepted
            /\ [job |-> j, n |-> n, fate |-> "bounces"] \notin accepted
        BY <2>2, <3>2
      <4>2. QED
        BY <2>1, <3>1, <4>1
    <3>3. CASE ~(j = cur[w] /\ n = claimNo[w])
      BY <2>1, <3>1, <3>3 DEF FateKnown
    <3>4. QED
      BY <3>2, <3>3
  <2>4. ASSUME NEW v \in Worker, pc'[v] \in {"claimed", "calling"}
        PROVE  \A m \in accepted' : ~(m.job = cur'[v] /\ m.n = claimNo'[v])
    <3>1. v # w /\ pc[v] \in {"claimed", "calling"}
      BY <2>1, <2>4
    <3>2. ~(cur[v] = cur[w] /\ claimNo[v] = claimNo[w])
      BY <2>1, <3>1 DEF OneHolder, InHand
    <3>3. \A m \in accepted : ~(m.job = cur[v] /\ m.n = claimNo[v])
      BY <3>1 DEF FateKnown
    <3>4. QED
      BY <2>1, <3>2, <3>3
  <2>5. QED
    BY <2>3, <2>4 DEF FateKnown
<1>4. ASSUME NEW w \in Worker, \/ StartRun(w) \/ StartRequest(w)
                              \/ InsertRefused(w) \/ EndScan(w) \/ EndRun(w)
                              \/ Crash(w)
      PROVE  FateKnown'
  BY <1>1, <1>4
  DEF StartRun, StartRequest, Start, InsertRefused, EndScan, EndRun, Crash, Reset
<1>5. ASSUME NEW w \in Worker, \/ Insert(w) \/ Select(w) \/ ClaimLost(w)
                              \/ \E k \in Job : LookUp(w, k)
      PROVE  FateKnown'
  BY <1>1, <1>5 DEF Insert, Select, ClaimLost, LookUp
<1>6. ASSUME NEW w \in Worker, BadPayload(w) \/ CallProvider(w) \/ Refuse(w)
      PROVE  FateKnown'
  BY <1>1, <1>6 DEF BadPayload, CallProvider, Refuse
<1>7. ASSUME NEW w \in Worker,
             ConfigurationError(w) \/ RecordSent(w) \/ RecordFailed(w)
      PROVE  FateKnown'
  BY <1>1, <1>7 DEF ConfigurationError, RecordSent, RecordFailed, Finish
<1>8. CASE Tick \/ (\E e \in Event : HandleWebhook(e)) \/ UNCHANGED vars
  BY <1>1, <1>8 DEF Tick, HandleWebhook
<1>9. QED
  BY <1>2, <1>3, <1>4, <1>5, <1>6, <1>7, <1>8 DEF Next, Scan, Process

\* How a step may change a row that was or becomes confirmed: only a webhook
\* about the message the row carries confirms it, and nothing else touches it.
LEMMA ConfirmedStep ==
    IInv /\ [Next]_vars =>
      \A j \in Job : Confirmed(j)' =>
        \/ Confirmed(j) /\ job'[j].msg = job[j].msg
        \/ /\ [job |-> j, n |-> job'[j].msg, fate |-> "reaches"] \in accepted
           /\ job'[j].msg \in Attempt
<1> SUFFICES ASSUME IInv, [Next]_vars, NEW j \in Job, Confirmed(j)'
             PROVE  \/ Confirmed(j) /\ job'[j].msg = job[j].msg
                    \/ /\ [job |-> j, n |-> job'[j].msg, fate |-> "reaches"] \in accepted
                       /\ job'[j].msg \in Attempt
  OBVIOUS
<1> DEFINE Goal == \/ Confirmed(j) /\ job'[j].msg = job[j].msg
                   \/ /\ [job |-> j, n |-> job'[j].msg, fate |-> "reaches"] \in accepted
                      /\ job'[j].msg \in Attempt
<1>0. job \in [Job -> Row]
  BY DEF IInv, TypeOK
<1>1. CASE UNCHANGED job
  BY <1>1 DEF Confirmed
<1>2. ASSUME NEW w \in Worker, Insert(w) PROVE Goal
  BY <1>0, <1>2 DEF Insert, Confirmed, Row
<1>3. ASSUME NEW w \in Worker, Claim(w) PROVE Goal
  <2>1. PICK s \in batch[w] :
          job' = [job EXCEPT ![s.job] =
                    [status |-> "PROCESSING", attempts |-> @.attempts + 1,
                     claim |-> s.attempts + 1, lease |-> Lease,
                     retry |-> 0, msg |-> @.msg]]
    BY <1>3 DEF Claim
  <2>2. QED
    BY <1>0, <2>1 DEF Confirmed
<1>4. ASSUME NEW w \in Worker, ConfigurationError(w) PROVE Goal
  BY <1>0, <1>4 DEF ConfigurationError, Finish, Unclaimed, Confirmed
<1>5. ASSUME NEW w \in Worker, RecordSent(w) PROVE Goal
  BY <1>0, <1>5 DEF RecordSent, Finish, Unclaimed, Confirmed
<1>6. ASSUME NEW w \in Worker, RecordFailed(w) PROVE Goal
  BY <1>0, <1>6 DEF RecordFailed, Finish, Unclaimed, Confirmed
<1>7. ASSUME NEW e \in Event, HandleWebhook(e) PROVE Goal
  <2>1. PICK m \in accepted : e \in MayReport(m)
    BY <1>7 DEF HandleWebhook
  <2>2. /\ job' = [job EXCEPT ![e.job].status = e.status]
        /\ job[e.job].msg = e.n
    BY <1>7 DEF HandleWebhook, Applies
  <2>3. \A k \in Job : job'[k].msg = job[k].msg
    BY <1>0, <2>2 DEF Row
  <2>4. CASE j # e.job
    BY <1>0, <2>2, <2>3, <2>4 DEF Confirmed
  <2>5. CASE j = e.job
    <3>1. e.status \in {"DELIVERED", "READ"}
      BY <1>0, <2>2, <2>5 DEF Confirmed, Row
    <3>2. m.fate = "reaches" /\ m.job = j /\ m.n = e.n
      BY <2>1, <2>5, <3>1 DEF MayReport
    <3>3. m = [job |-> j, n |-> e.n, fate |-> "reaches"] /\ m.n \in Attempt
      BY <3>2 DEF IInv, TypeOK
    <3>4. QED
      BY <2>2, <2>3, <2>5, <3>2, <3>3
  <2>6. QED
    BY <2>4, <2>5
<1>8. CASE Tick
  BY <1>8 DEF Tick, Confirmed
<1>9. QED
  BY <1>1, <1>2, <1>3, <1>4, <1>5, <1>6, <1>7, <1>8
  DEF Next, Scan, Process, StartRun, StartRequest, Start, LookUp, InsertRefused,
      EndScan, Select, EndRun, ClaimLost, BadPayload, CallProvider, Accept,
      Refuse, Crash, Reset, vars

\* A message once taken stays taken.
LEMMA AcceptedGrows == [Next]_vars => accepted \subseteq accepted'
<1>1. ASSUME NEW w \in Worker, NEW fate \in Fate, NEW heard \in BOOLEAN,
             Accept(w, fate, heard)
      PROVE  accepted \subseteq accepted'
  BY <1>1 DEF Accept
<1>2. QED
  BY <1>1
  DEF Next, Scan, Process, StartRun, StartRequest, Start, LookUp, Insert,
      InsertRefused, EndScan, Select, EndRun, Claim, ClaimLost,
      ConfigurationError, BadPayload, CallProvider, Refuse, RecordSent,
      RecordFailed, Finish, Crash, HandleWebhook, Tick, world, vars

\* The message of a confirmed row was taken and reached its recipient.
ReachedKnown ==
    \A j \in Job : Confirmed(j) =>
        /\ job[j].msg \in Attempt
        /\ [job |-> j, n |-> job[j].msg, fate |-> "reaches"] \in accepted

\* A row says DELIVERED or READ only of a message of its own that reached the
\* recipient, for any redelivery and reordering of webhooks and any number of
\* workers that race, stall or die.
THEOREM ConfirmationsAreTrue == Spec => []ConfirmedWasReached
<1>1. Init => FateKnown /\ ReachedKnown
  BY DEF Init, FateKnown, ReachedKnown, Confirmed, NoRow
<1>2. IInv /\ ReachedKnown /\ [Next]_vars => ReachedKnown'
  BY ConfirmedStep, AcceptedGrows DEF ReachedKnown
<1>3. FateKnown /\ ReachedKnown => ConfirmedWasReached
  BY DEF FateKnown, ReachedKnown, ConfirmedWasReached
<1>4. QED
  BY Invariance, FateStep, <1>1, <1>2, <1>3, PTL DEF Spec

\* A step that does not apply a webhook changes a row only by inserting it, by a
\* claim, by the finish of its owner, or by the passing of time.
LEMMA RowStep ==
    ASSUME IInv, [Next]_vars, NEW j \in Job,
           ~ \E e \in Event : HandleWebhook(e)
    PROVE  \/ job'[j] = job[j]
           \/ job[j].status = "ABSENT" /\ job'[j].msg = job[j].msg
              /\ job'[j].status = "PENDING"
           \/ /\ job[j].status \in {"PENDING", "FAILED", "PROCESSING"}
              /\ job'[j].status = "PROCESSING" /\ job'[j].msg = job[j].msg
           \/ /\ job[j].status = "PROCESSING"
              /\ \/ job'[j].status = "FAILED" /\ job'[j].msg = job[j].msg
                 \/ job'[j].status = "SENT"
           \/ job'[j].status = job[j].status /\ job'[j].msg = job[j].msg
<1> DEFINE Goal ==
           \/ job'[j] = job[j]
           \/ job[j].status = "ABSENT" /\ job'[j].msg = job[j].msg
              /\ job'[j].status = "PENDING"
           \/ /\ job[j].status \in {"PENDING", "FAILED", "PROCESSING"}
              /\ job'[j].status = "PROCESSING" /\ job'[j].msg = job[j].msg
           \/ /\ job[j].status = "PROCESSING"
              /\ \/ job'[j].status = "FAILED" /\ job'[j].msg = job[j].msg
                 \/ job'[j].status = "SENT"
           \/ job'[j].status = job[j].status /\ job'[j].msg = job[j].msg
<1>0. job \in [Job -> Row]
  BY DEF IInv, TypeOK
<1>1. CASE UNCHANGED job
  BY <1>1
<1>2. ASSUME NEW w \in Worker, Insert(w) PROVE Goal
  BY <1>0, <1>2 DEF Insert, Row
<1>3. ASSUME NEW w \in Worker, Claim(w) PROVE Goal
  <2>1. PICK s \in batch[w] :
          /\ StillAsSelected(s)
          /\ job' = [job EXCEPT ![s.job] =
                    [status |-> "PROCESSING", attempts |-> @.attempts + 1,
                     claim |-> s.attempts + 1, lease |-> Lease,
                     retry |-> 0, msg |-> @.msg]]
    BY <1>3 DEF Claim
  <2>2. job[s.job].status \in {"PENDING", "FAILED", "PROCESSING"}
    BY <2>1 DEF StillAsSelected, IInv, SnapshotsOK
  <2>3. QED
    BY <1>0, <2>1, <2>2
<1>4. ASSUME NEW w \in Worker, ConfigurationError(w) PROVE Goal
  BY <1>0, <1>4 DEF ConfigurationError, Finish, Unclaimed, Owns
<1>5. ASSUME NEW w \in Worker, RecordSent(w) PROVE Goal
  BY <1>0, <1>5 DEF RecordSent, Finish, Unclaimed, Owns
<1>6. ASSUME NEW w \in Worker, RecordFailed(w) PROVE Goal
  BY <1>0, <1>6 DEF RecordFailed, Finish, Unclaimed, Owns
<1>8. CASE Tick
  BY <1>8 DEF Tick
<1>9. QED
  BY <1>1, <1>2, <1>3, <1>4, <1>5, <1>6, <1>8
  DEF Next, Scan, Process, StartRun, StartRequest, Start, LookUp, InsertRefused,
      EndScan, Select, EndRun, ClaimLost, BadPayload, CallProvider, Accept,
      Refuse, Crash, Reset, vars

\* An event once applied stays applied.
LEMMA AppliedGrows == [Next]_vars => applied \subseteq applied'
<1>1. ASSUME NEW e \in Event, HandleWebhook(e) PROVE applied \subseteq applied'
  BY <1>1 DEF HandleWebhook
<1>2. QED
  BY <1>1
  DEF Next, Scan, Process, StartRun, StartRequest, Start, LookUp, Insert,
      InsertRefused, EndScan, Select, EndRun, Claim, ClaimLost,
      ConfigurationError, BadPayload, CallProvider, Accept, Refuse, RecordSent,
      RecordFailed, Finish, Crash, Reset, Tick, world, vars

\* A step that leaves a row to be tried leaves its message's failure reported.
LEMMA FailureStep == IInv /\ FailureKnown /\ [Next]_vars => FailureKnown'
<1> SUFFICES ASSUME IInv, FailureKnown, [Next]_vars, NEW j \in Job
             PROVE  /\ job'[j].status = "ABSENT" => job'[j].msg = 0
                    /\ job'[j].status \in {"PENDING", "PROCESSING", "FAILED"} /\ job'[j].msg > 0 =>
                         [job |-> j, n |-> job'[j].msg, status |-> "FAILED"] \in applied'
  BY DEF FailureKnown
<1>0. job \in [Job -> Row]
  BY DEF IInv, TypeOK
<1>1. applied \subseteq applied'
  BY AppliedGrows
<1>2. /\ job[j].status = "ABSENT" => job[j].msg = 0
      /\ job[j].status \in {"PENDING", "PROCESSING", "FAILED"} /\ job[j].msg > 0 =>
           [job |-> j, n |-> job[j].msg, status |-> "FAILED"] \in applied
      /\ job[j].msg \in Nat
  BY <1>0, DeliveryAssumption DEF FailureKnown, Row
<1>3. CASE ~ \E e \in Event : HandleWebhook(e)
  BY RowStep, <1>1, <1>2, <1>3
<1>4. ASSUME NEW e \in Event, HandleWebhook(e)
      PROVE  /\ job'[j].status = "ABSENT" => job'[j].msg = 0
             /\ job'[j].status \in {"PENDING", "PROCESSING", "FAILED"} /\ job'[j].msg > 0 =>
                  [job |-> j, n |-> job'[j].msg, status |-> "FAILED"] \in applied'
  <2>1. /\ job' = [job EXCEPT ![e.job].status = e.status]
        /\ job[e.job].msg = e.n
        /\ e \in applied'
        /\ e = [job |-> e.job, n |-> e.n, status |-> e.status]
        /\ e.status \in Reports
    BY <1>4 DEF HandleWebhook, Applies, Event
  <2>2. job'[j].msg = job[j].msg
    BY <1>0, <2>1 DEF Row
  <2>3. CASE j # e.job
    BY <1>0, <1>1, <1>2, <2>1, <2>2, <2>3
  <2>4. CASE j = e.job
    <3>1. job'[j].status = e.status /\ job'[j].msg = e.n
      BY <1>0, <2>1, <2>2, <2>4 DEF Row
    <3>2. QED
      BY <2>1, <2>4, <3>1 DEF Reports
  <2>5. QED
    BY <2>3, <2>4
<1>5. QED
  BY <1>3, <1>4

\* While a row is as a snapshot saw it in PROCESSING, its lease only runs down.
LEMMA SelectedStep == IInv /\ SelectedExpired /\ [Next]_vars => SelectedExpired'
<1> SUFFICES ASSUME IInv, SelectedExpired, [Next]_vars PROVE SelectedExpired'
  OBVIOUS
<1> USE DeliveryAssumption
<1>0. /\ job \in [Job -> Row] /\ job' \in [Job -> Row]
      /\ batch \in [Worker -> SUBSET Snapshot]
      /\ \A j \in Job : job'[j].attempts >= job[j].attempts
  BY TypeStep, AttemptsStep DEF IInv, TypeOK
\* A step that leaves every row it does not count up, and adds no snapshot.
<1>1. ASSUME \A w \in Worker : batch'[w] \subseteq batch[w],
             \A j \in Job :
                \/ /\ job'[j].status = job[j].status /\ job'[j].claim = job[j].claim
                   /\ job[j].lease = 0 => job'[j].lease = 0
                \/ job'[j].status # "PROCESSING"
                \/ job'[j].attempts > job[j].attempts /\ job'[j].claim > 0
      PROVE  SelectedExpired'
  <2>1. \A j \in Job : job'[j].status = "PROCESSING" => job'[j].claim > 0
    BY <1>1 DEF SelectedExpired
  <2>2. ASSUME NEW w \in Worker, NEW s \in batch'[w]
        PROVE  /\ s.attempts <= job'[s.job].attempts
               /\ s.status = "PROCESSING" /\ StillAsSelected(s)' => job'[s.job].lease = 0
    <3>1. s \in batch[w] /\ s.job \in Job /\ s.attempts \in Nat
      BY <1>0, <1>1, <2>2 DEF Snapshot
    <3>2. s.attempts <= job[s.job].attempts /\ job[s.job].attempts \in Nat /\ job'[s.job].attempts \in Nat
      BY <1>0, <3>1 DEF SelectedExpired, Row
    <3>3. s.attempts <= job'[s.job].attempts
      BY <1>0, <3>1, <3>2
    <3>4. ASSUME s.status = "PROCESSING", StillAsSelected(s)' PROVE job'[s.job].lease = 0
      <4>1. /\ job'[s.job].status = "PROCESSING"
            /\ job'[s.job].attempts = s.attempts /\ job'[s.job].claim = s.claim
        BY <3>4 DEF StillAsSelected
      <4>2. ~(job'[s.job].attempts > job[s.job].attempts)
        BY <3>1, <3>2, <4>1
      <4>3. /\ job[s.job].status = "PROCESSING" /\ job[s.job].claim = s.claim
            /\ job[s.job].lease = 0 => job'[s.job].lease = 0
        BY <1>1, <3>1, <4>1, <4>2
      <4>4. job[s.job].attempts = s.attempts
        BY <1>0, <3>1, <3>2, <4>1
      <4>5. StillAsSelected(s)
        BY <3>4, <4>3, <4>4 DEF StillAsSelected
      <4>6. QED
        BY <3>1, <3>4, <4>3, <4>5 DEF SelectedExpired
    <3>5. QED
      BY <3>3, <3>4
  <2>3. QED
    BY <2>1, <2>2 DEF SelectedExpired
<1>2. ASSUME NEW w \in Worker, Select(w) PROVE SelectedExpired'
  <2>1. PICK chosen : /\ chosen \subseteq {j \in ids[w] : Eligible(j)}
                      /\ batch' = [batch EXCEPT ![w] = {SnapshotOf(j) : j \in chosen}]
    BY <1>2 DEF Select
  <2>2. UNCHANGED job
    BY <1>2 DEF Select
  <2>3. ASSUME NEW j \in chosen
        PROVE  /\ j \in Job
               /\ SnapshotOf(j).job = j /\ SnapshotOf(j).attempts = job[j].attempts
               /\ SnapshotOf(j).status = "PROCESSING" => job[j].lease = 0
    BY <1>0, <2>1 DEF SnapshotOf, Eligible, SelectedExpired, IInv, TypeOK, Row
  <2>4. ASSUME NEW v \in Worker, NEW s \in batch'[v]
        PROVE  /\ s.attempts <= job[s.job].attempts
               /\ s.status = "PROCESSING" /\ StillAsSelected(s) => job[s.job].lease = 0
    <3>1. CASE v # w
      BY <1>0, <2>1, <2>4, <3>1 DEF SelectedExpired
    <3>2. CASE v = w
      <4>1. PICK j \in chosen : s = SnapshotOf(j)
        BY <1>0, <2>1, <2>4, <3>2
      <4>2. QED
        BY <1>0, <2>3, <4>1 DEF Row
    <3>3. QED
      BY <3>1, <3>2
  <2>5. QED
    BY <2>2, <2>4 DEF SelectedExpired, StillAsSelected
<1>3. ASSUME NEW w \in Worker, Claim(w) PROVE SelectedExpired'
  <2>1. PICK s \in batch[w] :
          /\ batch' = [batch EXCEPT ![w] = @ \ {s}]
          /\ job' = [job EXCEPT ![s.job] =
                       [status |-> "PROCESSING", attempts |-> @.attempts + 1,
                        claim |-> s.attempts + 1, lease |-> Lease,
                        retry |-> 0, msg |-> @.msg]]
    BY <1>3 DEF Claim
  <2>2. s.job \in Job /\ s.attempts \in Nat
    BY <1>0 DEF Snapshot
  <2>3. \A v \in Worker : batch'[v] \subseteq batch[v]
    BY <1>0, <2>1
  <2>4. \A j \in Job : \/ job'[j] = job[j]
                       \/ job'[j].attempts > job[j].attempts /\ job'[j].claim > 0
    BY <1>0, <2>1, <2>2 DEF Row
  <2>5. QED
    BY <1>1, <2>3, <2>4
<1>4. ASSUME NEW e \in Event, HandleWebhook(e) PROVE SelectedExpired'
  <2>1. /\ job' = [job EXCEPT ![e.job].status = e.status]
        /\ UNCHANGED batch
        /\ e.status \in Reports
    BY <1>4 DEF HandleWebhook, Event, workers
  <2>2. \A j \in Job : job'[j] = job[j] \/ job'[j].status # "PROCESSING"
    BY <1>0, <2>1 DEF Reports, Row
  <2>3. QED
    BY <1>1, <2>1, <2>2
<1>5. CASE Tick
  <2>1. \A j \in Job : /\ job'[j].status = job[j].status /\ job'[j].claim = job[j].claim
                       /\ job[j].lease = 0 => job'[j].lease = 0
    BY <1>5 DEF Tick, Down
  <2>2. QED
    BY <1>1, <1>5, <2>1 DEF Tick
<1>6. ASSUME NEW w \in Worker, ConfigurationError(w) \/ RecordSent(w) \/ RecordFailed(w)
      PROVE  SelectedExpired'
  <2>1. \A j \in Job : job'[j] = job[j] \/ job'[j].status # "PROCESSING"
    BY <1>0, <1>6 DEF ConfigurationError, RecordSent, RecordFailed, Finish, Unclaimed
  <2>2. UNCHANGED batch
    BY <1>6 DEF ConfigurationError, RecordSent, RecordFailed, Finish
  <2>3. QED
    BY <1>1, <2>1, <2>2
<1>7. ASSUME NEW w \in Worker, Insert(w) PROVE SelectedExpired'
  <2>1. \A j \in Job : job'[j] = job[j] \/ job'[j].status # "PROCESSING"
    BY <1>0, <1>7 DEF Insert, Row
  <2>2. QED
    BY <1>1, <1>7, <2>1 DEF Insert
<1>8. ASSUME NEW w \in Worker, \/ InsertRefused(w) \/ EndScan(w) \/ EndRun(w)
                              \/ ClaimLost(w) \/ Crash(w)
      PROVE  SelectedExpired'
  <2>1. \A v \in Worker : batch'[v] \subseteq batch[v]
    BY <1>0, <1>8 DEF InsertRefused, EndScan, EndRun, ClaimLost, Crash, Reset
  <2>2. UNCHANGED job
    BY <1>8 DEF InsertRefused, EndScan, EndRun, ClaimLost, Crash
  <2>3. QED
    BY <1>1, <2>1, <2>2
<1>9. CASE UNCHANGED <<job, batch>>
  BY <1>1, <1>9
<1>10. QED
  BY <1>2, <1>3, <1>4, <1>5, <1>6, <1>7, <1>8, <1>9
  DEF Next, Scan, Process, StartRun, StartRequest, Start, LookUp, BadPayload,
      CallProvider, Accept, Refuse, vars

\* What LeaseKept says of a worker w with a row r in hand.
Kept(w, r, done) ==
    /\ claimNo[w] = r.attempts
    /\ \/ r.status = "PROCESSING" /\ r.claim = claimNo[w] /\ r.lease = left[w]
       \/ /\ r.status \in {"SENT", "DELIVERED", "READ"}
          /\ r.msg > 0
          /\ [job |-> cur[w], n |-> r.msg, status |-> "FAILED"] \in done

\* LeaseKept in those terms.
LEMMA KeptIs ==
    LeaseKept <=> \A w \in Worker :
        pc[w] \in InHand /\ left[w] > 0 => Kept(w, job[cur[w]], applied)
  BY DEF LeaseKept, Kept

\* With every event applied at most once, a claim with time left is the current
\* one, and only a finish of its own worker can open the row to another.
LEMMA LeaseStep ==
    ASSUME Redelivery = FALSE
    PROVE  IInv /\ FailureKnown /\ SelectedExpired /\ LeaseKept /\ [Next]_vars
             => LeaseKept'
<1> SUFFICES ASSUME IInv, FailureKnown, SelectedExpired, LeaseKept, [Next]_vars
             PROVE  LeaseKept'
  OBVIOUS
<1> USE DeliveryAssumption
<1>0. /\ job \in [Job -> Row]
      /\ pc \in [Worker -> {"idle", "scan", "insert", "batch", "claimed",
                            "calling", "accepted", "refused"}]
      /\ batch \in [Worker -> SUBSET Snapshot]
      /\ cur \in [Worker -> Job \cup {NoJob}]
      /\ claimNo \in [Worker -> 0..MaxAttempts]
      /\ left \in [Worker -> 0..Lease]
      /\ applied \subseteq applied'
  BY AppliedGrows DEF IInv, TypeOK
<1>a. \A w \in Worker : pc[w] \in InHand => cur[w] \in Job
  BY DEF IInv, CurOK
<1>b. \A v, w \in Worker : v # w /\ pc[v] \in InHand /\ pc[w] \in InHand /\ cur[v] = cur[w]
        => claimNo[v] # claimNo[w]
  BY DEF IInv, OneHolder
<1>c. \A w \in Worker : pc[w] \in InHand /\ left[w] > 0 => Kept(w, job[cur[w]], applied)
  BY KeptIs
\* A step that leaves the claims alone that had time left, and their rows.
<1>1. ASSUME \A w \in Worker : pc'[w] \in InHand /\ left'[w] > 0 =>
                /\ pc[w] \in InHand
                /\ cur'[w] = cur[w] /\ claimNo'[w] = claimNo[w] /\ left'[w] = left[w]
                /\ job'[cur[w]] = job[cur[w]]
      PROVE  LeaseKept'
  <2>1. ASSUME NEW w \in Worker, pc'[w] \in InHand, left'[w] > 0
        PROVE  Kept(w, job[cur[w]], applied)'
    <3>1. /\ pc[w] \in InHand /\ left[w] > 0
          /\ cur'[w] = cur[w] /\ claimNo'[w] = claimNo[w] /\ left'[w] = left[w]
          /\ job'[cur[w]] = job[cur[w]]
      BY <1>1, <2>1
    <3>2. Kept(w, job[cur[w]], applied)
      BY <1>c, <3>1
    <3>3. QED
      BY <1>0, <3>1, <3>2 DEF Kept
  <2>2. QED
    BY <2>1 DEF LeaseKept, Kept
<1>2. ASSUME NEW w \in Worker, Claim(w) PROVE LeaseKept'
  <2>1. PICK s \in batch[w] :
          /\ StillAsSelected(s)
          /\ job' = [job EXCEPT ![s.job] =
                       [status |-> "PROCESSING", attempts |-> @.attempts + 1,
                        claim |-> s.attempts + 1, lease |-> Lease,
                        retry |-> 0, msg |-> @.msg]]
          /\ cur' = [cur EXCEPT ![w] = s.job]
          /\ claimNo' = [claimNo EXCEPT ![w] = s.attempts + 1]
    BY <1>2 DEF Claim
  <2>2. /\ pc[w] = "batch"
        /\ pc' = [pc EXCEPT ![w] = "claimed"]
        /\ left' = [left EXCEPT ![w] = Lease]
    BY <1>2 DEF Claim
  <2>3. /\ s.job \in Job /\ s.attempts \in Nat /\ s.attempts = job[s.job].attempts
        /\ job[s.job].status \in {"PENDING", "FAILED", "PROCESSING"}
        /\ job[s.job].status = "PROCESSING" => job[s.job].lease = 0
    BY <1>0, <2>1 DEF Snapshot, StillAsSelected, IInv, SnapshotsOK, SelectedExpired
  <2>4. ASSUME NEW v \in Worker, v # w, pc'[v] \in InHand, left'[v] > 0
        PROVE  Kept(v, job[cur[v]], applied)'
    <3>1. /\ pc[v] \in InHand /\ left[v] > 0 /\ left'[v] = left[v]
          /\ cur'[v] = cur[v] /\ claimNo'[v] = claimNo[v]
      BY <1>0, <2>1, <2>2, <2>4
    <3>2. Kept(v, job[cur[v]], applied)
      BY <1>c, <3>1
    <3>3. cur[v] # s.job
      BY <1>0, <2>3, <3>1, <3>2 DEF Kept
    <3>4. job'[cur[v]] = job[cur[v]]
      BY <1>0, <1>a, <2>1, <3>1, <3>3
    <3>5. QED
      BY <1>0, <3>1, <3>2, <3>4 DEF Kept
  <2>5. Kept(w, job[cur[w]], applied)'
    BY <1>0, <2>1, <2>2, <2>3 DEF Kept
  <2>6. QED
    BY <2>4, <2>5 DEF LeaseKept, Kept
<1>3. ASSUME NEW w \in Worker, ConfigurationError(w) \/ RecordSent(w) \/ RecordFailed(w)
      PROVE  LeaseKept'
  <2>1. /\ pc[w] \in InHand
        /\ pc' = [pc EXCEPT ![w] = "batch"]
        /\ cur' = [cur EXCEPT ![w] = NoJob]
        /\ claimNo' = [claimNo EXCEPT ![w] = 0]
        /\ left' = [left EXCEPT ![w] = 0]
    BY <1>3 DEF ConfigurationError, RecordSent, RecordFailed, Finish, InHand
  <2>2. \A k \in Job : \/ job'[k] = job[k]
                       \/ Owns(w) /\ k = cur[w]
    BY <1>0, <1>3 DEF ConfigurationError, RecordSent, RecordFailed, Finish
  <2>3. ASSUME NEW v \in Worker, pc'[v] \in InHand, left'[v] > 0
        PROVE  job'[cur[v]] = job[cur[v]] /\ pc[v] \in InHand /\ v # w
    <3>1. v # w /\ pc[v] \in InHand /\ left[v] > 0
      BY <1>0, <2>1, <2>3 DEF InHand
    <3>2. Kept(v, job[cur[v]], applied)
      BY <1>c, <3>1
    <3>3. ~(Owns(w) /\ cur[v] = cur[w])
      BY <1>b, <2>1, <3>1, <3>2 DEF Kept, Owns
    <3>4. QED
      BY <1>a, <2>2, <3>1, <3>3
  <2>4. QED
    BY <1>0, <1>1, <2>1, <2>3
<1>4. ASSUME NEW e \in Event, HandleWebhook(e) PROVE LeaseKept'
  <2>1. /\ e \notin applied
        /\ job[e.job].msg = e.n
        /\ job[e.job].status \in Predecessors(e.status)
        /\ job' = [job EXCEPT ![e.job].status = e.status]
        /\ UNCHANGED <<pc, cur, claimNo, left>>
        /\ e = [job |-> e.job, n |-> e.n, status |-> e.status]
        /\ e.job \in Job /\ e.n \in Attempt /\ e.status \in Reports
    BY <1>4 DEF HandleWebhook, Applies, Event, workers
  <2>2. ASSUME NEW w \in Worker, pc'[w] \in InHand, left'[w] > 0
        PROVE  Kept(w, job[cur[w]], applied)'
    <3>1. pc[w] \in InHand /\ left[w] > 0 /\ cur[w] \in Job
      BY <1>a, <2>1, <2>2
    <3>2. Kept(w, job[cur[w]], applied)
      BY <1>c, <3>1
    <3>3. CASE cur[w] # e.job
      <4>1. job'[cur[w]] = job[cur[w]]
        BY <1>0, <2>1, <3>1, <3>3
      <4>2. QED
        BY <1>0, <2>1, <3>2, <4>1 DEF Kept
    <3>4. CASE cur[w] = e.job
      <4>1. job[e.job].msg > 0 /\ job[e.job].msg = e.n
        BY <2>1 DEF Attempt
      <4>2. [job |-> e.job, n |-> e.n, status |-> "FAILED"] \in applied
        BY <2>1, <3>2, <3>4, <4>1 DEF Kept, FailureKnown
      <4>3. e.status \in {"SENT", "DELIVERED", "READ"}
        BY <2>1, <4>2 DEF Reports
      <4>4. /\ job'[e.job].status = e.status
            /\ job'[e.job].msg = e.n
            /\ job'[e.job].attempts = job[e.job].attempts
        BY <1>0, <2>1, <4>1 DEF Row
      <4>5. QED
        BY <1>0, <2>1, <3>2, <3>4, <4>1, <4>2, <4>3, <4>4 DEF Kept
    <3>5. QED
      BY <3>3, <3>4
  <2>3. QED
    BY <2>2 DEF LeaseKept, Kept
<1>5. CASE Tick
  <2>1. /\ job' = [j \in Job |->
                 [status |-> job[j].status, attempts |-> job[j].attempts,
                  claim |-> job[j].claim, lease |-> Down(job[j].lease),
                  retry |-> Down(job[j].retry), msg |-> job[j].msg]]
        /\ left' = [w \in Worker |-> Down(left[w])]
        /\ UNCHANGED <<pc, cur, claimNo, applied>>
    BY <1>5 DEF Tick, world
  <2>2. ASSUME NEW w \in Worker, pc'[w] \in InHand, left'[w] > 0
        PROVE  Kept(w, job[cur[w]], applied)'
    <3>1. pc[w] \in InHand /\ left[w] > 0 /\ cur[w] \in Job
      BY <1>0, <1>a, <2>1, <2>2 DEF Down
    <3>2. Kept(w, job[cur[w]], applied)
      BY <1>c, <3>1
    <3>3. QED
      BY <2>1, <3>1, <3>2 DEF Kept
  <2>3. QED
    BY <2>2 DEF LeaseKept, Kept
<1>6. ASSUME NEW w \in Worker, Insert(w) PROVE LeaseKept'
  <2>1. /\ pc[w] = "insert" /\ job[cur[w]].status = "ABSENT"
        /\ job' = [job EXCEPT ![cur[w]].status = "PENDING"]
        /\ pc' = [pc EXCEPT ![w] = "scan"]
        /\ cur' = [cur EXCEPT ![w] = NoJob]
        /\ UNCHANGED <<claimNo, left>>
    BY <1>6 DEF Insert
  <2>2. ASSUME NEW v \in Worker, pc'[v] \in InHand, left'[v] > 0
        PROVE  v # w /\ pc[v] \in InHand /\ job'[cur[v]] = job[cur[v]]
    <3>1. v # w /\ pc[v] \in InHand /\ left[v] > 0
      BY <1>0, <2>1, <2>2 DEF InHand
    <3>2. Kept(v, job[cur[v]], applied)
      BY <1>c, <3>1
    <3>3. cur[v] # cur[w]
      BY <2>1, <3>2 DEF Kept
    <3>4. QED
      BY <1>0, <1>a, <2>1, <3>1, <3>3
  <2>3. QED
    BY <1>0, <1>1, <2>1, <2>2
<1>7. ASSUME NEW w \in Worker, \/ StartRun(w) \/ StartRequest(w)
                              \/ InsertRefused(w) \/ EndScan(w) \/ EndRun(w)
                              \/ Crash(w)
      PROVE  LeaseKept'
  BY <1>0, <1>1, <1>7
  DEF StartRun, StartRequest, Start, InsertRefused, EndScan, EndRun, Crash, Reset, InHand
<1>8. ASSUME NEW w \in Worker, \/ Select(w) \/ ClaimLost(w)
                              \/ \E k \in Job : LookUp(w, k)
      PROVE  LeaseKept'
  BY <1>0, <1>1, <1>8 DEF Select, ClaimLost, LookUp, InHand
<1>9. ASSUME NEW w \in Worker,
             \/ BadPayload(w) \/ CallProvider(w) \/ Refuse(w)
             \/ \E fate \in Fate, heard \in BOOLEAN : Accept(w, fate, heard)
      PROVE  LeaseKept'
  BY <1>0, <1>1, <1>9 DEF BadPayload, CallProvider, Refuse, Accept, InHand
<1>10. CASE UNCHANGED vars
  BY <1>1, <1>10 DEF vars
<1>11. QED
  BY <1>2, <1>3, <1>4, <1>5, <1>6, <1>7, <1>8, <1>9, <1>10 DEF Next, Scan, Process

\* Where the provider delivers each webhook event once, two workers have a job in
\* hand only when the earlier claim's lease has run out.
THEOREM LeaseExcludes == ASSUME Redelivery = FALSE PROVE Spec => []LeaseExclusion
<1> DEFINE LInv == FailureKnown /\ SelectedExpired /\ LeaseKept
<1>1. Init => LInv
  BY DEF Init, NoRow, FailureKnown, SelectedExpired, LeaseKept
<1>2. IInv /\ LInv /\ [Next]_vars => LInv'
  BY FailureStep, SelectedStep, LeaseStep
<1>3. IInv /\ LInv => LeaseExclusion
  <2> SUFFICES ASSUME IInv, LInv, NEW v \in Worker, NEW w \in Worker, NEW j \in Job,
                      Holds(v, j), Holds(w, j), claimNo[v] < claimNo[w]
               PROVE  left[v] = 0
    BY DEF LeaseExclusion
  <2>1. claimNo[w] <= job[j].attempts /\ job[j].attempts \in Nat
    BY DEF Holds, IInv, TypeOK, CurOK, Row
  <2>2. claimNo[v] \in Nat /\ claimNo[w] \in Nat /\ left[v] \in Nat
    BY DEF IInv, TypeOK
  <2>3. pc[v] \in InHand /\ left[v] > 0 => claimNo[v] = job[cur[v]].attempts
    BY DEF LeaseKept
  <2>4. ~(left[v] > 0)
    BY <2>1, <2>2, <2>3 DEF Holds
  <2>5. QED
    BY <2>2, <2>4
<1>4. QED
  BY Invariance, <1>1, <1>2, <1>3, PTL DEF Spec
=============================================================================
