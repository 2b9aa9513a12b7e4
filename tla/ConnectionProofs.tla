-------------------------- MODULE ConnectionProofs --------------------------
(***************************************************************************)
(* The safety of Connections for any number of rows, secrets, attempts,    *)
(* workers and faults.                                                     *)
(*                                                                         *)
(* ARNs are given out in order and every reference is to one given out     *)
(* before, so a deleted secret never comes back under its old ARN.  An     *)
(* entry of the outbox is made once, when its row is revoked, and is only  *)
(* deleted from by a drain that found it pending.                          *)
(***************************************************************************)
EXTENDS Connections, TLAPS

JobRecords == [pc : {"idle", "consent", "probe", "answer"}, row : 0..MaxRows,
               status : Statuses, prior : Details, ref : ARNs, out : Checked, new : ARNs]

Entries == [state : {"none", "pending", "done", "failed"}, ref : ARNs, tries : 0..MaxAttempts]

\* The type invariant without the flag of the tier and the conditions on rows.
Ranges ==
    /\ made \in 0..MaxRows /\ revoked \subseteq 1..made /\ lost \subseteq ARNs
    /\ status \in Statuses /\ prior \in Details
    /\ ref \in [Rows -> ARNs]
    /\ minted \in ARNs /\ secret \in 0..minted
    /\ box \in [Rows -> Entries]
    /\ faults \in 0..MaxFaults
    /\ job \in [Workers -> JobRecords]
    /\ revoking \in [how : {"none", "disconnect", "cascade"}, row : 0..made, ref : ARNs]
    /\ drain \in [pc : {"off", "on"}, todo : SUBSET Rows, done : SUBSET Rows, failed : SUBSET Rows]

\* What the tables say of each other, and of what is under way.
RowsOK ==
    /\ 1..(made - 1) \subseteq revoked
    /\ \A c \in Rows : c > made => ref[c] = 0
    /\ \A c \in Rows : box[c].state # "none" => c \in revoked /\ box[c].ref # 0
    /\ \A c \in Rows : Pending(c) => box[c].tries < MaxAttempts
    /\ \A w \in Workers : IF job[w].pc = "idle" THEN job[w].new = 0
                          ELSE job[w].row \in 1..made
    /\ revoking # NoRevoke => IsLive(revoking.row)
    /\ \A c \in drain.todo \cup drain.done \cup drain.failed : Pending(c)

\* Every reference is to an ARN that has been given out.
RefsOld ==
    /\ \A c \in Rows : ref[c] <= minted /\ box[c].ref <= minted
    /\ \A w \in Workers : job[w].ref <= minted /\ job[w].new <= minted
    /\ revoking.ref <= minted

\* A drain's deletions hold until it commits, and after.
Gone == DoneMeansGone /\ \A c \in drain.done : secret # box[c].ref

\* The secret of the live row, also one that is still to be written to it.
NamedBefore(c, arn) == \E d \in 1..(c - 1) : box[d].ref = arn /\ box[d].state # "none"
Kept ==
    /\ LostOnlyToPredecessor
    /\ \A w \in Workers :
        IsLive(job[w].row) /\ job[w].new # 0 /\ secret # job[w].new =>
            NamedBefore(job[w].row, job[w].new)

IInv == Ranges /\ free \in BOOLEAN /\ RowsOK /\ RefsOld /\ Gone /\ Kept

LEMMA InitIInv == Init => IInv
<1> SUFFICES ASSUME Init PROVE IInv
  OBVIOUS
<1> USE BoundAssumption, AttemptAssumption
<1> USE DEF Init, NoEntry, NoJob, NoDrain, NoRevoke
<1>1. /\ made \in 0..MaxRows /\ minted \in ARNs /\ faults \in 0..MaxFaults
      /\ 0 \in ARNs /\ 0 \in 0..MaxAttempts
  BY DEF ARNs
<1>2. Ranges
  BY <1>1 DEF Ranges, JobRecords, Entries, Statuses, Checked, Details
<1>3. RowsOK /\ RefsOld
  BY DEF RowsOK, RefsOld, Rows, Pending
<1>4. Gone /\ Kept
  BY DEF Gone, Kept, DoneMeansGone, LostOnlyToPredecessor, IsLive
<1> QED BY <1>2, <1>3, <1>4 DEF IInv

(* What mark_done and mark_failed make of an entry.                          *)
LEMMA EntryType ==
    ASSUME NEW e \in Entries, e.tries + 1 \in 0..MaxAttempts
    PROVE  DoneEntry(e) \in Entries /\ FailedEntry(e) \in Entries
BY DEF DoneEntry, FailedEntry, Entries

LEMMA EntryKept ==
    ASSUME NEW e \in Entries, e.state = "pending"
    PROVE  /\ DoneEntry(e).ref = e.ref /\ FailedEntry(e).ref = e.ref
           /\ DoneEntry(e).state = "done" /\ FailedEntry(e).state \in {"pending", "failed"}
           /\ FailedEntry(e).state = "pending" => FailedEntry(e).tries < MaxAttempts
BY AttemptAssumption DEF DoneEntry, FailedEntry, Entries

(* Every step keeps the ranges.                                              *)
LEMMA RangesStep == ASSUME Ranges, RowsOK, [Next]_vars PROVE Ranges'
<1> USE BoundAssumption, AttemptAssumption
<1> USE DEF Ranges, table, store
<1>1. ASSUME Initiate PROVE Ranges'
  BY <1>1 DEF Initiate, Statuses, Checked, Details
<1>2. ASSUME SetDormant PROVE Ranges'
  BY <1>2 DEF SetDormant, Statuses, Checked, Details, Sleeps
<1>3. ASSUME RestoreDormant PROVE Ranges'
  BY <1>3 DEF RestoreDormant, Statuses, Checked, Details
<1>4. ASSUME CommitRevoke PROVE Ranges'
  <2> DEFINE e == [state |-> "pending", ref |-> revoking.ref, tries |-> 0]
  <2>1. e \in Entries
    BY AttemptAssumption DEF Entries
  <2>2. box' \in {box, [box EXCEPT ![revoking.row] = e]}
    BY <1>4 DEF CommitRevoke
  <2> HIDE DEF e
  <2>3. box' \in [Rows -> Entries]
    BY <2>1, <2>2
  <2>4. revoked' \subseteq 1..made
    BY <1>4 DEF CommitRevoke, MarkRevoked, RowsOK, IsLive
  <2> QED BY <1>4, <2>3, <2>4
          DEF CommitRevoke, MarkRevoked, NoRevoke, Statuses, Checked, Details, ARNs
<1>5. ASSUME DrainStart PROVE Ranges'
  BY <1>5 DEF DrainStart, NoDrain
<1>6. ASSUME NEW c \in Rows, DrainRow(c) PROVE Ranges'
  <2>1. secret' \in 0..minted'
    BY <1>6 DEF DrainRow, ARNs
  <2>2. drain' \in [pc : {"off", "on"}, todo : SUBSET Rows, done : SUBSET Rows,
                    failed : SUBSET Rows]
    BY <1>6 DEF DrainRow
  <2> QED BY <1>6, <2>1, <2>2 DEF DrainRow
<1>7. ASSUME NEW c \in Rows, DrainRowFails(c) PROVE Ranges'
  BY <1>7 DEF DrainRowFails
<1>8. ASSUME DrainCommit PROVE Ranges'
  <2>1. ASSUME NEW c \in Rows
        PROVE  box'[c] \in Entries
    <3>1. /\ box[c].state \in {"none", "pending", "done", "failed"} /\ box[c].ref \in ARNs
          /\ box[c].tries \in 0..MaxAttempts
      BY DEF Entries
    <3>2. c \in drain.done \cup drain.failed => box[c].tries + 1 \in 0..MaxAttempts
      BY <3>1 DEF RowsOK
    <3>3. c \in drain.done \cup drain.failed =>
            DoneEntry(box[c]) \in Entries /\ FailedEntry(box[c]) \in Entries
      BY <3>2, EntryType DEF Entries
    <3>4. box'[c] = IF c \in drain.done THEN DoneEntry(box[c])
                    ELSE IF c \in drain.failed THEN FailedEntry(box[c]) ELSE box[c]
      BY <1>8 DEF DrainCommit
    <3> QED BY <3>3, <3>4 DEF Entries
  <2>2. box' \in [Rows -> Entries]
    BY <1>8, <2>1 DEF DrainCommit
  <2> QED BY <1>8, <2>2 DEF DrainCommit, NoDrain
<1>9. ASSUME DrainBreaks PROVE Ranges'
  BY <1>9 DEF DrainBreaks, NoDrain
<1>10. ASSUME NEW c \in Rows, NEW how \in {"disconnect", "cascade"}, ReadRevoke(c, how)
       PROVE  Ranges'
  BY <1>10 DEF ReadRevoke, IsLive
<1>11. ASSUME NEW c \in Rows, NEW w \in Workers, NEW pc \in {"consent", "probe"}, Load(w, c, pc)
       PROVE  Ranges'
  <2>1. [pc |-> pc, row |-> c, status |-> status, prior |-> prior,
         ref |-> ref[c], out |-> "unconfigured", new |-> 0] \in JobRecords
    <3>1. c \in 0..MaxRows /\ ref[c] \in ARNs /\ 0 \in ARNs
      BY DEF Rows, ARNs
    <3>2. status \in Statuses /\ prior \in Details /\ "unconfigured" \in Checked
      BY DEF Checked
    <3> HIDE DEF Ranges
    <3> QED BY <3>1, <3>2 DEF JobRecords
  <2> QED BY <1>11, <2>1 DEF Load
<1>12. ASSUME NEW w \in Workers, NEW out \in Checked, NEW arn \in ARNs, Answer(w, out, arn)
       PROVE  job' \in [Workers -> JobRecords]
  <2>1. [job[w] EXCEPT !.pc = "answer", !.out = out, !.new = arn] \in JobRecords
    BY DEF JobRecords
  <2>2. job' = [job EXCEPT ![w] = [job[w] EXCEPT !.pc = "answer", !.out = out, !.new = arn]]
    BY <1>12 DEF Answer
  <2> QED BY <2>1, <2>2
<1>13. ASSUME NEW w \in Workers, ConsentFails(w) PROVE Ranges'
  BY <1>12, <1>13 DEF ConsentFails, ARNs, Checked
<1>14. ASSUME NEW w \in Workers, StoreToken(w) PROVE Ranges'
  <2>1. minted' \in ARNs /\ secret' \in 0..minted' /\ secret' \in ARNs
    BY <1>14 DEF StoreToken, ARNs
  <2> QED BY <1>12, <1>14, <2>1 DEF StoreToken, Checked
<1>15. ASSUME NEW w \in Workers, Probe(w) PROVE Ranges'
  BY <1>12, <1>15 DEF Probe, ARNs
<1>16. ASSUME NEW w \in Workers, CommitHealth(w) PROVE Ranges'
  <2>1. job[w] \in JobRecords /\ job[w].row \in 1..made
    BY <1>16 DEF CommitHealth, RowsOK
  <2>2. status' \in Statuses /\ prior' \in Details
    BY <1>16, <2>1 DEF CommitHealth, Written, DetailAfter, JobRecords, Statuses, Details
  <2>3. ref' \in [Rows -> ARNs]
    BY <1>16, <2>1 DEF CommitHealth, RefAfter, JobRecords, Rows
  <2>4. lost' \subseteq ARNs
    BY <1>16, <2>1 DEF CommitHealth, Forgets, RefAfter, JobRecords, Rows
  <2>5. NoJob \in JobRecords
    BY DEF NoJob, JobRecords, Statuses, Checked, Details, ARNs
  <2> QED BY <1>16, <2>2, <2>3, <2>4, <2>5 DEF CommitHealth
<1>17. ASSUME NEW w \in Workers, WorkerDies(w) PROVE Ranges'
  <2>1. NoJob \in JobRecords
    BY DEF NoJob, JobRecords, Statuses, Checked, Details, ARNs
  <2>2. lost' \subseteq ARNs
    BY <1>17 DEF WorkerDies, JobRecords
  <2> QED BY <1>17, <2>1, <2>2 DEF WorkerDies
<1>18. CASE UNCHANGED vars
  BY <1>18 DEF vars
<1> HIDE BoundAssumption, AttemptAssumption DEF Ranges, table, store
<1> QED
  BY <1>1, <1>2, <1>3, <1>4, <1>5, <1>6, <1>7, <1>8, <1>9, <1>10, <1>11, <1>13, <1>14,
     <1>15, <1>16, <1>17, <1>18 DEF Next, WorkerStep, DrainStep, BeginCallback, BeginRefresh

(* What the tables say of each other is kept.                                *)
LEMMA RowsStep == ASSUME Ranges, RowsOK, [Next]_vars PROVE RowsOK'
<1> USE BoundAssumption, AttemptAssumption
<1> USE DEF Ranges, RowsOK, Pending, IsLive, Rows, JobRecords, Entries, table, store
<1>1. ASSUME Initiate PROVE RowsOK'
  BY <1>1 DEF Initiate
<1>2. ASSUME SetDormant PROVE RowsOK'
  BY <1>2 DEF SetDormant
<1>3. ASSUME RestoreDormant PROVE RowsOK'
  BY <1>3 DEF RestoreDormant
<1>4. ASSUME CommitRevoke PROVE RowsOK'
  BY <1>4 DEF CommitRevoke, MarkRevoked, NoRevoke
<1>5. ASSUME DrainStart PROVE RowsOK'
  BY <1>5 DEF DrainStart, NoDrain, Pending
<1>6. ASSUME NEW c \in Rows, DrainRow(c) PROVE RowsOK'
  BY <1>6 DEF DrainRow, IsNext
<1>7. ASSUME NEW c \in Rows, DrainRowFails(c) PROVE RowsOK'
  BY <1>7 DEF DrainRowFails, IsNext
<1>8. ASSUME DrainCommit PROVE RowsOK'
  <2>1. ASSUME NEW c \in Rows
        PROVE  /\ box'[c].state # "none" => box[c].state # "none" /\ box'[c].ref = box[c].ref
               /\ box'[c].state = "pending" => box'[c].tries < MaxAttempts
    <3>1. box'[c] = IF c \in drain.done THEN DoneEntry(box[c])
                    ELSE IF c \in drain.failed THEN FailedEntry(box[c]) ELSE box[c]
      BY <1>8 DEF DrainCommit
    <3>2. c \in drain.done \cup drain.failed => box[c].state = "pending"
      OBVIOUS
    <3> QED BY <3>1, <3>2, EntryKept
  <2> QED BY <1>8, <2>1 DEF DrainCommit, NoDrain
<1>9. ASSUME DrainBreaks PROVE RowsOK'
  BY <1>9 DEF DrainBreaks, NoDrain
<1>10. ASSUME NEW c \in Rows, NEW how \in {"disconnect", "cascade"}, ReadRevoke(c, how)
      PROVE  RowsOK'
  BY <1>10 DEF ReadRevoke, NoRevoke
<1>11. ASSUME NEW c \in Rows, NEW w \in Workers, NEW pc \in {"consent", "probe"}, Load(w, c, pc)
      PROVE  RowsOK'
  BY <1>11 DEF Load, NoJob
<1>12. ASSUME NEW w \in Workers, ConsentFails(w) PROVE RowsOK'
  BY <1>12 DEF ConsentFails, Answer
<1>13. ASSUME NEW w \in Workers, StoreToken(w) PROVE RowsOK'
  BY <1>13 DEF StoreToken, Answer
<1>14. ASSUME NEW w \in Workers, Probe(w) PROVE RowsOK'
  BY <1>14 DEF Probe, Answer
<1>15. ASSUME NEW w \in Workers, CommitHealth(w) PROVE RowsOK'
  BY <1>15 DEF CommitHealth, NoJob
<1>16. ASSUME NEW w \in Workers, WorkerDies(w) PROVE RowsOK'
  BY <1>16 DEF WorkerDies, NoJob
<1>17. CASE UNCHANGED vars
  BY <1>17 DEF vars
<1> HIDE BoundAssumption, AttemptAssumption DEF Ranges, RowsOK, Pending, IsLive, Rows, JobRecords, Entries
<1> QED
  BY <1>1, <1>2, <1>3, <1>4, <1>5, <1>6, <1>7, <1>8, <1>9, <1>10, <1>11, <1>12, <1>13,
     <1>14, <1>15, <1>16, <1>17 DEF Next, WorkerStep, DrainStep, BeginCallback, BeginRefresh

(* A drain's commit changes no reference of an entry and unmakes none.       *)
LEMMA CommitKeepsEntries ==
    ASSUME Ranges, RowsOK, DrainCommit, NEW c \in Rows
    PROVE  /\ box'[c].ref = box[c].ref
           /\ box'[c].state # "none" <=> box[c].state # "none"
           /\ c \in drain.done => box'[c].state = "done"
           /\ c \notin drain.done => (box'[c].state = "done" <=> box[c].state = "done")
<1>1. box'[c] = IF c \in drain.done THEN DoneEntry(box[c])
                ELSE IF c \in drain.failed THEN FailedEntry(box[c]) ELSE box[c]
  BY DEF DrainCommit
<1>2. c \in drain.done \cup drain.failed => box[c].state = "pending"
  BY DEF RowsOK, Pending
<1> QED BY <1>1, <1>2, EntryKept DEF Ranges

(* A reference is to an ARN given out before.                                *)
LEMMA RefsStep ==
    ASSUME Ranges, RowsOK, RefsOld, [Next]_vars PROVE RefsOld'
<1> USE BoundAssumption
<1> USE DEF Ranges, RefsOld, Rows, ARNs, JobRecords, Entries, table, store
<1>1. ASSUME Initiate PROVE RefsOld'
  BY <1>1 DEF Initiate
<1>2. ASSUME SetDormant PROVE RefsOld'
  BY <1>2 DEF SetDormant
<1>3. ASSUME RestoreDormant PROVE RefsOld'
  BY <1>3 DEF RestoreDormant
<1>4. ASSUME CommitRevoke PROVE RefsOld'
  BY <1>4 DEF CommitRevoke, MarkRevoked, NoRevoke
<1>5. ASSUME DrainStart PROVE RefsOld'
  BY <1>5 DEF DrainStart, NoDrain, Pending
<1>6. ASSUME NEW c \in Rows, DrainRow(c) PROVE RefsOld'
  BY <1>6 DEF DrainRow, IsNext
<1>7. ASSUME NEW c \in Rows, DrainRowFails(c) PROVE RefsOld'
  BY <1>7 DEF DrainRowFails, IsNext
<1>8. ASSUME DrainCommit PROVE RefsOld'
  BY <1>8, CommitKeepsEntries DEF DrainCommit
<1>9. ASSUME DrainBreaks PROVE RefsOld'
  BY <1>9 DEF DrainBreaks, NoDrain
<1>10. ASSUME NEW c \in Rows, NEW how \in {"disconnect", "cascade"}, ReadRevoke(c, how)
      PROVE  RefsOld'
  BY <1>10 DEF ReadRevoke, NoRevoke
<1>11. ASSUME NEW c \in Rows, NEW w \in Workers, NEW pc \in {"consent", "probe"}, Load(w, c, pc)
      PROVE  RefsOld'
  BY <1>11 DEF Load, NoJob
<1>12. ASSUME NEW w \in Workers, ConsentFails(w) PROVE RefsOld'
  BY <1>12 DEF ConsentFails, Answer
<1>13. ASSUME NEW w \in Workers, StoreToken(w) PROVE RefsOld'
  <2>1. minted' \in Nat /\ minted <= minted' /\ secret' <= minted'
    BY <1>13 DEF StoreToken
  <2>2. job' = [job EXCEPT ![w] = [job[w] EXCEPT !.pc = "answer", !.out = "connected", !.new = secret']]
    BY <1>13 DEF StoreToken, Answer
  <2>3. \A v \in Workers : job'[v].ref = job[v].ref /\ job'[v].new \in {job[v].new, secret'}
    BY <2>2
  <2>4. UNCHANGED <<ref, box, revoking>>
    BY <1>13 DEF StoreToken
  <2>5. \A n \in ARNs : n <= minted => n <= minted'
    BY <2>1
  <2>6. \A v \in Workers : job[v].ref \in ARNs /\ job[v].new \in ARNs
    OBVIOUS
  <2>7. \A v \in Workers : job'[v].ref <= minted' /\ job'[v].new <= minted'
    BY <2>1, <2>3, <2>5, <2>6
  <2>8. /\ \A c \in Rows : ref'[c] <= minted' /\ box'[c].ref <= minted'
        /\ revoking'.ref <= minted'
    BY <2>4, <2>5
  <2> QED BY <2>7, <2>8
<1>14. ASSUME NEW w \in Workers, Probe(w) PROVE RefsOld'
  BY <1>14 DEF Probe, Answer
<1>15. ASSUME NEW w \in Workers, CommitHealth(w) PROVE RefsOld'
  BY <1>15 DEF CommitHealth, RefAfter, NoJob
<1>16. ASSUME NEW w \in Workers, WorkerDies(w) PROVE RefsOld'
  BY <1>16 DEF WorkerDies, NoJob
<1>17. CASE UNCHANGED vars
  BY <1>17 DEF vars
<1> HIDE BoundAssumption DEF Ranges, RefsOld, Rows, ARNs, JobRecords, Entries
<1> QED
  BY <1>1, <1>2, <1>3, <1>4, <1>5, <1>6, <1>7, <1>8, <1>9, <1>10, <1>11, <1>12, <1>13,
     <1>14, <1>15, <1>16, <1>17 DEF Next, WorkerStep, DrainStep, BeginCallback, BeginRefresh

(* What a drain has deleted stays deleted: new secrets have new ARNs.        *)
LEMMA GoneStep ==
    ASSUME Ranges, RowsOK, RefsOld, Gone, [Next]_vars PROVE Gone'
<1> USE BoundAssumption
<1> USE DEF Ranges, RowsOK, RefsOld, Gone, DoneMeansGone, Pending, IsLive, Rows, ARNs, Entries, table, store
<1>1. ASSUME Initiate PROVE Gone'
  BY <1>1 DEF Initiate
<1>2. ASSUME SetDormant PROVE Gone'
  BY <1>2 DEF SetDormant
<1>3. ASSUME RestoreDormant PROVE Gone'
  BY <1>3 DEF RestoreDormant
<1>4. ASSUME CommitRevoke PROVE Gone'
  BY <1>4 DEF CommitRevoke, MarkRevoked, NoRevoke
<1>5. ASSUME DrainStart PROVE Gone'
  BY <1>5 DEF DrainStart, NoDrain, Pending
<1>6. ASSUME NEW c \in Rows, DrainRow(c) PROVE Gone'
  BY <1>6 DEF DrainRow, IsNext
<1>7. ASSUME NEW c \in Rows, DrainRowFails(c) PROVE Gone'
  BY <1>7 DEF DrainRowFails, IsNext
<1>8. ASSUME DrainCommit PROVE Gone'
  <2>1. secret' = secret /\ drain'.done = {}
    BY <1>8 DEF DrainCommit, NoDrain
  <2> HIDE DEF RowsOK, Ranges
  <2>2. ASSUME NEW c \in Rows, box'[c].state = "done" PROVE secret # box'[c].ref
    BY <1>8, <2>2, CommitKeepsEntries DEF Rows
  <2> QED BY <2>1, <2>2
<1>9. ASSUME DrainBreaks PROVE Gone'
  BY <1>9 DEF DrainBreaks, NoDrain
<1>10. ASSUME NEW c \in Rows, NEW how \in {"disconnect", "cascade"}, ReadRevoke(c, how)
      PROVE  Gone'
  BY <1>10 DEF ReadRevoke, NoRevoke
<1>11. ASSUME NEW c \in Rows, NEW w \in Workers, NEW pc \in {"consent", "probe"}, Load(w, c, pc)
      PROVE  Gone'
  BY <1>11 DEF Load, NoJob
<1>12. ASSUME NEW w \in Workers, ConsentFails(w) PROVE Gone'
  BY <1>12 DEF ConsentFails, Answer
<1>13. ASSUME NEW w \in Workers, StoreToken(w) PROVE Gone'
  BY <1>13 DEF StoreToken, Answer
<1>14. ASSUME NEW w \in Workers, Probe(w) PROVE Gone'
  BY <1>14 DEF Probe, Answer
<1>15. ASSUME NEW w \in Workers, CommitHealth(w) PROVE Gone'
  BY <1>15 DEF CommitHealth, NoJob
<1>16. ASSUME NEW w \in Workers, WorkerDies(w) PROVE Gone'
  BY <1>16 DEF WorkerDies, NoJob
<1>17. CASE UNCHANGED vars
  BY <1>17 DEF vars
<1> HIDE BoundAssumption DEF Ranges, RowsOK, RefsOld, Gone, DoneMeansGone, Pending, IsLive, Rows, ARNs, Entries
<1> QED
  BY <1>1, <1>2, <1>3, <1>4, <1>5, <1>6, <1>7, <1>8, <1>9, <1>10, <1>11, <1>12, <1>13,
     <1>14, <1>15, <1>16, <1>17 DEF Next, WorkerStep, DrainStep, BeginCallback, BeginRefresh

(* An entry that names an ARN goes on naming it.                             *)
LEMMA NamedKept ==
    ASSUME Ranges, RowsOK, [Next]_vars, NEW c \in Rows, NEW arn, NamedBefore(c, arn)
    PROVE  NamedBefore(c, arn)'
<1>1. PICK d \in 1..(c - 1) : box[d].ref = arn /\ box[d].state # "none"
  BY DEF NamedBefore
<1>2. d \in Rows
  BY BoundAssumption DEF Rows
<1>3. box'[d].ref = box[d].ref /\ box'[d].state # "none"
  <2>1. CASE CommitRevoke
    <3>1. revoking.row # d
      BY <1>1, <1>2, <2>1 DEF CommitRevoke, RowsOK, IsLive
    <3> QED BY <2>1, <3>1, <1>1, <1>2 DEF CommitRevoke, Ranges
  <2>2. CASE DrainCommit
    BY <1>1, <1>2, <2>2, CommitKeepsEntries
  <2>3. CASE ~CommitRevoke /\ ~DrainCommit
    <3>1. box' = box
      BY <2>3 DEF Next, WorkerStep, DrainStep, BeginCallback, BeginRefresh, Initiate, SetDormant,
         RestoreDormant, DrainStart, DrainRow, DrainRowFails, DrainBreaks, ReadRevoke, Load,
         ConsentFails, StoreToken, Probe, CommitHealth, WorkerDies, vars
    <3> QED BY <3>1, <1>1
  <2> QED BY <2>1, <2>2, <2>3
<1> QED BY <1>1, <1>3 DEF NamedBefore

\* An ARN the row c holds, or is about to hold.
Holds(c, arn) ==
    /\ IsLive(c) /\ arn # 0
    /\ arn = ref[c] \/ \E w \in Workers : job[w].row = c /\ job[w].new = arn

KeptFor(c, arn) == Holds(c, arn) /\ secret # arn => NamedBefore(c, arn)

AllKept == \A c \in Rows, arn \in ARNs : KeptFor(c, arn)

LEMMA KeptByRow == Ranges => (Kept <=> AllKept)
<1> SUFFICES ASSUME Ranges PROVE Kept <=> AllKept
  OBVIOUS
<1> USE DEF Ranges, AllKept, Kept, LostOnlyToPredecessor, KeptFor, Holds, NamedBefore, JobRecords
<1>1. ASSUME Kept PROVE AllKept
  BY <1>1
<1>2. ASSUME AllKept PROVE Kept
  <2>1. LostOnlyToPredecessor
    BY <1>2
  <2>2. \A c : IsLive(c) => c \in Rows
    BY BoundAssumption DEF IsLive, Rows
  <2> QED BY <1>2, <2>1, <2>2
<1> QED BY <1>1, <1>2

(* Only a drain takes the secret of the live row, for an earlier row's entry. *)
LEMMA KeptStep ==
    ASSUME Ranges, Ranges', RowsOK, RefsOld, Kept, [Next]_vars PROVE Kept'
<1> SUFFICES ASSUME NEW c \in Rows, NEW arn \in ARNs, Holds(c, arn)', secret' # arn
             PROVE  NamedBefore(c, arn)'
  <2>1. AllKept'
    BY DEF AllKept, KeptFor, Rows, ARNs
  <2>2. Ranges' => (Kept' <=> AllKept')
    BY KeptByRow, PTL
  <2> QED BY <2>1, <2>2
<1>1. ASSUME Holds(c, arn), secret # arn PROVE NamedBefore(c, arn)'
  <2>1. NamedBefore(c, arn)
    BY <1>1, KeptByRow DEF AllKept, KeptFor
  <2> QED BY <2>1, NamedKept
<1>2. CASE \E d \in Rows : DrainRow(d)
  <2>1. PICK d \in Rows : DrainRow(d)
    BY <1>2
  <2>2. Holds(c, arn)
    BY <2>1 DEF DrainRow, Holds, IsLive, table
  <2>3. CASE secret # arn
    BY <1>1, <2>2, <2>3
  <2>4. CASE secret = arn
    <3>1. arn = box[d].ref
      BY <2>1, <2>4 DEF DrainRow
    <3>2. box[d].state # "none" /\ d \in revoked
      BY <2>1 DEF DrainRow, IsNext, RowsOK, Pending
    <3>3. d \in 1..(c - 1)
      BY <2>2, <3>2, BoundAssumption DEF Holds, IsLive, Ranges, RowsOK, Rows
    <3> QED BY <3>1, <3>2, <3>3, NamedKept DEF NamedBefore
  <2> QED BY <2>3, <2>4
<1>3. CASE \E w \in Workers : StoreToken(w)
  <2>1. PICK w \in Workers : StoreToken(w)
    BY <1>3
  <2>2. job' = [job EXCEPT ![w] = [job[w] EXCEPT !.pc = "answer", !.out = "connected", !.new = secret']]
    BY <2>1 DEF StoreToken, Answer
  <2>3. \A v \in Workers : job'[v].row = job[v].row /\ job'[v].new \in {job[v].new, secret'}
    BY <2>2 DEF Ranges, JobRecords
  <2>4. Holds(c, arn)
    BY <2>1, <2>3 DEF StoreToken, Holds, IsLive, table
  <2>5. secret = 0 \/ secret' = secret
    BY <2>1 DEF StoreToken, store
  <2> QED BY <1>1, <2>4, <2>5 DEF Holds
<1>4. CASE \E w \in Workers : CommitHealth(w)
  <2>1. PICK w \in Workers : CommitHealth(w)
    BY <1>4
  <2>2. \A v \in Workers : job'[v] = job[v] \/ job'[v].new = 0
    BY <2>1 DEF CommitHealth, NoJob, Ranges
  <2>3. ref'[c] = ref[c] \/ (job[w].row = c /\ ref'[c] = job[w].new)
    BY <2>1 DEF CommitHealth, RefAfter, Ranges
  <2>4. Holds(c, arn)
    BY <2>1, <2>2, <2>3 DEF CommitHealth, Holds, IsLive
  <2>5. secret' = secret
    BY <2>1 DEF CommitHealth, store
  <2> QED BY <1>1, <2>4, <2>5
<1>5. CASE Initiate
  <2>1. c # made'
    <3>1. ASSUME c = made' PROVE FALSE
      <4>1. ref'[c] = 0
        BY <1>5, <3>1 DEF Initiate, RowsOK, Ranges
      <4>2. \A w \in Workers : job[w].row = c => job[w].new = 0
        BY <1>5, <3>1 DEF Initiate, RowsOK, Ranges
      <4> QED BY <1>5, <4>1, <4>2 DEF Initiate, Holds
    <3> QED BY <3>1
  <2>2. Holds(c, arn)
    BY <1>5, <2>1 DEF Initiate, Holds, IsLive, Ranges
  <2> QED BY <1>1, <1>5, <2>2 DEF Initiate, store
<1>6. CASE CommitRevoke
  <2>1. Holds(c, arn) /\ secret' = secret
    BY <1>6 DEF CommitRevoke, MarkRevoked, Holds, IsLive, store
  <2> QED BY <1>1, <2>1
<1>7. CASE \E d \in Rows, w \in Workers, pc \in {"consent", "probe"} : Load(w, d, pc)
  <2>1. \A v \in Workers : job'[v] = job[v] \/ job'[v].new = 0
    BY <1>7 DEF Load, Ranges
  <2>2. UNCHANGED <<made, revoked, ref, secret>>
    BY <1>7 DEF Load, table, store
  <2>3. Holds(c, arn)
    BY <2>1, <2>2 DEF Holds, IsLive
  <2> QED BY <1>1, <2>2, <2>3
<1>8. CASE \E w \in Workers : ConsentFails(w) \/ Probe(w)
  <2>1. \A v \in Workers : job'[v].row = job[v].row /\ job'[v].new \in {job[v].new, 0}
    <3>1. PICK w \in Workers, out \in Checked : Answer(w, out, 0)
      BY <1>8 DEF ConsentFails, Probe, Checked
    <3>2. job' = [job EXCEPT ![w] = [job[w] EXCEPT !.pc = "answer", !.out = out, !.new = 0]]
      BY <3>1 DEF Answer
    <3> QED BY <3>2 DEF Ranges, JobRecords
  <2>2. Holds(c, arn) /\ secret' = secret
    BY <1>8, <2>1 DEF ConsentFails, Probe, Holds, IsLive, table, store
  <2> QED BY <1>1, <2>2
<1>9. CASE \E w \in Workers : WorkerDies(w)
  <2>1. \A v \in Workers : job'[v] = job[v] \/ job'[v].new = 0
    BY <1>9 DEF WorkerDies, NoJob, Ranges
  <2>2. Holds(c, arn) /\ secret' = secret
    BY <1>9, <2>1 DEF WorkerDies, Holds, IsLive, table, store
  <2> QED BY <1>1, <2>2
<1>10. CASE \/ SetDormant \/ RestoreDormant \/ DrainStart \/ DrainCommit \/ DrainBreaks
            \/ \E d \in Rows : DrainRowFails(d)
            \/ \E d \in Rows, how \in {"disconnect", "cascade"} : ReadRevoke(d, how)
            \/ UNCHANGED vars
  <2>1. UNCHANGED <<made, revoked, ref, job, secret>>
    BY <1>10 DEF SetDormant, RestoreDormant, DrainStart, DrainCommit, DrainBreaks, DrainRowFails,
       ReadRevoke, vars, table, store
  <2> QED BY <1>1, <2>1 DEF Holds, IsLive
<1> QED
  BY <1>2, <1>3, <1>4, <1>5, <1>6, <1>7, <1>8, <1>9, <1>10
     DEF Next, WorkerStep, DrainStep, BeginCallback, BeginRefresh

(* IInv is an inductive invariant of routes, checks, revocations and drains.  *)
THEOREM IInvHolds == Spec => []IInv
<1>1. ASSUME free \in BOOLEAN, [Next]_vars PROVE (free \in BOOLEAN)'
  BY <1>1 DEF Next, WorkerStep, DrainStep, BeginCallback, BeginRefresh, Initiate, SetDormant,
     RestoreDormant, CommitRevoke, DrainStart, DrainRow, DrainRowFails, DrainCommit, DrainBreaks,
     ReadRevoke, Load, ConsentFails, StoreToken, Probe, CommitHealth, WorkerDies, vars
<1>2. IInv /\ [Next]_vars => IInv'
  BY <1>1, RangesStep, RowsStep, RefsStep, GoneStep, KeptStep DEF IInv
<1> QED BY InitIInv, <1>2, PTL DEF Spec

(* Every variable keeps its type, at most one row is live, and an entry of    *)
(* the outbox belongs to a revoked row and is counted up to MaxAttempts.      *)
THEOREM ConnectionTypes == Spec => []TypeOK
<1>1. IInv => TypeOK
  BY DEF IInv, Ranges, RowsOK, TypeOK, JobRecords, Entries
<1> QED BY IInvHolds, <1>1, PTL

(* An entry marked done has outlived its secret, for good.                    *)
THEOREM DoneIsGone == Spec => []DoneMeansGone
<1>1. IInv => DoneMeansGone
  BY DEF IInv, Gone
<1> QED BY IInvHolds, <1>1, PTL

(* A live connection loses its secret only to the entry of an earlier row     *)
(* that names the same ARN.                                                   *)
THEOREM SecretIsKept == Spec => []LostOnlyToPredecessor
<1>1. IInv => LostOnlyToPredecessor
  BY DEF IInv, Kept
<1> QED BY IInvHolds, <1>1, PTL

----------------------------------------------------------------------------
(* The secret is never forgotten *)

\* Who names the secret that is stored.
NamedByRow   == \E c \in Rows : IsLive(c) /\ ref[c] = secret
NamedByEntry == \E c \in Rows : box[c].state \in {"pending", "failed"} /\ box[c].ref = secret
NamedByJob   == \E w \in Workers : job[w].new = secret
Named        == NamedByRow \/ NamedByEntry \/ NamedByJob

\* A stored secret has the last ARN given out; what a callback stored is no
\* older than what its row held when it was loaded.
AgesOK ==
    /\ secret \in {0, minted}
    /\ \A w \in Workers : job[w].new # 0 => job[w].pc = "answer" /\ job[w].ref <= job[w].new

\* What a worker loaded from its row, a revocation read, and a revoked row
\* holds, is still named there or by the row's entry, unless it was lost.
LoadedOK ==
    \A w \in Workers :
        job[w].pc # "idle" /\ job[w].ref = secret /\ secret \notin lost \cup {0} =>
            ref[job[w].row] = secret
ReadOK == revoking # NoRevoke => ref[revoking.row] \in {revoking.ref} \cup lost
EnqueuedOK ==
    \A c \in revoked :
        \/ ref[c] \in lost \cup {0}
        \/ box[c].state # "none" /\ box[c].ref = ref[c]

Owned == AgesOK /\ LoadedOK /\ ReadOK /\ EnqueuedOK /\ NoOrphanedSecret

LEMMA InitOwned == Init => Owned
BY DEF Init, Owned, AgesOK, LoadedOK, ReadOK, EnqueuedOK, NoOrphanedSecret, NoJob

(* What Answer writes into the job of its worker.                            *)
LEMMA AnswerSets ==
    ASSUME Ranges, NEW w \in Workers, NEW out, NEW arn, Answer(w, out, arn)
    PROVE  /\ job'[w].pc = "answer" /\ job'[w].new = arn
           /\ job'[w].row = job[w].row /\ job'[w].ref = job[w].ref
           /\ \A v \in Workers : v # w => job'[v] = job[v]
<1>1. job' = [job EXCEPT ![w] = [job[w] EXCEPT !.pc = "answer", !.out = out, !.new = arn]]
  BY DEF Answer
<1> QED BY <1>1 DEF Ranges, JobRecords

(* What a commit leaves in its row is what stood there or the callback's own  *)
(* ARN, and the latter is lost if a revocation has read the row already.      *)
LEMMA CommitWrites ==
    ASSUME Ranges, RowsOK, NEW w \in Workers, CommitHealth(w)
    PROVE  /\ job[w].row \in 1..made /\ job[w].row \in Rows
           /\ ref'[job[w].row] = RefAfter(w)
           /\ \A c \in Rows : c # job[w].row => ref'[c] = ref[c]
           /\ RefAfter(w) # ref[job[w].row] =>
                  RefAfter(w) = job[w].new /\ job[w].new \notin {0, job[w].ref}
           /\ Overtaken(job[w].row) => RefAfter(w) \in {ref[job[w].row]} \cup lost'
           /\ lost \subseteq lost'
           /\ job'[w] = NoJob /\ \A v \in Workers : v # w => job'[v] = job[v]
           /\ UNCHANGED <<made, revoked, store, box, revoking>>
<1>1. job[w].row \in 1..made /\ job[w].row \in Rows
  BY BoundAssumption DEF CommitHealth, RowsOK, Ranges, Rows
<1>2. ref' = [ref EXCEPT ![job[w].row] = RefAfter(w)] /\ lost' = lost \cup Forgets(w)
  BY DEF CommitHealth
<1>3. Overtaken(job[w].row) => RefAfter(w) \in {ref[job[w].row]} \cup lost'
  BY <1>2 DEF Forgets
<1> QED BY <1>1, <1>2, <1>3 DEF CommitHealth, Ranges, RefAfter

(* A commit does not take the stored secret's name out of its row, unless it  *)
(* is lost by that: whoever writes another ARN over it is older.              *)
LEMMA CommitKeepsName ==
    ASSUME Ranges, RowsOK, RefsOld, AgesOK, NEW w \in Workers, CommitHealth(w),
           secret \notin lost' \cup {0}, NEW c \in Rows, ref[c] = secret
    PROVE  ref'[c] = secret
<1>1. CASE c # job[w].row
  BY <1>1, CommitWrites
<1>2. CASE c = job[w].row
  <2>1. SUFFICES ASSUME RefAfter(w) # secret PROVE FALSE
    BY <1>2, CommitWrites
  <2>2. RefAfter(w) = job[w].new /\ job[w].new \notin {0, job[w].ref}
    BY <1>2, <2>1, CommitWrites
  <2>3. secret = job[w].ref
    <3>1. secret \notin Forgets(w)
      BY DEF CommitHealth
    <3> QED BY <1>2, <2>1, <3>1 DEF Forgets
  <2>4. job[w].ref <= job[w].new /\ job[w].new <= minted /\ secret = minted
    BY <2>2 DEF AgesOK, RefsOld
  <2>5. job[w].ref \in Nat /\ job[w].new \in Nat /\ minted \in Nat
    BY BoundAssumption DEF Ranges, JobRecords, ARNs
  <2> QED BY <2>2, <2>3, <2>4, <2>5
<1> QED BY <1>1, <1>2

(* The steps of neither a callback nor a check.                              *)
RouteStep ==
    \/ Initiate \/ SetDormant \/ RestoreDormant \/ CommitRevoke \/ DrainStep \/ DrainBreaks
    \/ \E c \in Rows, how \in {"disconnect", "cascade"} : ReadRevoke(c, how)

LEMMA RouteSteps ==
    ASSUME RouteStep \/ UNCHANGED vars
    PROVE  UNCHANGED <<job, ref, minted, lost>> /\ secret' \in {0, secret}
<1>1. CASE \/ Initiate \/ SetDormant \/ RestoreDormant \/ CommitRevoke \/ DrainStart
           \/ DrainCommit \/ DrainBreaks \/ UNCHANGED vars
  BY <1>1 DEF Initiate, SetDormant, RestoreDormant, CommitRevoke, MarkRevoked, DrainStart,
     DrainCommit, DrainBreaks, vars, table, store
<1>2. CASE \E c \in Rows : DrainRow(c) \/ DrainRowFails(c)
  BY <1>2 DEF DrainRow, DrainRowFails, table, store
<1>3. CASE \E c \in Rows, how \in {"disconnect", "cascade"} : ReadRevoke(c, how)
  BY <1>3 DEF ReadRevoke, table, store
<1> QED BY <1>1, <1>2, <1>3 DEF RouteStep, DrainStep

LEMMA StepKinds ==
    ASSUME [Next]_vars
    PROVE  \/ RouteStep \/ UNCHANGED vars
           \/ \E w \in Workers, c \in Rows, pc \in {"consent", "probe"} : Load(w, c, pc)
           \/ \E w \in Workers : \/ ConsentFails(w) \/ Probe(w) \/ StoreToken(w)
                                 \/ CommitHealth(w) \/ WorkerDies(w)
BY DEF Next, RouteStep, WorkerStep, BeginCallback, BeginRefresh

(* Only a callback stores a token, and the last ARN is the one stored.       *)
LEMMA AgesStep ==
    ASSUME Ranges, RowsOK, RefsOld, AgesOK, [Next]_vars PROVE AgesOK'
<1> DEFINE OK(j) == j.new # 0 => j.pc = "answer" /\ j.ref <= j.new
<1>1. CASE RouteStep \/ UNCHANGED vars
  BY <1>1, RouteSteps DEF AgesOK
<1>2. CASE \E w \in Workers, c \in Rows, pc \in {"consent", "probe"} : Load(w, c, pc)
  <2>1. PICK w \in Workers, c \in Rows, pc \in {"consent", "probe"} : Load(w, c, pc)
    BY <1>2
  <2>2. job'[w].new = 0 /\ \A v \in Workers : v # w => job'[v] = job[v]
    BY <2>1 DEF Load, Ranges
  <2> QED BY <2>1, <2>2 DEF Load, store, AgesOK
<1>3. CASE \E w \in Workers : ConsentFails(w) \/ Probe(w)
  <2>1. PICK w \in Workers : ConsentFails(w) \/ Probe(w)
    BY <1>3
  <2>2. PICK out : Answer(w, out, 0)
    BY <2>1 DEF ConsentFails, Probe
  <2> QED BY <2>1, <2>2, AnswerSets DEF ConsentFails, Probe, store, AgesOK
<1>4. CASE \E w \in Workers : StoreToken(w)
  <2>1. PICK w \in Workers : StoreToken(w)
    BY <1>4
  <2>2. Answer(w, "connected", secret')
    BY <2>1 DEF StoreToken
  <2>3. secret' = minted' /\ minted' \in Nat /\ minted <= minted'
    BY <2>1, BoundAssumption DEF StoreToken, store, AgesOK, Ranges, ARNs
  <2>4. job[w].ref \in Nat /\ job[w].ref <= minted'
    BY <2>3, BoundAssumption DEF RefsOld, Ranges, JobRecords, ARNs
  <2>5. OK(job'[w])
    BY <2>2, <2>3, <2>4, AnswerSets
  <2>6. \A v \in Workers : v # w => OK(job'[v])
    BY <2>2, AnswerSets DEF AgesOK
  <2> QED BY <2>3, <2>5, <2>6 DEF AgesOK
<1>5. CASE \E w \in Workers : CommitHealth(w)
  <2>1. PICK w \in Workers : CommitHealth(w)
    BY <1>5
  <2> QED BY <2>1, CommitWrites DEF AgesOK, NoJob, store
<1>6. CASE \E w \in Workers : WorkerDies(w)
  <2>1. PICK w \in Workers : WorkerDies(w)
    BY <1>6
  <2>2. job'[w] = NoJob /\ \A v \in Workers : v # w => job'[v] = job[v]
    BY <2>1 DEF WorkerDies, Ranges
  <2> QED BY <2>1, <2>2 DEF WorkerDies, store, AgesOK, NoJob
<1> QED BY <1>1, <1>2, <1>3, <1>4, <1>5, <1>6, StepKinds

(* What a worker has loaded stays in its row while it is the stored secret.  *)
LEMMA LoadedStep ==
    ASSUME Ranges, RowsOK, RefsOld, AgesOK, LoadedOK, [Next]_vars PROVE LoadedOK'
<1> SUFFICES ASSUME NEW v \in Workers, job'[v].pc # "idle", job'[v].ref = secret',
                    secret' \notin lost' \cup {0}
             PROVE  ref'[job'[v].row] = secret'
  BY DEF LoadedOK
<1>1. CASE RouteStep \/ UNCHANGED vars
  BY <1>1, RouteSteps DEF LoadedOK
<1>2. CASE \E w \in Workers, c \in Rows, pc \in {"consent", "probe"} : Load(w, c, pc)
  <2>1. PICK w \in Workers, c \in Rows, pc \in {"consent", "probe"} : Load(w, c, pc)
    BY <1>2
  <2>2. /\ job'[w].row = c /\ job'[w].ref = ref[c]
        /\ \A u \in Workers : u # w => job'[u] = job[u]
    BY <2>1 DEF Load, Ranges
  <2>3. UNCHANGED <<ref, secret, lost>>
    BY <2>1 DEF Load, table, store
  <2> QED BY <2>2, <2>3 DEF LoadedOK
<1>3. CASE \E w \in Workers : ConsentFails(w) \/ Probe(w) \/ StoreToken(w)
  <2>1. PICK w \in Workers : ConsentFails(w) \/ Probe(w) \/ StoreToken(w)
    BY <1>3
  <2>2. PICK out, arn : Answer(w, out, arn)
    BY <2>1 DEF ConsentFails, Probe, StoreToken
  <2>3. job[v].pc # "idle" /\ job'[v].row = job[v].row /\ job'[v].ref = job[v].ref
    BY <2>1, <2>2, AnswerSets DEF ConsentFails, Probe, StoreToken
  <2>4. ref' = ref /\ lost' = lost
    BY <2>1 DEF ConsentFails, Probe, StoreToken, table
  <2>5. secret' = secret
    <3>1. CASE ConsentFails(w) \/ Probe(w)
      BY <3>1 DEF ConsentFails, Probe, store
    <3>2. CASE StoreToken(w) /\ secret = 0
      <4>1. job[v].ref <= minted /\ job[v].ref = minted + 1
        BY <2>3, <3>2 DEF StoreToken, RefsOld
      <4> QED BY <4>1, BoundAssumption DEF Ranges, ARNs
    <3>3. CASE StoreToken(w) /\ secret # 0
      BY <3>3 DEF StoreToken, store
    <3> QED BY <2>1, <3>1, <3>2, <3>3
  <2> QED BY <2>3, <2>4, <2>5 DEF LoadedOK
<1>4. CASE \E w \in Workers : CommitHealth(w)
  <2>1. PICK w \in Workers : CommitHealth(w)
    BY <1>4
  <2>2. job'[v] = job[v] /\ secret' = secret /\ lost \subseteq lost'
    BY <2>1, CommitWrites DEF NoJob, store
  <2>3. ref[job[v].row] = secret
    BY <2>2 DEF LoadedOK
  <2>4. job[v].row \in Rows
    BY <2>2, BoundAssumption DEF RowsOK, Ranges, Rows
  <2> QED BY <2>1, <2>2, <2>3, <2>4, CommitKeepsName
<1>5. CASE \E w \in Workers : WorkerDies(w)
  <2>1. PICK w \in Workers : WorkerDies(w)
    BY <1>5
  <2>2. job'[w] = NoJob /\ \A u \in Workers : u # w => job'[u] = job[u]
    BY <2>1 DEF WorkerDies, Ranges
  <2>3. ref' = ref /\ secret' = secret /\ lost \subseteq lost'
    BY <2>1 DEF WorkerDies, table, store
  <2> QED BY <2>2, <2>3 DEF LoadedOK, NoJob
<1> QED BY <1>1, <1>2, <1>3, <1>4, <1>5, StepKinds

(* A commit changes the row of a revocation, or a revoked row, only to an ARN *)
(* that is lost.                                                             *)
LEMMA CommitLoses ==
    ASSUME Ranges, RowsOK, NEW w \in Workers, CommitHealth(w), NEW c \in Rows, Overtaken(c)
    PROVE  ref'[c] \in {ref[c]} \cup lost'
BY CommitWrites

(* What a revocation has read is what its row holds.                         *)
LEMMA ReadStep ==
    ASSUME Ranges, RowsOK, ReadOK, [Next]_vars PROVE ReadOK'
<1> SUFFICES ASSUME revoking' # NoRevoke
             PROVE  ref'[revoking'.row] \in {revoking'.ref} \cup lost'
  BY DEF ReadOK
<1>1. CASE \E w \in Workers : CommitHealth(w)
  <2>1. PICK w \in Workers : CommitHealth(w)
    BY <1>1
  <2>2. revoking' = revoking /\ lost \subseteq lost'
    BY <2>1, CommitWrites
  <2>3. revoking.row \in Rows /\ Overtaken(revoking.row)
    BY <2>2, BoundAssumption DEF RowsOK, IsLive, Ranges, Rows, Overtaken
  <2> QED BY <2>1, <2>2, <2>3, CommitLoses DEF ReadOK
<1>2. CASE \E c \in Rows, how \in {"disconnect", "cascade"} : ReadRevoke(c, how)
  BY <1>2 DEF ReadRevoke, table
<1>3. CASE CommitRevoke
  BY <1>3 DEF CommitRevoke
<1>4. CASE \/ Initiate \/ SetDormant \/ RestoreDormant \/ DrainStep \/ DrainBreaks
           \/ UNCHANGED vars
  <2>1. UNCHANGED <<ref, lost, revoking>>
    BY <1>4 DEF Initiate, SetDormant, RestoreDormant, DrainStep, DrainStart, DrainCommit,
       DrainBreaks, DrainRow, DrainRowFails, vars, table
  <2> QED BY <2>1 DEF ReadOK
<1>5. CASE \/ \E w \in Workers, c \in Rows, pc \in {"consent", "probe"} : Load(w, c, pc)
           \/ \E w \in Workers : ConsentFails(w) \/ Probe(w) \/ StoreToken(w) \/ WorkerDies(w)
  <2>1. UNCHANGED <<ref, revoking>> /\ lost \subseteq lost'
    BY <1>5 DEF Load, ConsentFails, StoreToken, Probe, WorkerDies, table
  <2> QED BY <2>1 DEF ReadOK
<1> QED BY <1>1, <1>2, <1>3, <1>4, <1>5, StepKinds DEF RouteStep

(* What a revoked row holds is what its entry names.                         *)
LEMMA EnqueuedStep ==
    ASSUME Ranges, RowsOK, ReadOK, EnqueuedOK, [Next]_vars PROVE EnqueuedOK'
<1> DEFINE OK(r, b, l) == r \in l \cup {0} \/ (b.state # "none" /\ b.ref = r)
<1>1. ASSUME UNCHANGED <<revoked, ref, box>>, lost \subseteq lost' PROVE EnqueuedOK'
  BY <1>1 DEF EnqueuedOK
<1>2. CASE CommitRevoke
  <2> DEFINE c == revoking.row
  <2>1. /\ revoked' = revoked \cup {c} /\ UNCHANGED <<ref, lost>>
        /\ revoking # NoRevoke /\ c \in Rows
    BY <1>2, BoundAssumption DEF CommitRevoke, MarkRevoked, RowsOK, IsLive, Ranges, Rows
  <2>2. \A d \in Rows : d # c => box'[d] = box[d]
    BY <1>2 DEF CommitRevoke, Ranges
  <2>3. revoking.ref # 0 => box'[c].state = "pending" /\ box'[c].ref = revoking.ref
    BY <1>2, <2>1 DEF CommitRevoke, Ranges
  <2>4. OK(ref[c], box'[c], lost)
    BY <2>1, <2>3 DEF ReadOK
  <2>5. ASSUME NEW d \in revoked, d # c
        PROVE  OK(ref[d], box'[d], lost)
    <3>1. d \in Rows
      BY BoundAssumption DEF Ranges, Rows
    <3>2. box'[d] = box[d]
      BY <2>2, <2>5, <3>1
    <3> QED BY <3>2 DEF EnqueuedOK
  <2>6. ASSUME NEW d \in revoked'
        PROVE  OK(ref'[d], box'[d], lost')
    <3>1. CASE d = c
      BY <2>1, <2>4, <3>1
    <3>2. CASE d # c
      BY <2>1, <2>5, <3>2
    <3> QED BY <3>1, <3>2
  <2> QED BY <2>6 DEF EnqueuedOK
<1>3. CASE DrainCommit
  <2>1. UNCHANGED <<revoked, ref, lost>> /\ revoked \subseteq Rows
    BY <1>3, BoundAssumption DEF DrainCommit, table, Ranges, Rows
  <2> QED BY <1>3, <2>1, CommitKeepsEntries DEF EnqueuedOK
<1>4. CASE \E w \in Workers : CommitHealth(w)
  <2>1. PICK w \in Workers : CommitHealth(w)
    BY <1>4
  <2>2. UNCHANGED <<revoked, box>> /\ lost \subseteq lost'
    BY <2>1, CommitWrites
  <2>3. \A c \in revoked : ref'[c] \in {ref[c]} \cup lost'
    BY <2>1, CommitLoses, BoundAssumption DEF Ranges, Rows, Overtaken
  <2> QED BY <2>2, <2>3 DEF EnqueuedOK
<1>5. CASE \/ Initiate \/ SetDormant \/ RestoreDormant \/ DrainStart \/ DrainBreaks
           \/ UNCHANGED vars
           \/ \E c \in Rows : DrainRow(c) \/ DrainRowFails(c)
           \/ \E c \in Rows, how \in {"disconnect", "cascade"} : ReadRevoke(c, how)
  <2>1. UNCHANGED <<revoked, ref, box, lost>>
    BY <1>5 DEF Initiate, SetDormant, RestoreDormant, DrainStart, DrainBreaks, DrainRow,
       DrainRowFails, ReadRevoke, vars, table
  <2> QED BY <1>1, <2>1
<1>6. CASE \/ \E w \in Workers, c \in Rows, pc \in {"consent", "probe"} : Load(w, c, pc)
           \/ \E w \in Workers : ConsentFails(w) \/ Probe(w) \/ StoreToken(w) \/ WorkerDies(w)
  <2>1. UNCHANGED <<revoked, ref, box>> /\ lost \subseteq lost'
    BY <1>6 DEF Load, ConsentFails, StoreToken, Probe, WorkerDies, table
  <2> QED BY <1>1, <2>1
<1> HIDE DEF OK
<1> QED BY <1>2, <1>3, <1>4, <1>5, <1>6, StepKinds DEF RouteStep, DrainStep

(* The step of each actor hands the name of the secret on to the next.       *)
LEMMA NamedStep ==
    ASSUME Ranges, RowsOK, RefsOld, Gone, Owned, [Next]_vars, EnqueuedOK', Gone', Ranges',
           secret' \notin lost' \cup {0}
    PROVE  Named'
<1> USE DEF Owned
<1>0. ASSUME NEW c \in 1..made', ref'[c] = secret'
      PROVE  (NamedByRow \/ NamedByEntry)'
  <2>1. c \in Rows
    BY BoundAssumption DEF Ranges, Rows
  <2>2. CASE c \notin revoked'
    BY <1>0, <2>1, <2>2 DEF NamedByRow, IsLive
  <2>3. CASE c \in revoked'
    <3>1. box'[c].state # "none" /\ box'[c].ref = secret'
      BY <1>0, <2>3 DEF EnqueuedOK
    <3>2. box'[c].state # "done"
      BY <2>1, <3>1 DEF Gone, DoneMeansGone
    <3>3. box'[c].state \in {"pending", "failed"}
      BY <2>1, <3>1, <3>2 DEF Ranges, Entries
    <3> QED BY <2>1, <3>1, <3>3 DEF NamedByEntry
  <2> QED BY <2>2, <2>3
<1>1. secret \notin lost \cup {0} => Named
  BY DEF NoOrphanedSecret, Named, NamedByRow, NamedByEntry, NamedByJob
<1>2. CASE Initiate
  <2>1. ~NamedByRow /\ UNCHANGED <<lost, secret, box, job>>
    BY <1>2 DEF Initiate, NamedByRow, store
  <2> QED BY <1>1, <2>1 DEF Named, NamedByEntry, NamedByJob
<1>3. CASE \/ SetDormant \/ RestoreDormant \/ DrainStart \/ DrainBreaks \/ UNCHANGED vars
           \/ \E c \in Rows : DrainRowFails(c)
           \/ \E c \in Rows, how \in {"disconnect", "cascade"} : ReadRevoke(c, how)
  <2>1. UNCHANGED <<made, revoked, ref, lost, secret, box, job>>
    BY <1>3 DEF SetDormant, RestoreDormant, DrainStart, DrainBreaks, DrainRowFails, ReadRevoke,
       vars, table, store
  <2> QED BY <1>1, <2>1 DEF Named, NamedByRow, IsLive, NamedByEntry, NamedByJob
<1>4. ASSUME NEW c \in Rows, DrainRow(c) PROVE Named'
  <2>1. UNCHANGED <<made, revoked, ref, lost, box, job>> /\ secret' = secret
    BY <1>4 DEF DrainRow, table
  <2> QED BY <1>1, <2>1 DEF Named, NamedByRow, IsLive, NamedByEntry, NamedByJob
<1>5. CASE DrainCommit
  <2>1. UNCHANGED <<made, revoked, ref, lost, secret, job>>
    BY <1>5 DEF DrainCommit, table, store
  <2>2. ASSUME NEW c \in Rows, box[c].state \in {"pending", "failed"}, box[c].ref = secret
        PROVE  box'[c].state \in {"pending", "failed"} /\ box'[c].ref = secret
    <3>1. c \notin drain.done
      BY <2>2 DEF Gone
    <3>2. box'[c] = IF c \in drain.failed THEN FailedEntry(box[c]) ELSE box[c]
      BY <1>5, <3>1 DEF DrainCommit
    <3>3. c \in drain.failed => box[c].state = "pending"
      BY DEF RowsOK, Pending
    <3> QED BY <2>2, <3>2, <3>3, EntryKept DEF Ranges
  <2>3. NamedByEntry => NamedByEntry'
    BY <2>1, <2>2 DEF NamedByEntry
  <2> QED BY <1>1, <2>1, <2>3 DEF Named, NamedByRow, IsLive, NamedByJob
<1>6. CASE CommitRevoke
  <2>1. /\ UNCHANGED <<made, ref, lost, secret, job>>
        /\ revoked' = revoked \cup {revoking.row} /\ IsLive(revoking.row)
    BY <1>6 DEF CommitRevoke, MarkRevoked, RowsOK, store
  <2>2. NamedByRow => (NamedByRow \/ NamedByEntry)'
    <3> SUFFICES ASSUME NEW c \in Rows, IsLive(c), ref[c] = secret
                 PROVE  (NamedByRow \/ NamedByEntry)'
      BY DEF NamedByRow
    <3>1. secret' \notin lost' \cup {0} /\ c \in 1..made' /\ ref'[c] = secret'
      BY <2>1 DEF IsLive
    <3> QED BY <1>0, <3>1
  <2>3. NamedByEntry => NamedByEntry'
    <3>1. revoking.row \in Rows /\ box[revoking.row].state = "none"
      BY <2>1, BoundAssumption DEF RowsOK, IsLive, Ranges, Rows
    <3>2. \A d \in Rows : d # revoking.row => box'[d] = box[d]
      BY <1>6 DEF CommitRevoke, Ranges
    <3> QED BY <2>1, <3>1, <3>2 DEF NamedByEntry
  <2> QED BY <1>1, <2>1, <2>2, <2>3 DEF Named, NamedByJob
<1>7. CASE \E w \in Workers, c \in Rows, pc \in {"consent", "probe"} : Load(w, c, pc)
  <2>1. PICK w \in Workers, c \in Rows, pc \in {"consent", "probe"} : Load(w, c, pc)
    BY <1>7
  <2>2. UNCHANGED <<made, revoked, ref, lost, secret, box>>
    BY <2>1 DEF Load, table, store
  <2>3. job[w].new = 0 /\ \A v \in Workers : v # w => job'[v] = job[v]
    BY <2>1 DEF Load, RowsOK, Ranges
  <2>4. NamedByJob => NamedByJob'
    BY <2>2, <2>3 DEF NamedByJob
  <2> QED BY <1>1, <2>2, <2>4 DEF Named, NamedByRow, IsLive, NamedByEntry
<1>8. CASE \E w \in Workers : ConsentFails(w) \/ Probe(w)
  <2>1. PICK w \in Workers : ConsentFails(w) \/ Probe(w)
    BY <1>8
  <2>2. UNCHANGED <<made, revoked, ref, lost, secret, box>>
    BY <2>1 DEF ConsentFails, Probe, table, store
  <2>3. job[w].new = 0 /\ \A v \in Workers : v # w => job'[v] = job[v]
    <3>1. PICK out : Answer(w, out, 0)
      BY <2>1 DEF ConsentFails, Probe
    <3>2. job[w].pc # "answer"
      BY <2>1 DEF ConsentFails, Probe
    <3> QED BY <3>1, <3>2, AnswerSets DEF AgesOK
  <2>4. NamedByJob => NamedByJob'
    BY <2>2, <2>3 DEF NamedByJob
  <2> QED BY <1>1, <2>2, <2>4 DEF Named, NamedByRow, IsLive, NamedByEntry
<1>9. CASE \E w \in Workers : StoreToken(w)
  BY <1>9, AnswerSets DEF StoreToken, Named, NamedByJob
<1>10. ASSUME NEW w \in Workers, job[w].pc # "idle", job'[w] = NoJob,
              \A v \in Workers : v # w => job'[v] = job[v],
              UNCHANGED <<made, revoked, secret, box>>, lost \subseteq lost',
              \A c \in Rows : ref[c] = secret => ref'[c] = secret,
              job[w].new = secret => job[w].ref = secret \/ ref'[job[w].row] = secret
       PROVE  Named'
  <2>1. job[w].row \in 1..made /\ 1..made \subseteq Rows
    BY <1>10, BoundAssumption DEF RowsOK, Ranges, Rows
  <2>2. CASE \E c \in 1..made : ref[c] = secret
    <3>1. PICK c \in 1..made' : ref'[c] = secret'
      BY <1>10, <2>1, <2>2
    <3> QED BY <1>0, <3>1 DEF Named
  <2>3. CASE ref'[job[w].row] = secret
    <3>1. job[w].row \in 1..made' /\ ref'[job[w].row] = secret'
      BY <1>10, <2>1, <2>3
    <3> QED BY <1>0, <3>1 DEF Named
  <2>4. CASE NamedByEntry
    BY <1>10, <2>4 DEF Named, NamedByEntry
  <2>5. CASE NamedByJob
    <3>1. PICK v \in Workers : job[v].new = secret
      BY <2>5 DEF NamedByJob
    <3>2. v # w => NamedByJob'
      BY <1>10, <3>1 DEF NamedByJob
    <3>3. v = w /\ job[w].ref = secret => ref[job[w].row] = secret
      BY <1>10 DEF LoadedOK
    <3> QED BY <1>10, <2>1, <2>2, <2>3, <3>1, <3>2, <3>3 DEF Named
  <2>6. NamedByRow => \E c \in 1..made : ref[c] = secret
    BY DEF NamedByRow, IsLive
  <2> QED BY <1>1, <1>10, <2>2, <2>4, <2>5, <2>6 DEF Named
<1>11. CASE \E w \in Workers : CommitHealth(w)
  <2>1. PICK w \in Workers : CommitHealth(w)
    BY <1>11
  <2>2. secret' = secret /\ lost \subseteq lost' /\ job[w].pc # "idle"
    BY <2>1, CommitWrites DEF store, CommitHealth
  <2>3. \A c \in Rows : ref[c] = secret => ref'[c] = secret
    BY <2>1, <2>2, CommitKeepsName
  <2>4. job[w].new = secret => job[w].ref = secret \/ ref'[job[w].row] = secret
    BY <2>1, <2>2, CommitWrites DEF RefAfter
  <2> QED BY <1>10, <2>1, <2>2, <2>3, <2>4, CommitWrites
<1>12. CASE \E w \in Workers : WorkerDies(w)
  <2>1. PICK w \in Workers : WorkerDies(w)
    BY <1>12
  <2>2. UNCHANGED <<made, revoked, ref, secret, box>> /\ lost \subseteq lost'
    BY <2>1 DEF WorkerDies, table, store
  <2>3. job'[w] = NoJob /\ \A v \in Workers : v # w => job'[v] = job[v]
    BY <2>1 DEF WorkerDies, Ranges
  <2>4. job[w].new = secret => job[w].ref = secret
    BY <2>1, <2>2 DEF WorkerDies
  <2>5. job[w].pc # "idle"
    BY <2>1 DEF WorkerDies
  <2> QED BY <1>10, <2>2, <2>3, <2>4, <2>5
<1> QED
  BY <1>2, <1>3, <1>4, <1>5, <1>6, <1>7, <1>8, <1>9, <1>11, <1>12, StepKinds
     DEF RouteStep, DrainStep

(* However many callbacks, checks, revocations and drains overlap, and        *)
(* whatever of them is killed: a stored secret that no callback lost is named *)
(* by the live row, by an entry still to be settled by the drain or by hand,  *)
(* or by a running callback.                                                  *)
THEOREM SecretIsNamed == Spec => []NoOrphanedSecret
<1>1. IInv /\ Owned /\ [Next]_vars => Owned'
  <2> SUFFICES ASSUME IInv, Owned, [Next]_vars PROVE Owned'
    OBVIOUS
  <2>1. AgesOK' /\ LoadedOK' /\ ReadOK' /\ EnqueuedOK'
    BY AgesStep, LoadedStep, ReadStep, EnqueuedStep DEF IInv, Owned
  <2>2. Ranges' /\ RowsOK' /\ Gone'
    BY RangesStep, RowsStep, GoneStep DEF IInv
  <2>3. secret' \notin lost' \cup {0} => Named'
    BY <2>1, <2>2, NamedStep DEF IInv
  <2>4. NoOrphanedSecret'
    BY <2>3 DEF NoOrphanedSecret, Named, NamedByRow, NamedByEntry, NamedByJob
  <2> QED BY <2>1, <2>4 DEF Owned
<1>2. Owned => NoOrphanedSecret
  BY DEF Owned
<1> QED BY InitOwned, IInvHolds, <1>1, <1>2, PTL DEF Spec
=============================================================================
