------------------------- MODULE IngestionProofs -------------------------
(***************************************************************************)
(* The safety of KnowledgeIngestion for any number of worker processes,    *)
(* retries, redeliveries, re-ingests, deletions and faults.                *)
(*                                                                         *)
(* A run adds its copy only after it has deleted every copy, so the copies *)
(* in place and the runs about to add one are, together, no more than the  *)
(* runs that were under way at the last deletion.  A ready source has a    *)
(* copy unless a run is under way that has deleted it: such a run ends by  *)
(* adding its own or by taking "ready" away, or it is killed.              *)
(***************************************************************************)
EXTENDS KnowledgeIngestion, FiniteSetTheorems, TLAPS

\* The type invariant in two halves: numbers and records, flags and stamps.
Numbers ==
    /\ status \in Statuses \cup {"none"}
    /\ copies \in [Workers -> Nat]
    /\ queue \in [Tries -> Nat]
    /\ job \in [Workers -> [pc : {"idle", "loaded", "marked", "cleared"},
                            try : Tries, seen : Statuses \cup {"none"}]]
    /\ asked \in 0..MaxReingest /\ outlasted \in 0..MaxTimeouts
    /\ deleted \in 0..MaxDeletes /\ faults \in 0..MaxFaults

Flags == instance \in BOOLEAN /\ sending \in BOOLEAN /\ stranded \in BOOLEAN

Marks ==
    /\ source \in Stamps /\ stamp \in [Workers -> Stamps]
    /\ source = "instance" <=> (source # "owner" /\ ~instance)
    /\ \A w \in Workers : stamp[w] = "owner" => source = "owner"
    /\ \A w \in Workers : stamp[w] = "instance" => ~instance

\* A process has its copy in place or is about to add it, not both; those that
\* do either were all embedding at the last Clear.
Holders == {w \in Workers : copies[w] > 0 \/ job[w].pc = "cleared"}
CopiesOK ==
    /\ \A w \in Workers : copies[w] <= 1 /\ (job[w].pc = "cleared" => copies[w] = 0)
    /\ Cardinality(Holders) <= together
    /\ together \in 0..Cardinality(Workers)

\* Why a ready source has a copy.
ReadyHasCopy ==
    status = "ready" /\ faults = 0 =>
        \/ \E w \in Workers : copies[w] > 0
        \/ \E w \in Workers : Running(w)

IInv == Numbers /\ Flags /\ Marks /\ CopiesOK /\ ReadyHasCopy

LEMMA InitIInv == Init => IInv
<1> SUFFICES ASSUME Init PROVE IInv
  OBVIOUS
<1> USE BoundAssumption DEF Init, Idle
<1>1. Numbers
  <2>1. {asked, outlasted, deleted, faults} = {0}
    OBVIOUS
  <2>2. asked \in 0..MaxReingest /\ outlasted \in 0..MaxTimeouts
    BY <2>1
  <2>3. deleted \in 0..MaxDeletes /\ faults \in 0..MaxFaults
    BY <2>1
  <2>4. 0 \in Tries
    BY DEF Tries
  <2> QED BY <2>2, <2>3, <2>4 DEF Numbers, Statuses
<1>2. Flags /\ Marks
  BY DEF Flags, Marks, Stamps
<1>3. CopiesOK /\ ReadyHasCopy
  <2>1. Holders = {}
    BY DEF Holders
  <2>2. Cardinality({}) = 0 /\ Cardinality(Workers) \in Nat
    BY FS_EmptySet, FS_CardinalityType, WorkerAssumption
  <2> QED BY <2>1, <2>2 DEF CopiesOK, ReadyHasCopy
<1> QED BY <1>1, <1>2, <1>3 DEF IInv

(* The message of a failed run is published again only below MaxRetries.     *)
LEMMA RetriedType ==
    ASSUME Numbers, NEW w \in Workers, NEW kind
    PROVE  Retried(w, kind) \in [Tries -> Nat]
<1>1. job[w].try \in 0..MaxRetries /\ MaxRetries \in Nat
  BY BoundAssumption DEF Numbers, Tries
<1>2. ~Ended(w, kind) => job[w].try + 1 \in Tries
  BY <1>1 DEF Ended, Tries
<1>3. \A t \in Tries : Put(t) \in [Tries -> Nat]
  BY DEF Numbers, Put
<1> QED BY <1>2, <1>3 DEF Retried, Numbers

LEMMA NumbersStep == ASSUME Numbers, [Next]_vars PROVE Numbers'
<1> USE BoundAssumption
<1> USE DEF Numbers, Goto, Running, Idle
<1>1. ASSUME Create PROVE Numbers'
  BY <1>1 DEF Create, chunks, counters, Statuses
<1>2. ASSUME Reingest PROVE Numbers'
  BY <1>2 DEF Reingest, chunks, Statuses
<1>3. ASSUME Enqueue PROVE Numbers'
  BY <1>3 DEF Enqueue, rows, chunks, counters, Tries
<1>4. ASSUME EnqueueFails PROVE Numbers'
  BY <1>4 DEF EnqueueFails, rows, chunks, counters
<1>5. ASSUME DeleteSource PROVE Numbers'
  BY <1>5 DEF DeleteSource, counters
<1>6. ASSUME DeleteInstance PROVE Numbers'
  BY <1>6 DEF DeleteInstance
<1>7. ASSUME RestoreInstance PROVE Numbers'
  BY <1>7 DEF RestoreInstance, counters
<1>8. ASSUME NEW w \in Workers, NEW t \in Tries, Receive(w, t) PROVE Numbers'
  BY <1>8 DEF Receive, Take, rows, chunks, counters
<1>9. ASSUME NEW w \in Workers, MarkProcessing(w) PROVE Numbers'
  BY <1>9 DEF MarkProcessing, chunks, counters, Statuses
<1>10. ASSUME NEW w \in Workers, Clear(w) PROVE Numbers'
  BY <1>10 DEF Clear, rows, counters
<1>11. ASSUME NEW w \in Workers, Persist(w) PROVE Numbers'
  BY <1>11 DEF Persist, counters, Statuses, Tries
<1>12. ASSUME NEW w \in Workers, NEW kind, Fail(w, kind) PROVE Numbers'
  <2>1. queue' \in [Tries -> Nat]
    BY <1>12, RetriedType DEF Fail
  <2> QED BY <1>12, <2>1 DEF Fail, chunks, counters, Statuses, Tries
<1>13. ASSUME NEW w \in Workers, NEW kind, FailUnwritten(w, kind) PROVE Numbers'
  <2>1. queue' \in [Tries -> Nat]
    BY <1>13, RetriedType DEF FailUnwritten
  <2> QED BY <1>13, <2>1 DEF FailUnwritten, rows, chunks, counters, Tries
<1>14. ASSUME NEW w \in Workers, Dies(w) PROVE Numbers'
  BY <1>14 DEF Dies, Put, rows, chunks, counters, Tries
<1>15. ASSUME NEW w \in Workers, Outlast(w) PROVE Numbers'
  BY <1>15 DEF Outlast, Put, rows, chunks
<1>16. CASE UNCHANGED vars
  BY <1>16 DEF vars, rows, chunks, counters
<1> HIDE BoundAssumption DEF Numbers, Goto, Running, Idle
<1> QED
  BY <1>1, <1>2, <1>3, <1>4, <1>5, <1>6, <1>7, <1>8, <1>9, <1>10, <1>11, <1>12,
     <1>13, <1>14, <1>15, <1>16 DEF Next, Progress

(* The flags stay flags, and a copy's stamp never outlives its deletion.     *)
LEMMA MarksStep ==
    ASSUME Flags, Marks, [Next]_vars PROVE Flags' /\ Marks'
<1> USE DEF Flags, Marks, Stamps, Goto, history
<1>1. ASSUME Create \/ Reingest PROVE Flags' /\ Marks'
  BY <1>1 DEF Create, Reingest, chunks
<1>2. ASSUME Enqueue \/ EnqueueFails PROVE Flags' /\ Marks'
  <2>1. sending' = FALSE /\ stranded' \in {stranded, TRUE}
    BY <1>2 DEF Enqueue, EnqueueFails
  <2>2. UNCHANGED <<rows, chunks>>
    BY <1>2 DEF Enqueue, EnqueueFails
  <2> QED BY <2>1, <2>2 DEF rows, chunks
<1>3. ASSUME DeleteSource PROVE Flags' /\ Marks'
  BY <1>3 DEF DeleteSource, Hide, Stamped
<1>4. ASSUME DeleteInstance PROVE Flags' /\ Marks'
  BY <1>4 DEF DeleteInstance, Hide, Stamped
<1>5. ASSUME RestoreInstance PROVE Flags' /\ Marks'
  BY <1>5 DEF RestoreInstance, Restored
<1>6. ASSUME NEW w \in Workers, NEW t \in Tries, Receive(w, t) PROVE Flags' /\ Marks'
  BY <1>6 DEF Receive, rows, chunks
<1>7. ASSUME NEW w \in Workers, Progress(w) PROVE Flags' /\ Marks'
  BY <1>7 DEF Progress, MarkProcessing, Clear, Persist, Fail, rows, chunks
<1>8. ASSUME NEW w \in Workers, Dies(w) \/ Outlast(w) PROVE Flags' /\ Marks'
  BY <1>8 DEF Dies, Outlast, rows, chunks
<1>9. ASSUME NEW w \in Workers, NEW kind, FailUnwritten(w, kind) PROVE Flags' /\ Marks'
  BY <1>9 DEF FailUnwritten, rows, chunks
<1>10. CASE UNCHANGED vars
  BY <1>10 DEF vars, rows, chunks
<1> QED
  BY <1>1, <1>2, <1>3, <1>4, <1>5, <1>6, <1>7, <1>8, <1>9, <1>10 DEF Next

(* Sets of processes are finite.                                             *)
LEMMA Counting ==
    ASSUME NEW S \in SUBSET Workers, NEW T \in SUBSET S
    PROVE  Cardinality(S) \in Nat /\ Cardinality(T) \in Nat /\ Cardinality(T) <= Cardinality(S)
BY FS_Subset, FS_CardinalityType, WorkerAssumption

(* Only Persist adds a copy, after its process has deleted all: whoever held  *)
(* a place in the count still holds it, and Clear counts anew.               *)
LEMMA CopiesStep ==
    ASSUME Numbers, CopiesOK, [Next]_vars PROVE CopiesOK'
<1> DEFINE Each == \A w \in Workers : copies[w] <= 1 /\ (job[w].pc = "cleared" => copies[w] = 0)
<1>1. ASSUME Each', Holders' \subseteq Holders, together' = together PROVE CopiesOK'
  <2>1. Cardinality(Holders') <= Cardinality(Holders) /\ Cardinality(Holders) \in Nat
        /\ Cardinality(Holders') \in Nat
    BY <1>1, Counting DEF Holders
  <2>2. together \in Nat /\ Cardinality(Holders) <= together
    BY Counting DEF CopiesOK
  <2> QED BY <1>1, <2>1, <2>2 DEF CopiesOK
<1>2. ASSUME NEW w \in Workers, Clear(w) PROVE CopiesOK'
  <2>1. Holders' = Embedding' /\ Holders' \in SUBSET Workers
    BY <1>2 DEF Clear, Holders, Embedding
  <2>2. together' = Cardinality(Holders')
    BY <1>2, <2>1 DEF Clear
  <2>3. Each'
    BY <1>2 DEF Clear
  <2>4. Cardinality(Holders') \in Nat /\ Cardinality(Workers) \in Nat
        /\ Cardinality(Holders') <= Cardinality(Workers)
    BY <2>1, Counting
  <2> QED BY <2>2, <2>3, <2>4 DEF CopiesOK
<1> USE DEF Numbers, Running, Goto, Idle, history
<1>3. ASSUME Create \/ Reingest PROVE CopiesOK'
  BY <1>1, <1>3 DEF Create, Reingest, chunks, Holders, CopiesOK
<1>4. ASSUME Enqueue \/ EnqueueFails PROVE CopiesOK'
  BY <1>1, <1>4 DEF Enqueue, EnqueueFails, chunks, Holders, CopiesOK
<1>5. ASSUME DeleteSource \/ DeleteInstance \/ RestoreInstance PROVE CopiesOK'
  BY <1>1, <1>5 DEF DeleteSource, DeleteInstance, RestoreInstance, Holders, CopiesOK
<1>6. ASSUME NEW w \in Workers, NEW t \in Tries, Receive(w, t) PROVE CopiesOK'
  BY <1>1, <1>6 DEF Receive, chunks, Holders, CopiesOK
<1>7. ASSUME NEW w \in Workers, MarkProcessing(w) PROVE CopiesOK'
  BY <1>1, <1>7 DEF MarkProcessing, chunks, Holders, CopiesOK
<1>8. ASSUME NEW w \in Workers, Persist(w) PROVE CopiesOK'
  BY <1>1, <1>8 DEF Persist, Holders, CopiesOK
<1>9. ASSUME NEW w \in Workers, NEW kind, Fail(w, kind) PROVE CopiesOK'
  BY <1>1, <1>9 DEF Fail, chunks, Holders, CopiesOK
<1>10. ASSUME NEW w \in Workers, Dies(w) \/ Outlast(w) PROVE CopiesOK'
  BY <1>1, <1>10 DEF Dies, Outlast, chunks, Holders, CopiesOK
<1>11. ASSUME NEW w \in Workers, NEW kind, FailUnwritten(w, kind) PROVE CopiesOK'
  BY <1>1, <1>11 DEF FailUnwritten, chunks, Holders, CopiesOK
<1>12. CASE UNCHANGED vars
  BY <1>1, <1>12 DEF vars, chunks, Holders, CopiesOK
<1> QED
  BY <1>2, <1>3, <1>4, <1>5, <1>6, <1>7, <1>8, <1>9, <1>10, <1>11, <1>12 DEF Next, Progress

(* Only Clear deletes copies, and its run goes on.                           *)
LEMMA ReadyStep ==
    ASSUME Numbers, CopiesOK, ReadyHasCopy, [Next]_vars PROVE ReadyHasCopy'
<1> USE BoundAssumption
<1> USE DEF Numbers, CopiesOK, ReadyHasCopy, Running, Goto, Idle
<1>1. ASSUME Create \/ Reingest PROVE ReadyHasCopy'
  BY <1>1 DEF Create, Reingest, chunks
<1>2. ASSUME Enqueue \/ EnqueueFails PROVE ReadyHasCopy'
  BY <1>2 DEF Enqueue, EnqueueFails, rows, chunks
<1>3. ASSUME DeleteSource \/ DeleteInstance \/ RestoreInstance PROVE ReadyHasCopy'
  BY <1>3 DEF DeleteSource, DeleteInstance, RestoreInstance
<1>4. ASSUME NEW w \in Workers, NEW t \in Tries, Receive(w, t) PROVE ReadyHasCopy'
  BY <1>4 DEF Receive, rows, chunks
<1>5. ASSUME NEW w \in Workers, MarkProcessing(w) PROVE ReadyHasCopy'
  BY <1>5 DEF MarkProcessing, chunks
<1>6. ASSUME NEW w \in Workers, Clear(w) PROVE ReadyHasCopy'
  BY <1>6 DEF Clear, rows
<1>7. ASSUME NEW w \in Workers, Persist(w) PROVE ReadyHasCopy'
  BY <1>7 DEF Persist
<1>8. ASSUME NEW w \in Workers, NEW kind, Fail(w, kind) PROVE ReadyHasCopy'
  BY <1>8 DEF Fail, chunks
<1>9. ASSUME NEW w \in Workers, Dies(w) PROVE ReadyHasCopy'
  BY <1>9 DEF Dies, rows, chunks
<1>10. ASSUME NEW w \in Workers, Outlast(w) PROVE ReadyHasCopy'
  BY <1>10 DEF Outlast, rows, chunks
<1>11. ASSUME NEW w \in Workers, NEW kind, FailUnwritten(w, kind) PROVE ReadyHasCopy'
  BY <1>11 DEF FailUnwritten, rows, chunks
<1>12. CASE UNCHANGED vars
  BY <1>12 DEF vars, rows, chunks
<1> QED
  BY <1>1, <1>2, <1>3, <1>4, <1>5, <1>6, <1>7, <1>8, <1>9, <1>10, <1>11, <1>12
     DEF Next, Progress

(* IInv is an inductive invariant of routes, task and deletions.             *)
THEOREM IInvHolds == Spec => []IInv
<1>1. IInv /\ [Next]_vars => IInv'
  BY NumbersStep, MarksStep, CopiesStep, ReadyStep DEF IInv
<1> QED BY InitIInv, <1>1, PTL DEF Spec

(* The variables keep their types, no message is counted below zero, and a   *)
(* copy carries a deletion's stamp only while that deletion stands.          *)
THEOREM IngestionTypes == Spec => []TypeOK
<1>1. IInv => TypeOK
  BY DEF IInv, Numbers, Flags, Marks, CopiesOK, TypeOK
<1> QED BY IInvHolds, <1>1, PTL

(* However often a message is delivered and a run is retried or killed, there *)
(* are no more copies of the document than runs were embedding it when it was *)
(* last cleared: one, when runs do not overlap.                               *)
THEOREM CopiesAreBounded == Spec => []CopiesNeedOverlap
<1>1. ASSUME IInv PROVE CopiesNeedOverlap
  <2>1. {w \in Workers : copies[w] > 0} \in SUBSET Holders /\ Holders \in SUBSET Workers
    BY DEF Holders
  <2>2. Cardinality({w \in Workers : copies[w] > 0}) <= Cardinality(Holders)
        /\ Cardinality({w \in Workers : copies[w] > 0}) \in Nat /\ Cardinality(Holders) \in Nat
    BY <2>1, Counting
  <2>3. together \in Nat /\ Cardinality(Holders) <= together
    BY <1>1, Counting DEF IInv, CopiesOK
  <2> QED BY <1>1, <2>2, <2>3 DEF IInv, CopiesOK, CopiesNeedOverlap
<1> QED BY IInvHolds, <1>1, PTL

(* A ready source is retrieved unless a run is still at work on it: of two   *)
(* overlapping runs, the one that cleared the other's chunks adds its own or *)
(* takes "ready" away.                                                       *)
THEOREM ReadyServed == Spec => []ReadyIsServed
<1>1. ASSUME IInv PROVE ReadyIsServed
  <2> SUFFICES ASSUME status = "ready", source = "live", faults = 0,
                      ~\E w \in Workers : Running(w)
               PROVE  Retrievable
    BY DEF ReadyIsServed
  <2>1. PICK w \in Workers : copies[w] > 0
    BY <1>1 DEF IInv, ReadyHasCopy
  <2>2. stamp[w] = "live"
    BY <1>1 DEF IInv, Marks, Flags, Stamps
  <2> QED BY <2>1, <2>2 DEF Retrievable
<1> QED BY IInvHolds, <1>1, PTL

(* What its owner deleted is never retrieved again, whatever a late run adds *)
(* and however often the instance is deleted and restored.                   *)
THEOREM DeletedIsGone == Spec => DeletedStaysDeleted
<1>1. ASSUME IInv, [Next]_vars, source = "owner" PROVE source' = "owner"
  BY <1>1 DEF Next, Progress, Create, Reingest, Enqueue, EnqueueFails, DeleteSource,
     DeleteInstance, RestoreInstance, Hide, Stamped, Restored, Receive, MarkProcessing,
     Clear, Persist, Fail, FailUnwritten, Dies, Outlast, vars, rows
<1>2. IInv /\ [Next]_vars => [source = "owner" => ~Retrievable']_vars
  BY <1>1 DEF Retrievable
<1> QED BY IInvHolds, <1>2, PTL DEF Spec, DeletedStaysDeleted
=============================================================================
