------------------------- MODULE KnowledgeIngestion -------------------------
(***************************************************************************)
(* One knowledge source: uploaded and re-ingested by the dashboard,        *)
(* embedded by a Celery task, deleted by its owner or along with its       *)
(* instance, and retrieved by the chat path.                               *)
(*                                                                         *)
(* The routes of app/api/v1/admin_knowledge.py commit the row and only     *)
(* then enqueue.  app/worker/tasks/embed_source.py runs in several         *)
(* processes, acknowledges late, and is delivered again when a run takes   *)
(* longer than the visibility timeout (30 s) or its process dies.  A run   *)
(* makes four commits: it marks the row, clears the source's chunks, adds  *)
(* the new chunks and marks the row ready, or marks it failed.             *)
(*                                                                         *)
(* The chunks of a run are one copy of the document.  Stamps tell who set  *)
(* soft_deleted_at: the owner's deletion of the source, or the cascade of  *)
(* the instance's deletion, which comes later.                             *)
(***************************************************************************)
EXTENDS Naturals, FiniteSets

CONSTANTS
    Workers,     \* processes of the Celery worker (--concurrency)
    MaxRetries,  \* max_retries of embed_source
    MaxReingest, \* bound: re-ingests asked for
    MaxTimeouts, \* bound: runs that outlast the visibility timeout
    MaxDeletes,  \* bound: deletions of the instance
    MaxFaults    \* bound: killed processes, lost enqueues, unwritten failures

ASSUME WorkerAssumption == IsFiniteSet(Workers) /\ Workers # {}
ASSUME BoundAssumption  ==
    {MaxRetries, MaxReingest, MaxTimeouts, MaxDeletes, MaxFaults} \subseteq Nat

Statuses == {"pending", "processing", "ready", "failed"}
Stamps   == {"live", "owner", "instance"}
Tries    == 0..MaxRetries

VARIABLES
    \* table knowledge_sources, and the row of the instance
    status,   \* ingestion_status; "none": not uploaded yet
    source,   \* stamp of the source's soft_deleted_at
    instance, \* the instance is active
    \* table knowledge_chunks, by the process that added them
    copies,   \* how many copies of the document
    stamp,    \* stamp of their soft_deleted_at
    \* a route between its commit and its enqueue
    sending,
    \* the queue: visible messages by their number of retries
    queue,
    job,      \* each process: how far its run is, on what message
    \* bounds and history
    asked, outlasted, deleted, faults,
    stranded, \* the last message or the record of a failure was lost
    together  \* how many runs were embedding when the chunks were last cleared

rows     == <<status, source, instance>>
chunks   == <<copies, stamp>>
counters == <<asked, outlasted, deleted>>
history  == <<stranded, together>>
vars     == <<rows, chunks, sending, queue, job, counters, faults, history>>

Idle == [pc |-> "idle", try |-> 0, seen |-> "none"]

Init ==
    /\ status = "none" /\ source = "live" /\ instance = TRUE
    /\ copies = [w \in Workers |-> 0]
    /\ stamp  = [w \in Workers |-> "live"]
    /\ sending = FALSE
    /\ queue = [t \in Tries |-> 0]
    /\ job = [w \in Workers |-> Idle]
    /\ asked = 0 /\ outlasted = 0 /\ deleted = 0
    /\ faults = 0 /\ stranded = FALSE /\ together = 0

----------------------------------------------------------------------------
(* The routes *)

\* create_source, up to its commit.
Create ==
    /\ status = "none" /\ instance
    /\ status' = "pending" /\ sending' = TRUE
    /\ UNCHANGED <<source, instance, chunks, queue, job, counters, faults, history>>

\* update_source with reingest, up to its commit: bump_version.
Reingest ==
    /\ status # "none" /\ source = "live" /\ instance /\ ~sending
    /\ asked < MaxReingest /\ asked' = asked + 1
    /\ status' = "processing" /\ sending' = TRUE
    /\ UNCHANGED <<source, instance, chunks, queue, job, outlasted, deleted, faults, history>>

\* _enqueue_embed_or_warn
Enqueue ==
    /\ sending /\ sending' = FALSE
    /\ queue' = [queue EXCEPT ![0] = @ + 1]
    /\ UNCHANGED <<rows, chunks, job, counters, faults, history>>

\* The broker refuses, or the server dies: nothing enqueues the row later.
EnqueueFails ==
    /\ sending /\ faults < MaxFaults
    /\ sending' = FALSE /\ faults' = faults + 1 /\ stranded' = TRUE
    /\ UNCHANGED <<rows, chunks, queue, job, counters, together>>

\* What a deletion stamps: what is not stamped yet.
Stamped(s, by) == IF s = "live" THEN by ELSE s

\* soft_delete with soft_delete_chunks_for_source_id, and
\* soft_delete_for_instance.
Hide(by) ==
    /\ source' = Stamped(source, by)
    /\ stamp'  = [w \in Workers |-> IF copies[w] = 0 THEN "live" ELSE Stamped(stamp[w], by)]

\* delete_source; asked again, it hides what a late run has added.
DeleteSource ==
    /\ status # "none" /\ instance
    /\ Hide("owner")
    /\ UNCHANGED <<status, instance, copies, sending, queue, job, counters, faults, history>>

\* delete_by_pk
DeleteInstance ==
    /\ instance /\ deleted < MaxDeletes
    /\ instance' = FALSE /\ deleted' = deleted + 1
    /\ Hide("instance")
    /\ UNCHANGED <<status, copies, sending, queue, job, asked, outlasted, faults, history>>

\* Mutant of Restored: the date of the deletion is not compared.
Restored_any(s) == "live"

\* restore_for_instance: rows stamped at the deletion of the instance or later.
Restored(s) == IF s = "instance" THEN "live" ELSE s

\* restore_by_pk
RestoreInstance ==
    /\ ~instance /\ instance' = TRUE
    /\ source' = Restored(source)
    /\ stamp'  = [w \in Workers |-> Restored(stamp[w])]
    /\ UNCHANGED <<status, copies, sending, queue, job, counters, faults, history>>

----------------------------------------------------------------------------
(* The task embed_source *)

Goto(w, pc) == job' = [job EXCEPT ![w].pc = pc]
Running(w)  == job[w].pc # "idle"

\* The runs between their two commits: the chunks cleared, none added yet.
Embedding == {w \in Workers : job[w].pc = "cleared"}

Take(t) == [queue EXCEPT ![t] = @ - 1]
Put(t)  == [queue EXCEPT ![t] = @ + 1]

\* Mutant of IsDone: a row in processing is left to the run that marked it.
IsDone_orProcessing == source # "live" \/ status \in {"ready", "processing"}

\* A deleted or ready source is a no-op.
IsDone == source # "live" \/ status = "ready"

\* The message is taken and the row loaded; its columns are remembered.  The
\* message of a source that is deleted with its instance is gone for good.
Receive(w, t) ==
    /\ ~Running(w) /\ queue[t] > 0
    /\ queue' = Take(t)
    /\ stranded' = (stranded \/ source = "instance")
    /\ job' = IF IsDone THEN job
              ELSE [job EXCEPT ![w] = [pc |-> "loaded", try |-> t, seen |-> status]]
    /\ UNCHANGED <<rows, chunks, sending, counters, faults, together>>

\* mark_status("processing") and the commit: nothing is written over the
\* status when the loaded row had it already.
MarkProcessing(w) ==
    /\ job[w].pc = "loaded"
    /\ status' = IF job[w].seen = "processing" THEN status ELSE "processing"
    /\ Goto(w, "marked")
    /\ UNCHANGED <<source, instance, chunks, sending, queue, counters, faults, history>>

\* Mutant of Clear: nothing is deleted.
Clear_nothing(w) ==
    /\ job[w].pc = "marked"
    /\ Goto(w, "cleared")
    /\ UNCHANGED <<rows, chunks, sending, queue, counters, faults, history>>

\* _clear_existing_chunks_for_source and its commit: every chunk, also those
\* that are soft-deleted.
Clear(w) ==
    /\ job[w].pc = "marked"
    /\ copies' = [v \in Workers |-> 0]
    /\ stamp'  = [v \in Workers |-> "live"]
    /\ Goto(w, "cleared")
    /\ together' = Cardinality(Embedding')
    /\ UNCHANGED <<rows, sending, queue, counters, faults, stranded>>

\* The document is embedded; add_chunks and mark_status("ready") in one commit.
\* Neither looks at the row as it is now; the session still holds "processing",
\* so "ready" is always written.
Persist(w) ==
    /\ job[w].pc = "cleared"
    /\ copies' = [copies EXCEPT ![w] = @ + 1]
    /\ stamp'  = [stamp EXCEPT ![w] = "live"]
    /\ status' = "ready"
    /\ job' = [job EXCEPT ![w] = Idle]
    /\ UNCHANGED <<source, instance, sending, queue, counters, faults, history>>

\* A permanent failure, or a transient one after the last retry, ends the
\* message; a transient one is published again.
Ended(w, kind) == kind = "permanent" \/ job[w].try = MaxRetries
Retried(w, kind) == IF Ended(w, kind) THEN queue ELSE Put(job[w].try + 1)

\* Mutant of Fail: a failure that is going to be retried is not written.
Fail_quiet(w, kind) ==
    /\ job[w].pc \in {"marked", "cleared"}
    /\ status' = IF Ended(w, kind) THEN "failed" ELSE status
    /\ queue' = Retried(w, kind)
    /\ job' = [job EXCEPT ![w] = Idle]
    /\ UNCHANGED <<source, instance, chunks, sending, counters, faults, history>>

\* _mark_failed_swallow, then the retry and the acknowledgement.
Fail(w, kind) ==
    /\ job[w].pc \in {"marked", "cleared"}
    /\ status' = "failed"
    /\ queue' = Retried(w, kind)
    /\ job' = [job EXCEPT ![w] = Idle]
    /\ UNCHANGED <<source, instance, chunks, sending, counters, faults, history>>

\* The failure itself cannot be written, which is swallowed.
FailUnwritten(w, kind) ==
    /\ Running(w) /\ faults < MaxFaults
    /\ faults' = faults + 1
    /\ stranded' = (stranded \/ Ended(w, kind))
    /\ queue' = Retried(w, kind)
    /\ job' = [job EXCEPT ![w] = Idle]
    /\ UNCHANGED <<rows, chunks, sending, counters, together>>

\* The process dies; its message is visible again (task_reject_on_worker_lost).
Dies(w) ==
    /\ Running(w) /\ faults < MaxFaults
    /\ faults' = faults + 1
    /\ queue' = Put(job[w].try)
    /\ job' = [job EXCEPT ![w] = Idle]
    /\ UNCHANGED <<rows, chunks, sending, counters, history>>

\* The run outlasts the visibility timeout: its message is delivered again.
Outlast(w) ==
    /\ Running(w) /\ outlasted < MaxTimeouts
    /\ outlasted' = outlasted + 1
    /\ queue' = Put(job[w].try)
    /\ UNCHANGED <<rows, chunks, sending, job, asked, deleted, faults, history>>

----------------------------------------------------------------------------
Progress(w) ==
    \/ MarkProcessing(w) \/ Clear(w) \/ Persist(w)
    \/ \E kind \in {"transient", "permanent"} : Fail(w, kind)

Next ==
    \/ Create \/ Reingest \/ Enqueue \/ EnqueueFails
    \/ DeleteSource \/ DeleteInstance \/ RestoreInstance
    \/ \E w \in Workers :
        \/ Progress(w) \/ Dies(w) \/ Outlast(w)
        \/ \E t \in Tries : Receive(w, t)
        \/ \E kind \in {"transient", "permanent"} : FailUnwritten(w, kind)

Spec == Init /\ [][Next]_vars

\* A route that has committed goes on; a run goes on; a process that is free
\* takes a message.
FairSpec ==
    /\ Spec
    /\ WF_vars(Enqueue)
    /\ \A w \in Workers : WF_vars(Progress(w)) /\ WF_vars(\E t \in Tries : Receive(w, t))

----------------------------------------------------------------------------
\* search_similar: live chunks of a live and ready source.
Retrievable ==
    /\ status = "ready" /\ source = "live"
    /\ \E w \in Workers : copies[w] > 0 /\ stamp[w] = "live"

(* The variables keep their types; a copy carries the stamp of a deletion      *)
(* only as long as that deletion stands.                                      *)
TypeOK ==
    /\ status \in Statuses \cup {"none"} /\ source \in Stamps
    /\ instance \in BOOLEAN /\ sending \in BOOLEAN /\ stranded \in BOOLEAN
    /\ copies \in [Workers -> Nat] /\ stamp \in [Workers -> Stamps]
    /\ queue \in [Tries -> Nat]
    /\ job \in [Workers -> [pc : {"idle", "loaded", "marked", "cleared"},
                            try : Tries, seen : Statuses \cup {"none"}]]
    /\ asked \in 0..MaxReingest /\ outlasted \in 0..MaxTimeouts
    /\ deleted \in 0..MaxDeletes /\ faults \in 0..MaxFaults
    /\ together \in 0..Cardinality(Workers)
    /\ source = "instance" => ~instance
    /\ \A w \in Workers : stamp[w] = "owner" => source = "owner"
    /\ \A w \in Workers : stamp[w] = "instance" => ~instance

(* A source never has more copies of its document in place than runs were     *)
(* embedding it when it was last cleared: retries, redeliveries, crashes and  *)
(* re-ingests that follow each other leave one, which is what the clearing is *)
(* for (_clear_existing_chunks_for_source), and only runs that overlap, which *)
(* both clear before either adds, leave more.                                 *)
CopiesNeedOverlap ==
    /\ \A w \in Workers : copies[w] <= 1
    /\ Cardinality({w \in Workers : copies[w] > 0}) <= together

(* A source shown as ready is retrieved: it has chunks that are not hidden,   *)
(* unless another run is still at work on it or a process was killed.         *)
ReadyIsServed ==
    status = "ready" /\ source = "live" /\ faults = 0 =>
        Retrievable \/ \E w \in Workers : Running(w)

(* What its owner deleted is never retrieved again: not through a run that    *)
(* adds chunks late, not by deleting and restoring the instance.              *)
DeletedStaysDeleted == [][source = "owner" => ~Retrievable']_vars

(* An ingestion that was enqueued comes to an end: the source is ready,       *)
(* failed or deleted, whatever the order of retries and redeliveries.         *)
Unsettled == status \in {"pending", "processing"} /\ source = "live" /\ ~stranded
IngestionSettles == Unsettled ~> ~Unsettled

=============================================================================
