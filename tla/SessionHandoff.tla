--------------------------- MODULE SessionHandoff ---------------------------
(***************************************************************************)
(* One chat session that the assistant, its customer's turns, the owner    *)
(* at the dashboard and the inactivity sweep all write to, and the         *)
(* escalations that call the owner.                                        *)
(*                                                                         *)
(* A turn (services/chat_service.py, runtime/orchestrator.py) looks at     *)
(* control_mode once, answers much later, and may escalate on the way: it  *)
(* records the event, delivers it to every contact with retries of up to   *)
(* 30 s and 2 min, marks it delivered, and, if the customer asked for a    *)
(* human, hands the session over.  All this happens before the customer    *)
(* gets the turn's reply.                                                  *)
(*                                                                         *)
(* Every audit row is chained to the last one under one advisory lock of   *)
(* the whole platform (repositories/audit_chain.py), which a transaction   *)
(* takes at its first audit row and keeps to its end.  A delivery is one   *)
(* transaction around all its sends; it takes the lock with the first      *)
(* contact's audit row.  The other writers take it and commit at once.     *)
(* Retries of one contact, and whether a send succeeds, are not told       *)
(* apart: the event ends as "delivered" either way.                        *)
(***************************************************************************)
EXTENDS Integers, FiniteSets

CONSTANTS
    Turns,      \* server threads that handle this session's messages
    Desks,      \* server threads that handle the owner's requests
    Sweepers,   \* worker processes that run the sweep
    Contacts,   \* number of contacts an escalation is delivered to
    Timeout,    \* inactivity timeout of the session's channel, in ticks
    MaxEvents,  \* bound: escalations recorded in the session
    MaxFaults,  \* bound: killed turns, lost legs, gates that cannot read
    NoTurn      \* the audit chain's lock is held by no delivery

ASSUME ActorAssumption ==
    /\ IsFiniteSet(Turns) /\ NoTurn \notin Turns
    /\ IsFiniteSet(Desks) /\ IsFiniteSet(Sweepers)
ASSUME NumberAssumption ==
    /\ Contacts \in Nat \ {0} /\ Timeout \in Nat /\ MaxEvents \in Nat
    /\ MaxFaults \in Nat

Events  == 1..MaxEvents
None    == 0                 \* no event
Signals == {"human", "other"} \* explicit_human_request; every other signal

VARIABLES
    \* the row of the session
    status,  \* "active" or "ended"
    mode,    \* control_mode
    idle,    \* age of updated_at, up to Timeout
    \* table escalation_events
    event,   \* delivery_status of each event, "none" before it is recorded
    signal,  \* its signal
    \* turns
    pc, sig, esc, left,
    chain,   \* the delivery that holds the audit chain's lock
    \* the dashboard and the sweep
    desk,    \* a request that has read control_mode and will change it
    acking,  \* the event whose row an acknowledgement has updated
    sweep,   \* sweeps that have found the session due
    \* bound and history
    faults,
    over,    \* replies of the assistant while a human is in control
    stale    \* the sweeps in whose back the row has been written

session == <<status, mode, idle>>
table   == <<event, signal>>
turn    == <<pc, sig, esc, left>>
vars    == <<session, table, turn, chain, desk, acking, sweep, faults, over, stale>>

Init ==
    /\ status = "active" /\ mode = "luciel" /\ idle = 0
    /\ event  = [e \in Events |-> "none"]
    /\ signal = [e \in Events |-> "none"]
    /\ pc   = [t \in Turns |-> "idle"] /\ sig  = [t \in Turns |-> "none"]
    /\ esc  = [t \in Turns |-> None]   /\ left = [t \in Turns |-> 0]
    /\ chain = NoTurn
    /\ desk = [d \in Desks |-> "idle"] /\ acking = None /\ sweep = {}
    /\ faults = 0 /\ over = 0 /\ stale = {}

\* The row is written by somebody other than the sweeps under way.
Touched == stale' = sweep

Goto(t, where) == pc' = [pc EXCEPT ![t] = where]
ChainFree      == chain = NoTurn

----------------------------------------------------------------------------
\* Mutant of Receive: the gate is not asked.
Receive_ungated(t) ==
    /\ pc[t] = "idle" /\ Goto(t, "answering")
    /\ UNCHANGED <<session, table, sig, esc, left, chain, desk, acking, sweep, faults, over, stale>>

(* The turn.  The user's message is stored, whatever the session's status   *)
(* is: a session is looked up by its id.  Then the gate is read, once; with *)
(* a human in control the turn ends there, without a model call.            *)
Receive(t) ==
    /\ pc[t] = "idle"
    /\ \/ mode = "luciel" /\ Goto(t, "answering")
       \/ mode = "human_controlled" /\ UNCHANGED pc
    /\ UNCHANGED <<session, table, sig, esc, left, chain, desk, acking, sweep, faults, over, stale>>

\* _is_session_human_controlled cannot read the row, and answers False.
GateFailsOpen(t) ==
    /\ pc[t] = "idle" /\ faults < MaxFaults
    /\ faults' = faults + 1 /\ Goto(t, "answering")
    /\ UNCHANGED <<session, table, sig, esc, left, chain, desk, acking, sweep, over, stale>>

Fresh(e) == event[e] = "none" /\ \A d \in 1..(e - 1) : event[d] # "none"

\* record_escalation: the event and its audit row, in one commit.
Escalate(t, s, e) ==
    /\ pc[t] = "answering" /\ Fresh(e) /\ ChainFree
    /\ event'  = [event EXCEPT ![e] = "pending"]
    /\ signal' = [signal EXCEPT ![e] = s]
    /\ sig' = [sig EXCEPT ![t] = s] /\ esc' = [esc EXCEPT ![t] = e]
    /\ left' = [left EXCEPT ![t] = Contacts]
    /\ Goto(t, "delivering")
    /\ UNCHANGED <<session, chain, desk, acking, sweep, faults, over, stale>>

\* The event cannot be stored; the contacts are notified all the same.
EscalateUnrecorded(t, s) ==
    /\ pc[t] = "answering" /\ faults < MaxFaults
    /\ sig' = [sig EXCEPT ![t] = s] /\ left' = [left EXCEPT ![t] = Contacts]
    /\ faults' = faults + 1 /\ Goto(t, "delivering")
    /\ UNCHANGED <<session, table, esc, chain, desk, acking, sweep, over, stale>>

\* Attempts, fallback to the owner's e-mail (which may be a contact's own),
\* and the audit row.
Notify(t) ==
    /\ pc[t] = "delivering" /\ left[t] > 0 /\ chain \in {NoTurn, t}
    /\ chain' = t /\ left' = [left EXCEPT ![t] = @ - 1]
    /\ UNCHANGED <<session, table, pc, sig, esc, desk, acking, sweep, faults, over, stale>>

AfterDelivery(t) == IF sig[t] = "human" THEN "parking" ELSE "replying"

\* Mutant of EndDelivery: the transaction stays open.
EndDelivery_open(t) ==
    /\ pc[t] = "delivering" /\ left[t] = 0
    /\ Goto(t, AfterDelivery(t))
    /\ UNCHANGED <<session, signal, sig, esc, left, chain, desk, acking, sweep, faults, over, stale>>

\* The transaction ends, by commit or rollback, and with it the lock.
EndDelivery(t) ==
    /\ pc[t] = "delivering" /\ left[t] = 0
    /\ chain' = NoTurn /\ Goto(t, AfterDelivery(t))
    /\ UNCHANGED <<session, signal, sig, esc, left, desk, acking, sweep, faults, over, stale>>

\* uq_escalation_events_idempotency: an event of the same signal is settled.
Settled == {"delivered", "acked"}
Taken(e) == \E d \in Events \ {e} : event[d] \in Settled /\ signal[d] = signal[e]

\* An acknowledgement that has not committed holds the event's row, or its key.
Contended(e) == acking # None /\ signal[acking] = signal[e]

MarkDelivered(t) ==
    /\ esc[t] # None
    /\ ~Contended(esc[t]) /\ ~Taken(esc[t])
    /\ event' = [event EXCEPT ![esc[t]] = "delivered"]
    /\ EndDelivery(t)

\* The UPDATE is refused, swallowed, and the commit rolls everything back; or
\* there is no event to mark, and the session is closed without a commit.
LeaveUnmarked(t) ==
    /\ esc[t] # None => Taken(esc[t]) /\ ~Contended(esc[t])
    /\ UNCHANGED event
    /\ EndDelivery(t)

\* _set_session_human_controlled_best_effort; an updated row is young again.
Park(t) ==
    /\ pc[t] = "parking" /\ ChainFree
    /\ IF mode = "luciel"
         THEN mode' = "human_controlled" /\ idle' = 0 /\ Touched
         ELSE UNCHANGED <<mode, idle, stale>>
    /\ Goto(t, "replying")
    /\ UNCHANGED <<status, table, sig, esc, left, chain, desk, acking, sweep, faults, over>>

ParkFails(t) ==
    /\ pc[t] = "parking" /\ faults < MaxFaults
    /\ faults' = faults + 1 /\ Goto(t, "replying")
    /\ UNCHANGED <<session, table, sig, esc, left, chain, desk, acking, sweep, over, stale>>

Finished(t) ==
    /\ Goto(t, "idle") /\ sig' = [sig EXCEPT ![t] = "none"]
    /\ esc' = [esc EXCEPT ![t] = None] /\ left' = [left EXCEPT ![t] = 0]

\* A reply to the customer counts as an interruption while a human is in
\* control, except the line that announces the human.
Interrupts(t) == mode = "human_controlled" /\ sig[t] # "human"

Reply(t) ==
    /\ pc[t] \in {"answering", "replying"}
    /\ over' = IF Interrupts(t) THEN over + 1 ELSE over
    /\ Finished(t)
    /\ UNCHANGED <<session, table, chain, desk, acking, sweep, faults, stale>>

\* The process is killed, or the turn raises: its transaction is rolled back.
TurnDies(t) ==
    /\ pc[t] # "idle" /\ faults < MaxFaults /\ faults' = faults + 1
    /\ Finished(t)
    /\ chain' = IF chain = t THEN NoTurn ELSE chain
    /\ UNCHANGED <<session, table, desk, acking, sweep, over, stale>>

----------------------------------------------------------------------------
(* The owner: take over, hand back, acknowledge an event.                   *)
Wanted == IF mode = "luciel" THEN "take_over" ELSE "hand_back"

Ask(d) ==
    /\ desk[d] = "idle" /\ desk' = [desk EXCEPT ![d] = Wanted]
    /\ UNCHANGED <<session, table, turn, chain, acking, sweep, faults, over, stale>>

\* Only the columns that the request has changed are written.
TakeOver(d) ==
    /\ desk[d] = "take_over" /\ ChainFree
    /\ mode' = "human_controlled" /\ idle' = 0 /\ Touched
    /\ desk' = [desk EXCEPT ![d] = "idle"]
    /\ UNCHANGED <<status, table, turn, chain, acking, sweep, faults, over>>

HandBack(d) ==
    /\ desk[d] = "hand_back" /\ ChainFree
    /\ mode' = "luciel" /\ idle' = 0 /\ over' = 0 /\ Touched
    /\ desk' = [desk EXCEPT ![d] = "idle"]
    /\ UNCHANGED <<status, table, turn, chain, acking, sweep, faults>>

\* The UPDATE.  A key that another event has taken fails the request.
BeginAck(e) ==
    /\ acking = None /\ event[e] \in {"pending", "delivered"} /\ ~Taken(e)
    /\ acking' = e
    /\ UNCHANGED <<session, table, turn, chain, desk, sweep, faults, over, stale>>

\* The audit row, and the commit.
CommitAck ==
    /\ acking # None /\ ChainFree
    /\ event' = [event EXCEPT ![acking] = "acked"] /\ acking' = None
    /\ UNCHANGED <<session, signal, turn, chain, desk, sweep, faults, over, stale>>

(* The acknowledgement has the row (or its key) and waits for the chain; a  *)
(* delivery has the chain and waits for the row.  Postgres ends one of them. *)
Deadlocked(t) ==
    /\ pc[t] = "delivering" /\ left[t] = 0 /\ chain = t
    /\ esc[t] # None /\ Contended(esc[t])

AbortAck(t) ==
    /\ Deadlocked(t) /\ acking' = None
    /\ UNCHANGED <<session, table, turn, chain, desk, sweep, faults, over, stale>>

AbortDelivery(t) == Deadlocked(t) /\ EndDelivery(t) /\ UNCHANGED event

----------------------------------------------------------------------------
(* The sweep: every five minutes, over the sessions that are active.        *)
\* Mutant of Due: a session under human control is left alone.
Due_luciel == status = "active" /\ idle = Timeout /\ mode = "luciel"

\* Mutant of Due: a session whose age is one tick short is taken too.
Due_early == status = "active" /\ idle + 1 >= Timeout

Due == status = "active" /\ idle = Timeout

FindDue(s) ==
    /\ s \notin sweep /\ Due /\ sweep' = sweep \cup {s}
    /\ UNCHANGED <<session, table, turn, chain, desk, acking, faults, over, stale>>

Finalize(s) ==
    /\ s \in sweep /\ ChainFree
    /\ status' = "ended" /\ idle' = 0
    /\ sweep' = sweep \ {s} /\ stale' = sweep \ {s}
    /\ UNCHANGED <<mode, table, turn, chain, desk, acking, faults, over>>

SweepFails(s) ==
    /\ s \in sweep /\ faults < MaxFaults
    /\ sweep' = sweep \ {s} /\ stale' = stale \ {s} /\ faults' = faults + 1
    /\ UNCHANGED <<session, table, turn, chain, desk, acking, over>>

\* Messages do not touch the session's row.  The age of a row that has ended
\* is of no interest to anybody.
Tick ==
    /\ status = "active" /\ idle < Timeout /\ idle' = idle + 1
    /\ UNCHANGED <<status, mode, table, turn, chain, desk, acking, sweep, faults, over, stale>>

----------------------------------------------------------------------------
Work(t) ==
    \/ \E s \in Signals, e \in Events : Escalate(t, s, e)
    \/ Notify(t) \/ MarkDelivered(t) \/ LeaveUnmarked(t)
    \/ Park(t) \/ Reply(t)

TurnFault(t) ==
    \/ GateFailsOpen(t) \/ ParkFails(t) \/ TurnDies(t)
    \/ \E s \in Signals : EscalateUnrecorded(t, s)

Next ==
    \/ \E t \in Turns :
        Receive(t) \/ Work(t) \/ TurnFault(t) \/ AbortAck(t) \/ AbortDelivery(t)
    \/ \E d \in Desks : Ask(d) \/ TakeOver(d) \/ HandBack(d)
    \/ \E e \in Events : BeginAck(e)
    \/ CommitAck
    \/ \E s \in Sweepers : FindDue(s) \/ Finalize(s) \/ SweepFails(s)
    \/ Tick

Spec == Init /\ [][Next]_vars

\* What has been received goes on; Postgres hands the lock to whoever waits
\* longest, and breaks deadlocks; time passes and the beat starts the sweep.
FairSpec ==
    /\ Spec
    /\ \A t \in Turns : SF_vars(Work(t)) /\ WF_vars(AbortAck(t) \/ AbortDelivery(t))
    /\ \A d \in Desks : WF_vars(TakeOver(d) \/ HandBack(d))
    /\ WF_vars(CommitAck)
    /\ \A s \in Sweepers : WF_vars(FindDue(s)) /\ WF_vars(Finalize(s))
    /\ WF_vars(Tick)

----------------------------------------------------------------------------
(* The variables keep their types; only a sweep under way can be stale.      *)
TypeOK ==
    /\ status \in {"active", "ended"} /\ mode \in {"luciel", "human_controlled"}
    /\ idle \in 0..Timeout
    /\ event \in [Events -> {"none", "pending"} \cup Settled]
    /\ signal \in [Events -> Signals \cup {"none"}]
    /\ pc \in [Turns -> {"idle", "answering", "delivering", "parking", "replying"}]
    /\ sig \in [Turns -> Signals \cup {"none"}]
    /\ esc \in [Turns -> Events \cup {None}]
    /\ left \in [Turns -> 0..Contacts]
    /\ chain \in Turns \cup {NoTurn}
    /\ desk \in [Desks -> {"idle", "take_over", "hand_back"}]
    /\ acking \in Events \cup {None}
    /\ sweep \subseteq Sweepers
    /\ stale \subseteq sweep
    /\ faults \in 0..MaxFaults /\ over \in Nat

(* Once a human has taken over, the assistant speaks in at most as often as *)
(* there are turns that had passed the gate before: the gate is read once,  *)
(* long before the answer, and no turn that comes later gets past it.       *)
SpokenOver ==
    faults = 0 /\ mode = "human_controlled" => over <= Cardinality(Turns)

(* Every turn ends: neither a delivery that keeps the platform's audit lock *)
(* while it notifies one contact after another, nor its deadlock with an    *)
(* acknowledgement, keeps a customer's turn waiting for ever.               *)
TurnsEnd == \A t \in Turns : pc[t] # "idle" ~> pc[t] = "idle"

(* The sweep ends a session only when nobody has taken it over, handed it   *)
(* over or handed it back for the whole timeout, or did so in the back of   *)
(* this very sweep, which read the row before and does not look again.      *)
(* Messages are not among the writes of the row: of the customer's own      *)
(* silence, which the documentation calls inactivity, this says nothing.    *)
EndsOldRows ==
    [][status = "active" /\ status' = "ended"
         => idle = Timeout \/ stale \ sweep' # {}]_vars

(* The sweep ends every session in the end, under whoever's control it is   *)
(* and however busily its customer goes on writing, unless the owner takes  *)
(* it over and hands it back for ever; and no request that read it while it *)
(* was active brings it back.                                               *)
DeskRests == <>[][~ \E d \in Desks : TakeOver(d) \/ HandBack(d)]_vars

SessionEnds == DeskRests => <>[](status = "ended")
=============================================================================
