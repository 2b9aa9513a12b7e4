--------------------------- MODULE CircuitBreaker ---------------------------
(***************************************************************************)
(* The circuit breaker of one bring-your-own webhook endpoint              *)
(* (app/tools/byo/circuit_breaker.py) and the dispatch loop that drives it *)
(* (app/tools/byo/sandbox.py, dispatch_byo_webhook).                       *)
(*                                                                         *)
(* Dispatchers live in different worker processes and share the breaker    *)
(* only through four Redis keys, so every Redis command is a step of its   *)
(* own.  A command that cannot reach Redis is swallowed and fails open:    *)
(* GET reads nothing, INCR reads 0, SET NX reads as won.  The half-open    *)
(* state is never stored: it is what an open state whose window is over    *)
(* reads as.  Time advances in ticks; timers are kept as the time left.    *)
(***************************************************************************)
EXTENDS Integers, FiniteSets

CONSTANTS
    Dispatchers,    \* concurrent calls of dispatch_byo_webhook
    Threshold,      \* failure_threshold
    Attempts,       \* attempts of one dispatch: retry_count + 1
    FailureWindow,  \* failure_window_seconds, in ticks
    OpenDuration,   \* open_duration_seconds, in ticks
    MaxAge,         \* how many ticks a dispatch can span: its timeouts and backoffs
    MaxFaults       \* bound: Redis outages and killed workers

ASSUME DispatcherAssumption == IsFiniteSet(Dispatchers) /\ Dispatchers # {}
ASSUME ThresholdAssumption  == Threshold \in Nat /\ Threshold > 0
ASSUME AttemptsAssumption   == Attempts \in Nat /\ Attempts > 0
ASSUME TimeAssumption ==
    /\ FailureWindow \in Nat /\ FailureWindow > 0
    /\ OpenDuration \in Nat
    /\ MaxAge \in Nat /\ MaxAge < OpenDuration
ASSUME FaultAssumption == MaxFaults \in Nat

Absent == -1    \* no opened_at key

VARIABLES
    \* the Redis keys of the endpoint
    open,       \* the state key holds "open" (missing reads as "closed")
    fails,      \* the failure counter, saturated at Threshold
    failsLeft,  \* its time to live
    window,     \* time until opened_at + open_duration, or Absent
    lock,       \* time to live of probe_lock, 0 when it is not set
    redisUp,
    \* each dispatcher
    pc,
    tries,      \* attempts made
    probe,      \* admitted as the half-open probe
    age,        \* ticks since the dispatch began
    \* history and bounds
    leaks,      \* dispatches admitted since the window began to run
    faults

keys        == <<open, fails, failsLeft, window, lock>>
dispatchers == <<pc, tries, probe, age>>
vars        == <<keys, redisUp, dispatchers, leaks, faults>>

Init ==
    /\ open = FALSE
    /\ fails = 0 /\ failsLeft = 0
    /\ window = Absent
    /\ lock = 0
    /\ redisUp = TRUE
    /\ pc    = [d \in Dispatchers |-> "idle"]
    /\ tries = [d \in Dispatchers |-> 0]
    /\ probe = [d \in Dispatchers |-> FALSE]
    /\ age   = [d \in Dispatchers |-> 0]
    /\ leaks = 0
    /\ faults = 0

----------------------------------------------------------------------------
(* Helpers *)

Goto(d, place) == pc' = [pc EXCEPT ![d] = place] /\ UNCHANGED <<tries, probe, age>>

(* dispatch_byo_webhook returns. *)
Return(d) ==
    /\ pc'    = [pc    EXCEPT ![d] = "idle"]
    /\ tries' = [tries EXCEPT ![d] = 0]
    /\ probe' = [probe EXCEPT ![d] = FALSE]
    /\ age'   = [age   EXCEPT ![d] = 0]

(* After a recorded failure: back off and try again, or give up. *)
RetryOrReturn(d) == IF tries[d] < Attempts THEN Goto(d, "sending") ELSE Return(d)

(* The open window is running: a fresh look at the breaker is refused. *)
Refusing == open /\ window > 0

(* A dispatch goes through the gate. *)
Admit(d, asProbe) ==
    /\ pc'    = [pc    EXCEPT ![d] = "sending"]
    /\ probe' = [probe EXCEPT ![d] = asProbe]
    /\ leaks' = IF Refusing /\ faults = 0 THEN leaks + 1 ELSE leaks
    /\ UNCHANGED <<tries, age>>

----------------------------------------------------------------------------
(* before_dispatch: GET state, GET opened_at, SET NX probe_lock *)

ReadState(d) ==
    /\ pc[d] = "idle"
    /\ IF redisUp /\ open
         THEN Goto(d, "readOpenedAt") /\ UNCHANGED leaks
         ELSE Admit(d, FALSE)
    /\ UNCHANGED <<keys, redisUp, faults>>

(* Mutant of WindowExpired: the last second of the window reads as over. *)
WindowExpired_early == window <= 1

(* A missing opened_at reads as an expired window. *)
WindowExpired == window <= 0

ReadOpenedAt(d) ==
    /\ pc[d] = "readOpenedAt"
    /\ IF ~redisUp \/ WindowExpired THEN Goto(d, "tryProbe") ELSE Return(d)
    /\ UNCHANGED <<keys, redisUp, leaks, faults>>

TakeProbeLock(d) ==
    /\ pc[d] = "tryProbe"
    /\ ~redisUp \/ lock = 0
    /\ lock' = IF redisUp THEN OpenDuration ELSE lock
    /\ Admit(d, TRUE)
    /\ UNCHANGED <<open, fails, failsLeft, window, redisUp, faults>>

ProbeSlotTaken(d) ==
    /\ pc[d] = "tryProbe" /\ redisUp /\ lock > 0
    /\ Return(d)
    /\ UNCHANGED <<keys, redisUp, leaks, faults>>

----------------------------------------------------------------------------
(* One attempt, with its three kinds of outcome *)

(* A 4xx, a malformed body, an egress denial or a schema mismatch: the     *)
(* dispatch returns and tells the breaker nothing.                         *)
AttemptTerminal(d) ==
    /\ pc[d] = "sending"
    /\ Return(d)
    /\ UNCHANGED <<keys, redisUp, leaks, faults>>

(* A timeout, a transport error or a 5xx: record_failure begins with INCR. *)
Counted == IF fails < Threshold THEN fails + 1 ELSE Threshold

AttemptFails(d) ==
    /\ pc[d] = "sending"
    /\ tries' = [tries EXCEPT ![d] = @ + 1]
    /\ IF redisUp
         THEN /\ fails' = Counted /\ failsLeft' = FailureWindow
              /\ pc' = [pc EXCEPT ![d] =
                          IF Counted >= Threshold THEN "releaseAndTrip" ELSE "release"]
         ELSE /\ pc' = [pc EXCEPT ![d] = "release"]
              /\ UNCHANGED <<fails, failsLeft>>
    /\ UNCHANGED <<open, window, lock, redisUp, probe, age, leaks, faults>>

(* A valid answer: record_success begins with DEL fails. *)
AttemptSucceeds(d) ==
    /\ pc[d] = "sending"
    /\ IF redisUp THEN fails' = 0 /\ failsLeft' = 0 ELSE UNCHANGED <<fails, failsLeft>>
    /\ Goto(d, "dropOpenedAt")
    /\ UNCHANGED <<open, window, lock, redisUp, leaks, faults>>

----------------------------------------------------------------------------
(* The rest of record_failure: DEL probe_lock, and at the threshold        *)
(* _trip_open: SET state, SET opened_at                                    *)

ReleaseProbeLock(d) ==
    /\ pc[d] \in {"release", "releaseAndTrip"}
    /\ lock' = IF redisUp THEN 0 ELSE lock
    /\ IF pc[d] = "releaseAndTrip" THEN Goto(d, "setOpen") ELSE RetryOrReturn(d)
    /\ UNCHANGED <<open, fails, failsLeft, window, redisUp, leaks, faults>>

SetOpen(d) ==
    /\ pc[d] = "setOpen"
    /\ open' = (redisUp \/ open)
    /\ Goto(d, "setOpenedAt")
    /\ UNCHANGED <<fails, failsLeft, window, lock, redisUp, leaks, faults>>

SetOpenedAt(d) ==
    /\ pc[d] = "setOpenedAt"
    /\ IF redisUp
         THEN window' = OpenDuration /\ leaks' = 0
         ELSE UNCHANGED <<window, leaks>>
    /\ RetryOrReturn(d)
    /\ UNCHANGED <<open, fails, failsLeft, lock, redisUp, faults>>

----------------------------------------------------------------------------
(* The rest of record_success: DEL opened_at, DEL probe_lock, SET state *)

DropOpenedAt(d) ==
    /\ pc[d] = "dropOpenedAt"
    /\ window' = IF redisUp THEN Absent ELSE window
    /\ Goto(d, "dropLock")
    /\ UNCHANGED <<open, fails, failsLeft, lock, redisUp, leaks, faults>>

DropLock(d) ==
    /\ pc[d] = "dropLock"
    /\ lock' = IF redisUp THEN 0 ELSE lock
    /\ Goto(d, "setClosed")
    /\ UNCHANGED <<open, fails, failsLeft, window, redisUp, leaks, faults>>

(* Mutant of SetClosed: only a probe's success writes the state. *)
SetClosed_probeOnly(d) ==
    /\ pc[d] = "setClosed"
    /\ open' = (open /\ ~(redisUp /\ probe[d]))
    /\ Return(d)
    /\ UNCHANGED <<fails, failsLeft, window, lock, redisUp, leaks, faults>>

SetClosed(d) ==
    /\ pc[d] = "setClosed"
    /\ open' = (open /\ ~redisUp)
    /\ Return(d)
    /\ UNCHANGED <<fails, failsLeft, window, lock, redisUp, leaks, faults>>

----------------------------------------------------------------------------
(* Time and faults *)

Less(n) == IF n > 0 THEN n - 1 ELSE n

(* Mutant of Tick: the probe lock was set without a time to live. *)
Tick_lockStays ==
    /\ \A d \in Dispatchers : pc[d] # "idle" => age[d] < MaxAge
    /\ age' = [d \in Dispatchers |-> IF pc[d] = "idle" THEN 0 ELSE age[d] + 1]
    /\ failsLeft' = Less(failsLeft)
    /\ fails' = IF failsLeft <= 1 THEN 0 ELSE fails
    /\ window' = Less(window)
    /\ UNCHANGED <<open, lock, redisUp, pc, tries, probe, leaks, faults>>

(* Time does not outrun a dispatch: its attempts have hard timeouts. *)
Tick ==
    /\ \A d \in Dispatchers : pc[d] # "idle" => age[d] < MaxAge
    /\ age' = [d \in Dispatchers |-> IF pc[d] = "idle" THEN 0 ELSE age[d] + 1]
    /\ failsLeft' = Less(failsLeft)
    /\ fails' = IF failsLeft <= 1 THEN 0 ELSE fails
    /\ window' = Less(window)
    /\ lock' = Less(lock)
    /\ UNCHANGED <<open, redisUp, pc, tries, probe, leaks, faults>>

(* The 24 h time to live of state and opened_at runs out, long after the   *)
(* window did and not while a trip is being written.                       *)
StateExpires ==
    /\ open /\ window = 0
    /\ \A d \in Dispatchers : pc[d] # "setOpenedAt"
    /\ open' = FALSE /\ window' = Absent
    /\ UNCHANGED <<fails, failsLeft, lock, redisUp, dispatchers, leaks, faults>>

(* The history is kept for runs without faults only. *)
Fault == faults < MaxFaults /\ faults' = faults + 1 /\ leaks' = 0

RedisGoesDown ==
    /\ Fault
    /\ redisUp /\ redisUp' = FALSE
    /\ UNCHANGED <<keys, dispatchers>>

RedisComesBack ==
    /\ ~redisUp /\ redisUp' = TRUE
    /\ UNCHANGED <<keys, dispatchers, leaks, faults>>

(* The worker is killed between two commands. *)
WorkerDies(d) ==
    /\ Fault
    /\ pc[d] # "idle"
    /\ Return(d)
    /\ UNCHANGED <<keys, redisUp>>

----------------------------------------------------------------------------
DispatchStep(d) ==
    \/ ReadState(d) \/ ReadOpenedAt(d) \/ TakeProbeLock(d) \/ ProbeSlotTaken(d)
    \/ AttemptFails(d) \/ AttemptTerminal(d) \/ AttemptSucceeds(d)
    \/ ReleaseProbeLock(d) \/ SetOpen(d) \/ SetOpenedAt(d)
    \/ DropOpenedAt(d) \/ DropLock(d) \/ SetClosed(d)

Next ==
    \/ \E d \in Dispatchers : DispatchStep(d) \/ WorkerDies(d)
    \/ Tick \/ StateExpires
    \/ RedisGoesDown \/ RedisComesBack

Spec == Init /\ [][Next]_vars

(* Time passes, and a dispatch that began goes on to its end; nothing      *)
(* obliges a new dispatch to come or an outage to end.                     *)
Continue(d) == pc[d] # "idle" /\ DispatchStep(d)

FairSpec ==
    /\ Spec
    /\ WF_vars(Tick)
    /\ \A d \in Dispatchers : WF_vars(Continue(d))

----------------------------------------------------------------------------
(* Properties *)

Places == {"idle", "readOpenedAt", "tryProbe", "sending",
           "release", "releaseAndTrip", "setOpen", "setOpenedAt",
           "dropOpenedAt", "dropLock", "setClosed"}

TypeOK ==
    /\ open \in BOOLEAN /\ redisUp \in BOOLEAN
    /\ fails \in 0..Threshold
    /\ failsLeft \in 0..FailureWindow
    /\ window \in {Absent} \union 0..OpenDuration
    /\ lock \in 0..OpenDuration
    /\ pc    \in [Dispatchers -> Places]
    /\ tries \in [Dispatchers -> 0..Attempts]
    /\ probe \in [Dispatchers -> BOOLEAN]
    /\ age   \in [Dispatchers -> 0..MaxAge]
    /\ leaks \in Nat
    /\ faults \in 0..MaxFaults

(* A breaker that nobody is working on and that is open knows since when:  *)
(* no interleaving of a trip with a success of another worker leaves an    *)
(* open state without opened_at, which would read as half-open at once.    *)
OpenIsDated ==
    (faults = 0 /\ \A d \in Dispatchers : pc[d] \in {"idle", "sending"}) =>
        (open => window # Absent)

(* While the window runs, the breaker lets through only dispatches that had *)
(* looked at it before the trip: fewer than there are dispatchers.          *)
OpenRefuses == faults = 0 => leaks < Cardinality(Dispatchers)

(* The breaker never refuses for ever: again and again there is a moment at *)
(* which a dispatch would be let through, whatever became of the probes.    *)
Admissible   == ~redisUp \/ ~open \/ (window <= 0 /\ lock = 0)
NeverWedged  == []<>Admissible
=============================================================================
