--------------------------- MODULE BreakerProofs ---------------------------
(***************************************************************************)
(* The circuit breaker for every number of dispatchers and every threshold *)
(* and window: its type invariant, and the two invariants of an endpoint   *)
(* whose Redis answers and whose workers live.                             *)
(***************************************************************************)
EXTENDS CircuitBreaker, FiniteSetTheorems, TLAPS

(* The type invariant, key by key and dispatcher by dispatcher. *)
KeysOK ==
    /\ open \in BOOLEAN /\ redisUp \in BOOLEAN
    /\ fails \in 0..Threshold
    /\ failsLeft \in 0..FailureWindow
    /\ window \in {Absent} \union 0..OpenDuration
    /\ lock \in 0..OpenDuration
    /\ leaks \in Nat
    /\ faults \in 0..MaxFaults

LocalsOK ==
    /\ pc    \in [Dispatchers -> Places]
    /\ tries \in [Dispatchers -> 0..Attempts]
    /\ probe \in [Dispatchers -> BOOLEAN]
    /\ age   \in [Dispatchers -> 0..MaxAge]

(* A dispatch counts an attempt only behind the gate, and sends only while *)
(* attempts are left: what keeps tries within its range.                   *)
TriesOK ==
    \A d \in Dispatchers :
        /\ pc[d] \in {"idle", "readOpenedAt", "tryProbe"} => tries[d] = 0
        /\ pc[d] = "sending" => tries[d] < Attempts

Typed == KeysOK /\ LocalsOK /\ TriesOK

LEMMA InitTyped == Init => Typed
<1> SUFFICES ASSUME Init PROVE Typed
  OBVIOUS
<1> USE ThresholdAssumption, AttemptsAssumption, TimeAssumption, FaultAssumption DEF Init
<1>1. KeysOK
  <2>1. open \in BOOLEAN /\ redisUp \in BOOLEAN
    OBVIOUS
  <2>2. fails \in 0..Threshold /\ failsLeft \in 0..FailureWindow
    OBVIOUS
  <2>3. lock \in 0..OpenDuration /\ faults \in 0..MaxFaults /\ leaks \in Nat
    OBVIOUS
  <2> QED BY <2>1, <2>2, <2>3 DEF KeysOK
<1>2. LocalsOK
  BY DEF LocalsOK, Places
<1>3. TriesOK
  BY DEF TriesOK
<1> QED BY <1>1, <1>2, <1>3 DEF Typed

(* A dispatcher that moves on without touching its counters. *)
LEMMA GotoTyped ==
  ASSUME Typed, NEW d \in Dispatchers, NEW place \in Places, Goto(d, place),
         place \in {"idle", "readOpenedAt", "tryProbe"} => tries[d] = 0,
         place = "sending" => tries[d] < Attempts
  PROVE  LocalsOK' /\ TriesOK'
BY DEF Typed, LocalsOK, TriesOK, Goto

LEMMA ReturnTyped ==
  ASSUME Typed, NEW d \in Dispatchers, Return(d)
  PROVE  LocalsOK' /\ TriesOK'
<1> USE AttemptsAssumption, TimeAssumption DEF Typed, Return
<1>1. LocalsOK'
  BY DEF LocalsOK, Places
<1>2. TriesOK'
  BY DEF LocalsOK, TriesOK
<1> QED BY <1>1, <1>2

LEMMA AdmitTyped ==
  ASSUME Typed, NEW d \in Dispatchers, NEW asProbe \in BOOLEAN, Admit(d, asProbe),
         pc[d] \in {"idle", "tryProbe"}
  PROVE  LocalsOK' /\ TriesOK' /\ leaks' \in Nat
<1> USE AttemptsAssumption DEF Typed, Admit
<1>1. LocalsOK'
  BY DEF LocalsOK, Places
<1>2. TriesOK'
  BY DEF LocalsOK, TriesOK
<1>3. leaks' \in Nat
  BY DEF KeysOK
<1> QED BY <1>1, <1>2, <1>3

LEMMA RetryTyped ==
  ASSUME Typed, NEW d \in Dispatchers, RetryOrReturn(d)
  PROVE  LocalsOK' /\ TriesOK'
<1>1. CASE tries[d] < Attempts
  <2>1. Goto(d, "sending")
    BY <1>1 DEF RetryOrReturn
  <2> QED BY <1>1, <2>1, GotoTyped DEF Places
<1>2. CASE ~(tries[d] < Attempts)
  BY <1>2, ReturnTyped DEF RetryOrReturn
<1> QED BY <1>1, <1>2

(* No step leaves the types, one case per action. *)
LEMMA StepTyped == Typed /\ [Next]_vars => Typed'
<1> SUFFICES ASSUME Typed, [Next]_vars PROVE Typed'
  OBVIOUS
<1> USE DEF Typed
<1>0. KeysOK /\ LocalsOK /\ TriesOK
  OBVIOUS
<1>1. ASSUME NEW d \in Dispatchers, ReadState(d) PROVE Typed'
  <2>1. CASE redisUp /\ open
    <3>1. Goto(d, "readOpenedAt") /\ pc[d] = "idle"
      BY <1>1, <2>1 DEF ReadState
    <3>2. KeysOK'
      BY <1>0, <1>1, <2>1 DEF ReadState, KeysOK, keys
    <3> QED BY <1>0, <3>1, <3>2, GotoTyped DEF Places, TriesOK
  <2>2. CASE ~(redisUp /\ open)
    <3>1. Admit(d, FALSE) /\ pc[d] = "idle"
      BY <1>1, <2>2 DEF ReadState
    <3>2. LocalsOK' /\ TriesOK' /\ leaks' \in Nat
      BY <3>1, AdmitTyped
    <3>3. KeysOK'
      BY <1>0, <1>1, <3>2 DEF ReadState, KeysOK, keys
    <3> QED BY <3>2, <3>3
  <2> QED BY <2>1, <2>2
<1>2. ASSUME NEW d \in Dispatchers, ReadOpenedAt(d) PROVE Typed'
  <2>1. KeysOK'
    BY <1>0, <1>2 DEF ReadOpenedAt, KeysOK, keys
  <2>2. CASE Return(d)
    BY <2>1, <2>2, ReturnTyped
  <2>3. CASE Goto(d, "tryProbe")
    BY <1>0, <1>2, <2>1, <2>3, GotoTyped DEF ReadOpenedAt, Places, TriesOK
  <2> QED BY <1>2, <2>2, <2>3 DEF ReadOpenedAt
<1>3. ASSUME NEW d \in Dispatchers, TakeProbeLock(d) PROVE Typed'
  <2>1. LocalsOK' /\ TriesOK' /\ leaks' \in Nat
    BY <1>3, AdmitTyped DEF TakeProbeLock
  <2>2. KeysOK'
    BY <1>0, <1>3, <2>1, TimeAssumption DEF TakeProbeLock, KeysOK
  <2> QED BY <2>1, <2>2
<1>4. ASSUME NEW d \in Dispatchers, ProbeSlotTaken(d) \/ AttemptTerminal(d) PROVE Typed'
  <2>1. KeysOK' /\ Return(d)
    BY <1>0, <1>4 DEF ProbeSlotTaken, AttemptTerminal, KeysOK, keys
  <2> QED BY <2>1, ReturnTyped
<1>5. ASSUME NEW d \in Dispatchers, AttemptFails(d) PROVE Typed'
  <2>1. KeysOK'
    BY <1>0, <1>5, ThresholdAssumption, TimeAssumption DEF AttemptFails, Counted, KeysOK
  <2>2. pc[d] = "sending" /\ tries[d] < Attempts /\ tries[d] \in 0..Attempts
    BY <1>0, <1>5 DEF AttemptFails, TriesOK, LocalsOK
  <2>3. tries' = [tries EXCEPT ![d] = @ + 1] /\ probe' = probe /\ age' = age
    BY <1>5 DEF AttemptFails
  <2>4. PICK place \in {"release", "releaseAndTrip"} : pc' = [pc EXCEPT ![d] = place]
    BY <1>5 DEF AttemptFails
  <2>5. tries[d] + 1 \in 0..Attempts
    BY <2>2, AttemptsAssumption
  <2>6. LocalsOK'
    BY <1>0, <2>3, <2>4, <2>5 DEF LocalsOK, Places
  <2>7. TriesOK'
    BY <1>0, <2>3, <2>4 DEF LocalsOK, TriesOK
  <2> QED BY <2>1, <2>6, <2>7
<1>6. ASSUME NEW d \in Dispatchers, AttemptSucceeds(d) PROVE Typed'
  <2>1. KeysOK'
    BY <1>0, <1>6, ThresholdAssumption, TimeAssumption DEF AttemptSucceeds, KeysOK
  <2>2. Goto(d, "dropOpenedAt")
    BY <1>6 DEF AttemptSucceeds
  <2> QED BY <2>1, <2>2, GotoTyped DEF Places
<1>7. ASSUME NEW d \in Dispatchers, ReleaseProbeLock(d) PROVE Typed'
  <2>1. KeysOK'
    BY <1>0, <1>7, TimeAssumption DEF ReleaseProbeLock, KeysOK
  <2>2. CASE Goto(d, "setOpen")
    BY <2>1, <2>2, GotoTyped DEF Places
  <2>3. CASE RetryOrReturn(d)
    BY <2>1, <2>3, RetryTyped
  <2> QED BY <1>7, <2>2, <2>3 DEF ReleaseProbeLock
<1>8. ASSUME NEW d \in Dispatchers, SetOpen(d) PROVE Typed'
  <2>1. open' \in BOOLEAN
    BY <1>8 DEF SetOpen
  <2>2. KeysOK' /\ Goto(d, "setOpenedAt")
    BY <1>0, <1>8, <2>1 DEF SetOpen, KeysOK
  <2> QED BY <2>2, GotoTyped DEF Places
<1>9. ASSUME NEW d \in Dispatchers, SetOpenedAt(d) PROVE Typed'
  <2>1. KeysOK' /\ RetryOrReturn(d)
    BY <1>0, <1>9, TimeAssumption DEF SetOpenedAt, KeysOK
  <2> QED BY <2>1, RetryTyped
<1>10. ASSUME NEW d \in Dispatchers, DropOpenedAt(d) PROVE Typed'
  <2>1. KeysOK' /\ Goto(d, "dropLock")
    BY <1>0, <1>10 DEF DropOpenedAt, KeysOK
  <2> QED BY <2>1, GotoTyped DEF Places
<1>11. ASSUME NEW d \in Dispatchers, DropLock(d) PROVE Typed'
  <2>1. KeysOK' /\ Goto(d, "setClosed")
    BY <1>0, <1>11, TimeAssumption DEF DropLock, KeysOK
  <2> QED BY <2>1, GotoTyped DEF Places
<1>12. ASSUME NEW d \in Dispatchers, SetClosed(d) PROVE Typed'
  <2>1. open' \in BOOLEAN
    BY <1>12 DEF SetClosed
  <2>2. KeysOK' /\ Return(d)
    BY <1>0, <1>12, <2>1 DEF SetClosed, KeysOK
  <2> QED BY <2>2, ReturnTyped
<1>13. CASE Tick
  <2>1. KeysOK'
    BY <1>0, <1>13, ThresholdAssumption, TimeAssumption DEF Tick, Less, KeysOK, Absent
  <2>2. age' \in [Dispatchers -> 0..MaxAge]
    BY <1>0, <1>13, TimeAssumption DEF Tick, LocalsOK
  <2>3. LocalsOK' /\ TriesOK'
    BY <1>0, <1>13, <2>2 DEF Tick, LocalsOK, TriesOK
  <2> QED BY <2>1, <2>3
<1>14. CASE StateExpires
  <2>1. KeysOK'
    BY <1>0, <1>14 DEF StateExpires, KeysOK
  <2>2. LocalsOK' /\ TriesOK'
    BY <1>0, <1>14 DEF StateExpires, dispatchers, LocalsOK, TriesOK
  <2> QED BY <2>1, <2>2
<1>15. CASE RedisGoesDown
  <2>1. faults' \in 0..MaxFaults /\ leaks' \in Nat
    BY <1>0, <1>15, FaultAssumption DEF RedisGoesDown, Fault, KeysOK
  <2>2. open' \in BOOLEAN /\ redisUp' \in BOOLEAN
    BY <1>0, <1>15 DEF RedisGoesDown, keys, KeysOK
  <2>3. KeysOK'
    BY <1>0, <1>15, <2>1, <2>2 DEF RedisGoesDown, keys, KeysOK
  <2>4. LocalsOK' /\ TriesOK'
    BY <1>0, <1>15 DEF RedisGoesDown, dispatchers, LocalsOK, TriesOK
  <2> QED BY <2>3, <2>4
<1>16. CASE RedisComesBack
  <2>1. KeysOK'
    BY <1>0, <1>16 DEF RedisComesBack, keys, KeysOK
  <2>2. LocalsOK' /\ TriesOK'
    BY <1>0, <1>16 DEF RedisComesBack, dispatchers, LocalsOK, TriesOK
  <2> QED BY <2>1, <2>2
<1>17. ASSUME NEW d \in Dispatchers, WorkerDies(d) PROVE Typed'
  <2>1. KeysOK' /\ Return(d)
    BY <1>0, <1>17, FaultAssumption DEF WorkerDies, Fault, keys, KeysOK
  <2> QED BY <2>1, ReturnTyped
<1>18. CASE UNCHANGED vars
  <2>1. KeysOK'
    BY <1>0, <1>18 DEF vars, keys, KeysOK
  <2>2. LocalsOK' /\ TriesOK'
    BY <1>0, <1>18 DEF vars, dispatchers, LocalsOK, TriesOK
  <2> QED BY <2>1, <2>2
<1> HIDE DEF Typed
<1> QED
  BY <1>1, <1>2, <1>3, <1>4, <1>5, <1>6, <1>7, <1>8, <1>9, <1>10, <1>11, <1>12,
     <1>13, <1>14, <1>15, <1>16, <1>17, <1>18 DEF Next, DispatchStep

LEMMA AlwaysTyped == Spec => []Typed
BY InitTyped, StepTyped, PTL DEF Spec

(* The Redis keys, the attempts and the ages stay in their ranges: no      *)
(* dispatch sends more often than it has attempts, whatever fails.         *)
THEOREM TypeCorrect == Spec => []TypeOK
<1>1. Typed => TypeOK
  BY DEF Typed, KeysOK, LocalsOK, TypeOK
<1> QED BY AlwaysTyped, <1>1, PTL

----------------------------------------------------------------------------
(* Without faults, an open state without opened_at has somebody at work on  *)
(* it: a trip that is still to write opened_at, or a success that is still  *)
(* to write "closed".                                                       *)
AtWork == \E d \in Dispatchers : pc[d] \in {"setOpenedAt", "dropLock", "setClosed"}

Dated == faults = 0 => redisUp /\ (open /\ window = Absent => AtWork)

LEMMA InitDated == Init => Dated
BY DEF Init, Dated

(* A step of d that is not one of the three leaves the others at work. *)
LEMMA OthersAtWork ==
  ASSUME Typed, NEW d \in Dispatchers, NEW place, pc' = [pc EXCEPT ![d] = place],
         pc[d] \notin {"setOpenedAt", "dropLock", "setClosed"}, AtWork
  PROVE  AtWork'
BY DEF Typed, LocalsOK, AtWork

LEMMA NowAtWork ==
  ASSUME Typed, NEW d \in Dispatchers, NEW place, pc' = [pc EXCEPT ![d] = place],
         place \in {"setOpenedAt", "dropLock", "setClosed"}
  PROVE  AtWork'
BY DEF Typed, LocalsOK, AtWork

LEMMA StepDated == Typed /\ Dated /\ [Next]_vars => Dated'
<1> SUFFICES ASSUME Typed, Dated, [Next]_vars, faults' = 0
             PROVE  redisUp' /\ (open' /\ window' = Absent => AtWork')
  BY DEF Dated
<1>1. ASSUME NEW d \in Dispatchers,
             \/ ReadState(d) \/ ReadOpenedAt(d) \/ TakeProbeLock(d) \/ ProbeSlotTaken(d)
             \/ AttemptFails(d) \/ AttemptTerminal(d) \/ AttemptSucceeds(d)
             \/ ReleaseProbeLock(d)
      PROVE  redisUp' /\ (open' /\ window' = Absent => AtWork')
  <2>1. faults' = faults /\ redisUp' = redisUp /\ open' = open /\ window' = window
    BY <1>1 DEF ReadState, ReadOpenedAt, TakeProbeLock, ProbeSlotTaken, AttemptFails,
                AttemptTerminal, AttemptSucceeds, ReleaseProbeLock, keys
  <2>2. pc[d] \notin {"setOpenedAt", "dropLock", "setClosed"}
    BY <1>1 DEF ReadState, ReadOpenedAt, TakeProbeLock, ProbeSlotTaken, AttemptFails,
                AttemptTerminal, AttemptSucceeds, ReleaseProbeLock
  <2>3. \E place : pc' = [pc EXCEPT ![d] = place]
    <3>1. CASE ReadState(d) \/ ReadOpenedAt(d) \/ TakeProbeLock(d) \/ ProbeSlotTaken(d)
      BY <3>1 DEF ReadState, ReadOpenedAt, TakeProbeLock, ProbeSlotTaken,
                  Goto, Return, Admit
    <3>2. CASE AttemptFails(d)
      BY <3>2 DEF AttemptFails
    <3>3. CASE AttemptTerminal(d) \/ AttemptSucceeds(d) \/ ReleaseProbeLock(d)
      BY <3>3 DEF AttemptTerminal, AttemptSucceeds, ReleaseProbeLock, RetryOrReturn,
                  Goto, Return
    <3> QED BY <1>1, <3>1, <3>2, <3>3
  <2> QED BY <2>1, <2>2, <2>3, OthersAtWork DEF Dated
<1>2. ASSUME NEW d \in Dispatchers, SetOpen(d)
      PROVE  redisUp' /\ (open' /\ window' = Absent => AtWork')
  BY <1>2, NowAtWork DEF SetOpen, Goto, Dated
<1>3. ASSUME NEW d \in Dispatchers, SetOpenedAt(d)
      PROVE  redisUp' /\ (open' /\ window' = Absent => AtWork')
  <2>1. faults' = faults /\ redisUp' = redisUp
    BY <1>3 DEF SetOpenedAt
  <2>2. redisUp
    BY <2>1 DEF Dated
  <2>3. window' # Absent
    BY <1>3, <2>2, TimeAssumption DEF SetOpenedAt, Absent
  <2> QED BY <2>1, <2>2, <2>3
<1>4. ASSUME NEW d \in Dispatchers, DropOpenedAt(d) \/ DropLock(d)
      PROVE  redisUp' /\ (open' /\ window' = Absent => AtWork')
  BY <1>4, NowAtWork DEF DropOpenedAt, DropLock, Goto, Dated
<1>5. ASSUME NEW d \in Dispatchers, SetClosed(d)
      PROVE  redisUp' /\ (open' /\ window' = Absent => AtWork')
  BY <1>5 DEF SetClosed, Dated
<1>6. CASE Tick
  <2>1. faults' = faults /\ redisUp' = redisUp /\ open' = open /\ pc' = pc
    BY <1>6 DEF Tick
  <2>2. window' = Absent => window = Absent
    BY <1>6 DEF Tick, Less, Absent, Typed, KeysOK
  <2> QED BY <2>1, <2>2 DEF Dated, AtWork
<1>7. CASE StateExpires
  BY <1>7 DEF StateExpires, Dated
<1>8. CASE RedisGoesDown \/ (\E d \in Dispatchers : WorkerDies(d))
  BY <1>8 DEF RedisGoesDown, WorkerDies, Fault, Typed, KeysOK
<1>9. CASE RedisComesBack
  BY <1>9 DEF RedisComesBack, Dated
<1>10. CASE UNCHANGED vars
  BY <1>10 DEF vars, keys, dispatchers, Dated, AtWork
<1> QED
  BY <1>1, <1>2, <1>3, <1>4, <1>5, <1>6, <1>7, <1>8, <1>9, <1>10 DEF Next, DispatchStep

(* However trips and successes of different workers interleave, a breaker   *)
(* nobody is working on is never open without opened_at: trip and success   *)
(* write the two keys in opposite order.                                    *)
THEOREM AlwaysDated == Spec => []OpenIsDated
<1>1. Dated => OpenIsDated
  BY DEF Dated, AtWork, OpenIsDated
<1> QED BY <1>1, InitDated, StepDated, AlwaysTyped, PTL DEF Spec

----------------------------------------------------------------------------
(* While the window runs, every dispatch that has leaked and every one that *)
(* still may leak had read the breaker before the trip, and the dispatcher  *)
(* that tripped it is not among them.                                       *)
AtTheLock == {d \in Dispatchers : pc[d] = "tryProbe"}

Bounded ==
    /\ leaks < Cardinality(Dispatchers)
    /\ window > 0 => leaks + Cardinality(AtTheLock) < Cardinality(Dispatchers)

Refuses == faults = 0 => Bounded

LEMMA LockersFinite ==
    /\ IsFiniteSet(AtTheLock) /\ Cardinality(AtTheLock) \in Nat
    /\ Cardinality(Dispatchers) \in Nat
    /\ Cardinality(AtTheLock) <= Cardinality(Dispatchers)
BY DispatcherAssumption, FS_Subset, FS_CardinalityType DEF AtTheLock

(* A dispatcher elsewhere leaves room for one leak. *)
LEMMA RoomForOne ==
  ASSUME NEW d \in Dispatchers, pc[d] # "tryProbe"
  PROVE  Cardinality(AtTheLock) < Cardinality(Dispatchers)
<1>1. AtTheLock \subseteq Dispatchers /\ AtTheLock # Dispatchers
  BY DEF AtTheLock
<1>2. Cardinality(AtTheLock) # Cardinality(Dispatchers)
  BY <1>1, DispatcherAssumption, FS_Subset
<1> QED BY <1>2, LockersFinite

LEMMA InitRefuses == Init => Refuses
<1> SUFFICES ASSUME Init PROVE Bounded
  BY DEF Refuses
<1>1. leaks = 0 /\ ~(window > 0)
  BY DEF Init, Absent
<1>2. Cardinality(Dispatchers) \in Nat /\ Cardinality(Dispatchers) # 0
  BY DispatcherAssumption, FS_CardinalityType, FS_EmptySet
<1> QED BY <1>1, <1>2 DEF Bounded

LEMMA StaysBounded ==
  ASSUME Typed, Bounded, leaks' = leaks, window' > 0 => window > 0,
         AtTheLock' \subseteq AtTheLock
  PROVE  Bounded'
<1>1. Cardinality(AtTheLock') <= Cardinality(AtTheLock) /\ Cardinality(AtTheLock') \in Nat
  BY LockersFinite, FS_Subset, FS_CardinalityType
<1>2. Cardinality(AtTheLock)' = Cardinality(AtTheLock')
  OBVIOUS
<1> QED BY <1>1, <1>2, LockersFinite DEF Bounded, Typed, KeysOK

LEMMA NotToTheLock ==
  ASSUME Typed, NEW d \in Dispatchers, NEW place, place # "tryProbe",
         pc' = [pc EXCEPT ![d] = place]
  PROVE  AtTheLock' \subseteq AtTheLock
BY DEF Typed, LocalsOK, AtTheLock

LEMMA StepRefuses == Typed /\ Dated /\ Refuses /\ [Next]_vars => Refuses'
<1> SUFFICES ASSUME Typed, Dated, Refuses, [Next]_vars, faults' = 0 PROVE Bounded'
  BY DEF Refuses
<1>1. ASSUME NEW d \in Dispatchers, ReadState(d) PROVE Bounded'
  <2>1. faults = 0 /\ redisUp /\ Bounded
    BY <1>1 DEF ReadState, Dated, Refuses
  <2>2. leaks' = leaks /\ window' = window
    BY <1>1, <2>1 DEF ReadState, Admit, Refusing, keys
  <2>3. PICK place \in {"readOpenedAt", "sending"} : pc' = [pc EXCEPT ![d] = place]
    BY <1>1 DEF ReadState, Goto, Admit
  <2> QED BY <2>1, <2>2, <2>3, NotToTheLock, StaysBounded
<1>2. ASSUME NEW d \in Dispatchers, ReadOpenedAt(d) PROVE Bounded'
  <2>1. faults = 0 /\ redisUp /\ Bounded /\ leaks' = leaks /\ window' = window
    BY <1>2 DEF ReadOpenedAt, Dated, Refuses, keys
  <2>2. CASE window <= 0
    BY <2>1, <2>2 DEF Bounded, Typed, KeysOK, Absent
  <2>3. CASE ~(window <= 0)
    <3>1. pc' = [pc EXCEPT ![d] = "idle"]
      BY <1>2, <2>1, <2>3 DEF ReadOpenedAt, WindowExpired, Return
    <3> QED BY <2>1, <3>1, NotToTheLock, StaysBounded
  <2> QED BY <2>2, <2>3
<1>3. ASSUME NEW d \in Dispatchers, TakeProbeLock(d) PROVE Bounded'
  <2>1. faults = 0 /\ Bounded /\ window' = window /\ pc[d] = "tryProbe"
    BY <1>3 DEF TakeProbeLock, Refuses
  <2>2. pc' = [pc EXCEPT ![d] = "sending"]
    BY <1>3 DEF TakeProbeLock, Admit
  <2>3. CASE window > 0
    <3>1. AtTheLock' = AtTheLock \ {d} /\ d \in AtTheLock
      BY <2>1, <2>2 DEF AtTheLock, Typed, LocalsOK
    <3>2. Cardinality(AtTheLock)' = Cardinality(AtTheLock) - 1
      BY <3>1, LockersFinite, FS_RemoveElement
    <3>3. leaks' = leaks + 1 \/ leaks' = leaks
      BY <1>3 DEF TakeProbeLock, Admit
    <3>4. Cardinality(AtTheLock) >= 1
      BY <3>2, <3>1, LockersFinite, FS_EmptySet
    <3> QED BY <2>1, <2>3, <3>2, <3>3, <3>4, LockersFinite DEF Bounded, Typed, KeysOK
  <2>4. CASE ~(window > 0)
    <3>1. leaks' = leaks
      BY <1>3, <2>4 DEF TakeProbeLock, Admit, Refusing
    <3> QED BY <2>1, <2>4, <3>1 DEF Bounded
  <2> QED BY <2>3, <2>4
<1>4. ASSUME NEW d \in Dispatchers,
             \/ ProbeSlotTaken(d) \/ AttemptFails(d) \/ AttemptTerminal(d)
             \/ AttemptSucceeds(d) \/ ReleaseProbeLock(d) \/ SetOpen(d)
             \/ DropOpenedAt(d) \/ DropLock(d) \/ SetClosed(d)
      PROVE  Bounded'
  <2>1. faults' = faults /\ leaks' = leaks
    BY <1>4 DEF ProbeSlotTaken, AttemptFails, AttemptTerminal, AttemptSucceeds,
                ReleaseProbeLock, SetOpen, DropOpenedAt, DropLock, SetClosed
  <2>2. window' = window \/ window' = Absent
    BY <1>4 DEF ProbeSlotTaken, AttemptFails, AttemptTerminal, AttemptSucceeds,
                ReleaseProbeLock, SetOpen, DropOpenedAt, DropLock, SetClosed, keys
  <2>3. \E place : place # "tryProbe" /\ pc' = [pc EXCEPT ![d] = place]
    <3>1. CASE ProbeSlotTaken(d) \/ AttemptTerminal(d) \/ AttemptSucceeds(d)
      BY <3>1 DEF ProbeSlotTaken, AttemptTerminal, AttemptSucceeds, Goto, Return
    <3>2. CASE AttemptFails(d)
      BY <3>2 DEF AttemptFails
    <3>3. CASE ReleaseProbeLock(d) \/ SetOpen(d)
      BY <3>3 DEF ReleaseProbeLock, SetOpen, RetryOrReturn, Goto, Return
    <3>4. CASE DropOpenedAt(d) \/ DropLock(d) \/ SetClosed(d)
      BY <3>4 DEF DropOpenedAt, DropLock, SetClosed, Goto, Return
    <3> QED BY <1>4, <3>1, <3>2, <3>3, <3>4
  <2>4. AtTheLock' \subseteq AtTheLock
    BY <2>3, NotToTheLock
  <2> QED BY <2>1, <2>2, <2>4, StaysBounded DEF Refuses, Absent
<1>5. ASSUME NEW d \in Dispatchers, SetOpenedAt(d) PROVE Bounded'
  <2>1. faults = 0 /\ redisUp
    BY <1>5 DEF SetOpenedAt, Dated
  <2>2. leaks' = 0 /\ pc[d] = "setOpenedAt"
    BY <1>5, <2>1 DEF SetOpenedAt
  <2>3. \E place : place # "tryProbe" /\ pc' = [pc EXCEPT ![d] = place]
    BY <1>5 DEF SetOpenedAt, RetryOrReturn, Goto, Return
  <2>4. AtTheLock' \subseteq AtTheLock
    BY <2>3, NotToTheLock
  <2>5. Cardinality(AtTheLock') <= Cardinality(AtTheLock) /\ Cardinality(AtTheLock') \in Nat
    BY <2>4, LockersFinite, FS_Subset, FS_CardinalityType
  <2>6. Cardinality(AtTheLock) < Cardinality(Dispatchers)
    BY <2>2, RoomForOne
  <2> QED BY <2>2, <2>5, <2>6, LockersFinite DEF Bounded
<1>6. CASE Tick
  <2>1. faults' = faults /\ leaks' = leaks /\ AtTheLock' = AtTheLock
    BY <1>6 DEF Tick, AtTheLock
  <2>2. window' > 0 => window > 0
    BY <1>6 DEF Tick, Less, Typed, KeysOK, Absent
  <2> QED BY <2>1, <2>2, StaysBounded DEF Refuses
<1>7. CASE StateExpires
  <2>1. faults' = faults /\ leaks' = leaks /\ AtTheLock' = AtTheLock /\ ~(window' > 0)
    BY <1>7 DEF StateExpires, dispatchers, AtTheLock, Absent
  <2> QED BY <2>1, StaysBounded DEF Refuses
<1>8. CASE RedisGoesDown \/ (\E d \in Dispatchers : WorkerDies(d))
  BY <1>8 DEF RedisGoesDown, WorkerDies, Fault, Typed, KeysOK
<1>9. CASE RedisComesBack \/ UNCHANGED vars
  <2>1. faults' = faults /\ leaks' = leaks /\ window' = window /\ AtTheLock' = AtTheLock
    BY <1>9 DEF RedisComesBack, vars, keys, dispatchers, AtTheLock
  <2> QED BY <2>1, StaysBounded DEF Refuses
<1> QED
  BY <1>1, <1>2, <1>3, <1>4, <1>5, <1>6, <1>7, <1>8, <1>9 DEF Next, DispatchStep

(* While the window runs, fewer dispatches than there are dispatchers reach *)
(* the endpoint: only those that had looked at the breaker before the trip, *)
(* and never the one that tripped it.                                       *)
THEOREM AlwaysRefuses == Spec => []OpenRefuses
<1>1. Refuses => OpenRefuses
  BY DEF Refuses, Bounded, OpenRefuses
<1> QED BY <1>1, InitRefuses, StepRefuses, InitDated, StepDated, AlwaysTyped, PTL DEF Spec
=============================================================================
