--------------------------- MODULE HandoffProofs ---------------------------
(***************************************************************************)
(* For every number of turns, desks, sweepers, contacts, events and        *)
(* faults: the types of SessionHandoff, the bound on what the assistant    *)
(* still says after a human has taken over, and the age at which a sweep   *)
(* ends a session.                                                         *)
(***************************************************************************)
EXTENDS SessionHandoff, FiniteSetTheorems, TLAPS

(* Turns do not lose their type by being moved.                             *)
LEMMA TurnTypes ==
    ASSUME TypeOK, NEW t \in Turns,
           NEW where \in {"idle", "answering", "delivering", "parking", "replying"}
    PROVE  [pc EXCEPT ![t] = where]
             \in [Turns -> {"idle", "answering", "delivering", "parking", "replying"}]
  BY DEF TypeOK

(* A turn that ends leaves nothing behind.                                  *)
LEMMA FinishedTypes ==
    ASSUME TypeOK, NEW t \in Turns, Finished(t)
    PROVE  /\ pc' \in [Turns -> {"idle", "answering", "delivering", "parking", "replying"}]
           /\ sig' \in [Turns -> Signals \cup {"none"}]
           /\ esc' \in [Turns -> Events \cup {None}]
           /\ left' \in [Turns -> 0..Contacts]
  <1>1. 0 \in 0..Contacts
    BY NumberAssumption
  <1> QED
    BY <1>1 DEF TypeOK, Finished, Goto

(* The end of a delivery, whatever has become of the event.                 *)
LEMMA EndTypes ==
    ASSUME TypeOK, NEW t \in Turns, EndDelivery(t),
           event' \in [Events -> {"none", "pending"} \cup Settled]
    PROVE  TypeOK'
  <1>1. AfterDelivery(t) \in {"idle", "answering", "delivering", "parking", "replying"}
    BY DEF AfterDelivery
  <1>2. pc' \in [Turns -> {"idle", "answering", "delivering", "parking", "replying"}]
    BY <1>1, TurnTypes DEF EndDelivery, Goto
  <1> QED
    BY <1>2 DEF TypeOK, EndDelivery, session

LEMMA WorkTypes == ASSUME TypeOK, NEW t \in Turns, Work(t) PROVE TypeOK'
  <1>1. ASSUME NEW s \in Signals, NEW e \in Events, Escalate(t, s, e) PROVE TypeOK'
    <2>1. pc' \in [Turns -> {"idle", "answering", "delivering", "parking", "replying"}]
      BY <1>1, TurnTypes DEF Escalate, Goto
    <2>2. Contacts \in 0..Contacts
      BY NumberAssumption
    <2> QED
      BY <1>1, <2>1, <2>2 DEF TypeOK, Escalate, session, Settled
  <1>2. CASE Notify(t)
    <2>1. left[t] \in 0..Contacts /\ left[t] > 0
      BY <1>2 DEF TypeOK, Notify
    <2>2. left[t] - 1 \in 0..Contacts
      BY <2>1, NumberAssumption
    <2>3. left' \in [Turns -> 0..Contacts]
      BY <1>2, <2>2 DEF TypeOK, Notify
    <2> QED
      BY <1>2, <2>3 DEF TypeOK, Notify, session, table
  <1>3. CASE MarkDelivered(t)
    BY <1>3, EndTypes DEF TypeOK, MarkDelivered, Settled
  <1>4. CASE LeaveUnmarked(t)
    BY <1>4, EndTypes DEF TypeOK, LeaveUnmarked
  <1>5. CASE Park(t)
    <2>1. pc' \in [Turns -> {"idle", "answering", "delivering", "parking", "replying"}]
      BY <1>5, TurnTypes DEF Park, Goto
    <2>2. 0 \in 0..Timeout
      BY NumberAssumption
    <2> QED
      BY <1>5, <2>1, <2>2 DEF TypeOK, Park, Touched, table
  <1>6. CASE Reply(t)
    <2>1. over' \in Nat
      BY <1>6 DEF TypeOK, Reply
    <2> QED
      BY <1>6, <2>1, FinishedTypes DEF TypeOK, Reply, session, table
  <1> QED
    BY <1>1, <1>2, <1>3, <1>4, <1>5, <1>6 DEF Work

(* One more fault stays within the bound.                                   *)
LEMMA OneMoreFault ==
    ASSUME TypeOK, faults < MaxFaults, faults' = faults + 1
    PROVE  faults' \in 0..MaxFaults
  BY NumberAssumption DEF TypeOK

LEMMA FaultTypes == ASSUME TypeOK, NEW t \in Turns, TurnFault(t) PROVE TypeOK'
  <1>1. CASE GateFailsOpen(t)
    <2>1. pc' \in [Turns -> {"idle", "answering", "delivering", "parking", "replying"}]
      BY <1>1, TurnTypes DEF GateFailsOpen, Goto
    <2> QED
      BY <1>1, <2>1, OneMoreFault DEF TypeOK, GateFailsOpen, session, table
  <1>2. CASE ParkFails(t)
    <2>1. pc' \in [Turns -> {"idle", "answering", "delivering", "parking", "replying"}]
      BY <1>2, TurnTypes DEF ParkFails, Goto
    <2> QED
      BY <1>2, <2>1, OneMoreFault DEF TypeOK, ParkFails, session, table
  <1>3. CASE TurnDies(t)
    BY <1>3, OneMoreFault, FinishedTypes DEF TypeOK, TurnDies, session, table
  <1>4. ASSUME NEW s \in Signals, EscalateUnrecorded(t, s) PROVE TypeOK'
    <2>1. pc' \in [Turns -> {"idle", "answering", "delivering", "parking", "replying"}]
      BY <1>4, TurnTypes DEF EscalateUnrecorded, Goto
    <2>2. Contacts \in 0..Contacts
      BY NumberAssumption
    <2> QED
      BY <1>4, <2>1, <2>2, OneMoreFault DEF TypeOK, EscalateUnrecorded, session, table
  <1> QED
    BY <1>1, <1>2, <1>3, <1>4 DEF TurnFault

LEMMA DeskTypes ==
    ASSUME TypeOK, NEW d \in Desks, Ask(d) \/ TakeOver(d) \/ HandBack(d)
    PROVE  TypeOK'
  <1>1. CASE Ask(d)
    <2>1. desk' \in [Desks -> {"idle", "take_over", "hand_back"}]
      BY <1>1 DEF TypeOK, Ask, Wanted
    <2> QED
      BY <1>1, <2>1 DEF TypeOK, Ask, session, table, turn
  <1>2. CASE TakeOver(d)
    <2>1. idle' \in 0..Timeout
      BY <1>2, NumberAssumption DEF TypeOK, TakeOver
    <2> QED
      BY <1>2, <2>1 DEF TypeOK, TakeOver, Touched, table, turn
  <1>3. CASE HandBack(d)
    <2>1. idle' \in 0..Timeout
      BY <1>3, NumberAssumption DEF TypeOK, HandBack
    <2> QED
      BY <1>3, <2>1 DEF TypeOK, HandBack, Touched, table, turn
  <1> QED
    BY <1>1, <1>2, <1>3

LEMMA SweepTypes ==
    ASSUME TypeOK, NEW s \in Sweepers, FindDue(s) \/ Finalize(s) \/ SweepFails(s)
    PROVE  TypeOK'
  <1>1. CASE FindDue(s)
    BY <1>1 DEF TypeOK, FindDue, session, table, turn
  <1>2. CASE Finalize(s)
    <2>1. idle' \in 0..Timeout
      BY <1>2, NumberAssumption DEF Finalize
    <2> QED
      BY <1>2, <2>1 DEF TypeOK, Finalize, table, turn
  <1>3. CASE SweepFails(s)
    BY <1>3, OneMoreFault DEF TypeOK, SweepFails, session, table, turn
  <1> QED
    BY <1>1, <1>2, <1>3

(* Every step preserves the types.                                          *)
LEMMA TypeStep == TypeOK /\ [Next]_vars => TypeOK'
  <1> SUFFICES ASSUME TypeOK, [Next]_vars PROVE TypeOK'
    OBVIOUS
  <1>1. ASSUME NEW t \in Turns, Receive(t) PROVE TypeOK'
    <2>1. pc' \in [Turns -> {"idle", "answering", "delivering", "parking", "replying"}]
      BY <1>1, TurnTypes DEF TypeOK, Receive, Goto
    <2> QED
      BY <1>1, <2>1 DEF TypeOK, Receive, session, table
  <1>2. ASSUME NEW t \in Turns, AbortAck(t) PROVE TypeOK'
    BY <1>2 DEF TypeOK, AbortAck, session, table, turn
  <1>3. ASSUME NEW t \in Turns, AbortDelivery(t) PROVE TypeOK'
    BY <1>3, EndTypes DEF TypeOK, AbortDelivery
  <1>4. ASSUME NEW e \in Events, BeginAck(e) PROVE TypeOK'
    BY <1>4 DEF TypeOK, BeginAck, session, table, turn
  <1>5. CASE CommitAck
    BY <1>5 DEF TypeOK, CommitAck, session, turn, Settled
  <1>6. CASE Tick
    <2>1. idle' \in 0..Timeout
      BY <1>6, NumberAssumption DEF TypeOK, Tick
    <2> QED
      BY <1>6, <2>1 DEF TypeOK, Tick, table, turn
  <1>7. CASE UNCHANGED vars
    BY <1>7 DEF TypeOK, vars, session, table, turn
  <1> QED
    BY <1>1, <1>2, <1>3, <1>4, <1>5, <1>6, <1>7,
       WorkTypes, FaultTypes, DeskTypes, SweepTypes DEF Next

LEMMA TypeInit == Init => TypeOK
  <1> SUFFICES ASSUME Init PROVE TypeOK
    OBVIOUS
  <1>1. 0 \in 0..Timeout /\ 0 \in 0..Contacts /\ 0 \in 0..MaxFaults
    BY NumberAssumption
  <1> QED
    BY <1>1 DEF Init, TypeOK, None

(* The types, and what follows from them for the sweep: only one that is    *)
(* under way can have missed a write of the row.                            *)
THEOREM HandoffTypes == Spec => []TypeOK
  BY TypeInit, TypeStep, PTL DEF Spec

----------------------------------------------------------------------------
(* What SpokenOver needs: the turns that have passed the gate and not yet   *)
(* answered are the interruptions still to come.  Under human control this  *)
(* sum never grows, because the gate lets nobody in; and while the          *)
(* assistant is in control, nothing interrupts anybody.                     *)
Busy == {t \in Turns : pc[t] # "idle"}

Pending ==
    /\ faults = 0 /\ mode = "human_controlled" =>
           over + Cardinality(Busy) <= Cardinality(Turns)
    /\ mode = "luciel" => over = 0

(* Busy is finite, and no larger than the set of turns.                     *)
LEMMA BusyFits ==
    IsFiniteSet(Busy) /\ Cardinality(Busy) \in Nat /\ Cardinality(Turns) \in Nat
    /\ Cardinality(Busy) <= Cardinality(Turns)
  <1>1. IsFiniteSet(Turns) /\ Busy \subseteq Turns
    BY ActorAssumption DEF Busy
  <1> QED
    BY <1>1, FS_Subset, FS_CardinalityType

LEMMA BusyFitsNext == (Cardinality(Busy) \in Nat /\ Cardinality(Busy) <= Cardinality(Turns))'
  BY BusyFits, PTL

(* A step that keeps control, the replies and the busy turns keeps the sum. *)
LEMMA SameSum ==
    ASSUME TypeOK, Pending, faults' = 0 => faults = 0,
           mode' = mode, over' = over, Busy' = Busy
    PROVE  Pending'
  BY DEF Pending

(* When control changes hands, no reply has interrupted anybody yet.        *)
LEMMA FreshSum == ASSUME over' = 0 PROVE Pending'
  BY BusyFitsNext, BusyFits DEF Pending

LEMMA SumWork == ASSUME TypeOK, Pending, NEW t \in Turns, Work(t) PROVE Pending'
  <1>1. ASSUME NEW s \in Signals, NEW e \in Events, Escalate(t, s, e) PROVE Pending'
    <2>1. Busy' = Busy
      BY <1>1 DEF TypeOK, Escalate, Goto, Busy
    <2> QED
      BY <1>1, <2>1, SameSum DEF Escalate, session
  <1>2. CASE Notify(t)
    BY <1>2, SameSum DEF Notify, session, Busy
  <1>3. CASE EndDelivery(t)
    <2>1. Busy' = Busy
      BY <1>3 DEF TypeOK, EndDelivery, Goto, AfterDelivery, Busy
    <2> QED
      BY <1>3, <2>1, SameSum DEF EndDelivery, session
  <1>4. CASE Park(t)
    <2>1. CASE mode = "luciel"
      BY <1>4, <2>1, FreshSum DEF Park, Pending
    <2>2. CASE mode # "luciel"
      <3>1. Busy' = Busy
        BY <1>4 DEF TypeOK, Park, Goto, Busy
      <3> QED
        BY <1>4, <2>2, <3>1, SameSum DEF Park
    <2> QED
      BY <2>1, <2>2
  <1>5. CASE Reply(t)
    <2>1. t \in Busy
      BY <1>5 DEF Reply, Busy
    <2>2. Busy' = Busy \ {t}
      BY <1>5 DEF TypeOK, Reply, Finished, Goto, Busy
    <2>3. Cardinality(Busy') = Cardinality(Busy) - 1
      BY <2>1, <2>2, BusyFits, FS_RemoveElement
    <2>4. over \in Nat /\ (over' = over \/ over' = over + 1)
      BY <1>5 DEF TypeOK, Reply
    <2>5. faults' = faults /\ mode' = mode
      BY <1>5 DEF Reply, session
    <2>6. over + Cardinality(Busy) <= Cardinality(Turns)
            => over' + Cardinality(Busy') <= Cardinality(Turns)
      BY <2>3, <2>4, BusyFits
    <2>7. mode = "luciel" => over' = over
      BY <1>5 DEF Reply, Interrupts
    <2> QED
      BY <2>5, <2>6, <2>7 DEF Pending
  <1> QED
    BY <1>1, <1>2, <1>3, <1>4, <1>5 DEF Work, MarkDelivered, LeaveUnmarked

(* A fault ends the promise, and interrupts nobody.                         *)
LEMMA SumFault == ASSUME TypeOK, Pending, NEW t \in Turns, TurnFault(t) PROVE Pending'
  <1>1. faults \in Nat /\ faults' = faults + 1 /\ mode' = mode /\ over' = over
    BY NumberAssumption
       DEF TypeOK, TurnFault, GateFailsOpen, ParkFails, TurnDies, EscalateUnrecorded, session
  <1> QED
    BY <1>1 DEF Pending

LEMMA SumStep == TypeOK /\ Pending /\ [Next]_vars => Pending'
  <1> SUFFICES ASSUME TypeOK, Pending, [Next]_vars PROVE Pending'
    OBVIOUS
  <1>1. ASSUME NEW t \in Turns, Receive(t) PROVE Pending'
    <2>1. CASE mode = "luciel"
      BY <1>1, <2>1 DEF Receive, session, Pending
    <2>2. CASE mode # "luciel"
      <3>1. UNCHANGED pc
        BY <1>1, <2>2 DEF Receive
      <3> QED
        BY <1>1, <3>1, SameSum DEF Receive, session, Busy
    <2> QED
      BY <2>1, <2>2
  <1>2. ASSUME NEW t \in Turns, AbortAck(t) PROVE Pending'
    BY <1>2, SameSum DEF AbortAck, session, turn, Busy
  <1>3. ASSUME NEW t \in Turns, AbortDelivery(t) PROVE Pending'
    <2>1. Busy' = Busy
      BY <1>3 DEF TypeOK, AbortDelivery, EndDelivery, Goto, AfterDelivery, Busy
    <2> QED
      BY <1>3, <2>1, SameSum DEF AbortDelivery, EndDelivery, session
  <1>4. ASSUME NEW d \in Desks, Ask(d) PROVE Pending'
    BY <1>4, SameSum DEF Ask, session, turn, Busy
  <1>5. ASSUME NEW d \in Desks, TakeOver(d) PROVE Pending'
    <2>1. CASE mode = "luciel"
      BY <1>5, <2>1, FreshSum DEF TakeOver, Pending
    <2>2. CASE mode # "luciel"
      <3>1. mode = "human_controlled"
        BY <2>2 DEF TypeOK
      <3> QED
        BY <1>5, <2>2, <3>1, SameSum DEF TakeOver, turn, Busy
    <2> QED
      BY <2>1, <2>2
  <1>6. ASSUME NEW d \in Desks, HandBack(d) PROVE Pending'
    BY <1>6, FreshSum DEF HandBack
  <1>7. ASSUME NEW e \in Events, BeginAck(e) PROVE Pending'
    BY <1>7, SameSum DEF BeginAck, session, turn, Busy
  <1>8. CASE CommitAck
    BY <1>8, SameSum DEF CommitAck, session, turn, Busy
  <1>9. ASSUME NEW s \in Sweepers, FindDue(s) \/ Finalize(s) PROVE Pending'
    BY <1>9, SameSum DEF FindDue, Finalize, session, turn, Busy
  <1>10. ASSUME NEW s \in Sweepers, SweepFails(s) PROVE Pending'
    <2>1. faults \in Nat /\ faults' = faults + 1 /\ mode' = mode /\ over' = over
      BY <1>10, NumberAssumption DEF TypeOK, SweepFails, session
    <2> QED
      BY <2>1 DEF Pending
  <1>11. CASE Tick
    BY <1>11, SameSum DEF Tick, turn, Busy
  <1>12. CASE UNCHANGED vars
    BY <1>12, SameSum DEF vars, session, turn, Busy
  <1> QED
    BY <1>1, <1>2, <1>3, <1>4, <1>5, <1>6, <1>7, <1>8, <1>9, <1>10, <1>11, <1>12,
       SumWork, SumFault DEF Next

(* A human in control is interrupted at most once per turn that had passed  *)
(* the gate before, however many messages come in afterwards.               *)
THEOREM InterruptionsBounded == Spec => []SpokenOver
  <1>1. Init => Pending
    BY DEF Init, Pending
  <1>2. TypeOK /\ Pending => SpokenOver
    <2> SUFFICES ASSUME TypeOK, Pending PROVE SpokenOver
      OBVIOUS
    <2>1. over + Cardinality(Busy) <= Cardinality(Turns) => over <= Cardinality(Turns)
      BY BusyFits DEF TypeOK
    <2> QED
      BY <2>1 DEF Pending, SpokenOver
  <1> QED
    BY <1>1, <1>2, HandoffTypes, SumStep, PTL DEF Spec

----------------------------------------------------------------------------
(* What EndsOldRows needs: as long as nobody writes the row, the age that a *)
(* sweep has seen is the row's age.                                         *)
SweepsAge == \A s \in sweep \ stale : status = "active" => idle = Timeout

(* Who neither touches the row nor the sweeps leaves their ages as they are. *)
LEMMA SameAge ==
    ASSUME SweepsAge, UNCHANGED <<status, idle, sweep, stale>>
    PROVE  SweepsAge'
  BY DEF SweepsAge

(* Who writes the row makes every sweep under way stale.                    *)
LEMMA TouchedAge == ASSUME Touched, sweep' = sweep PROVE SweepsAge'
  BY DEF SweepsAge, Touched

LEMMA TurnAge ==
    ASSUME SweepsAge, NEW t \in Turns,
           Receive(t) \/ Work(t) \/ TurnFault(t) \/ AbortAck(t) \/ AbortDelivery(t)
    PROVE  SweepsAge' /\ status' = status
  <1>1. CASE Park(t)
    <2>1. CASE mode = "luciel"
      BY <1>1, <2>1, TouchedAge DEF Park
    <2>2. CASE mode # "luciel"
      BY <1>1, <2>2, SameAge DEF Park
    <2> QED
      BY <2>1, <2>2, <1>1 DEF Park
  <1>2. CASE ~Park(t)
    <2>1. UNCHANGED <<status, idle, sweep, stale>>
      BY <1>2 DEF Receive, Work, TurnFault, AbortAck, AbortDelivery, Escalate, Notify,
         MarkDelivered, LeaveUnmarked, EndDelivery, Reply, GateFailsOpen, ParkFails,
         TurnDies, EscalateUnrecorded, session
    <2> QED
      BY <2>1, SameAge
  <1> QED
    BY <1>1, <1>2

LEMMA DeskAge ==
    ASSUME SweepsAge, NEW d \in Desks, Ask(d) \/ TakeOver(d) \/ HandBack(d)
    PROVE  SweepsAge' /\ status' = status
  <1>1. CASE Ask(d)
    BY <1>1, SameAge DEF Ask, session
  <1>2. CASE TakeOver(d) \/ HandBack(d)
    BY <1>2, TouchedAge DEF TakeOver, HandBack
  <1> QED
    BY <1>1, <1>2

(* A sweep that is not stale ends the session at its full age.              *)
LEMMA SweepAge ==
    ASSUME TypeOK, SweepsAge, NEW s \in Sweepers, FindDue(s) \/ Finalize(s) \/ SweepFails(s)
    PROVE  /\ SweepsAge'
           /\ status = "active" /\ status' = "ended" => idle = Timeout \/ stale \ sweep' # {}
  <1>1. CASE FindDue(s)
    BY <1>1 DEF SweepsAge, FindDue, Due, session
  <1>2. CASE Finalize(s)
    <2>1. SweepsAge'
      BY <1>2 DEF SweepsAge, Finalize
    <2>2. s \in stale => s \in stale \ sweep'
      BY <1>2 DEF Finalize
    <2>3. s \notin stale /\ status = "active" => idle = Timeout
      BY <1>2 DEF SweepsAge, Finalize
    <2> QED
      BY <2>1, <2>2, <2>3
  <1>3. CASE SweepFails(s)
    BY <1>3 DEF SweepsAge, SweepFails, session, TypeOK
  <1> QED
    BY <1>1, <1>2, <1>3

LEMMA AgeStep ==
    TypeOK /\ SweepsAge /\ [Next]_vars =>
        /\ SweepsAge'
        /\ status = "active" /\ status' = "ended" => idle = Timeout \/ stale \ sweep' # {}
  <1> SUFFICES ASSUME TypeOK, SweepsAge, [Next]_vars
               PROVE  /\ SweepsAge'
                      /\ status = "active" /\ status' = "ended"
                           => idle = Timeout \/ stale \ sweep' # {}
    OBVIOUS
  <1>1. ASSUME NEW e \in Events, BeginAck(e) PROVE SweepsAge' /\ status' = status
    BY <1>1, SameAge DEF BeginAck, session
  <1>2. CASE CommitAck
    BY <1>2, SameAge DEF CommitAck, session
  <1>3. CASE Tick
    BY <1>3, NumberAssumption DEF Tick, SweepsAge, TypeOK
  <1>4. CASE UNCHANGED vars
    BY <1>4, SameAge DEF vars, session
  <1> QED
    BY <1>1, <1>2, <1>3, <1>4, TurnAge, DeskAge, SweepAge DEF Next

(* However many sweeps overlap, a session is ended only at its full age, or *)
(* by a sweep in whose back somebody has written the row.                   *)
THEOREM EndsAtFullAge == Spec => EndsOldRows
  <1>1. Init => SweepsAge
    BY DEF Init, SweepsAge
  <1>2. TypeOK /\ SweepsAge /\ [Next]_vars =>
          [status = "active" /\ status' = "ended"
             => idle = Timeout \/ stale \ sweep' # {}]_vars
    BY AgeStep
  <1> QED
    BY <1>1, <1>2, AgeStep, HandoffTypes, PTL DEF Spec, EndsOldRows
=============================================================================
