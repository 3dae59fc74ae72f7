---- MODULE AudioWorkerProofs ----
(***************************************************************************)
(* What AudioWorker guarantees for every capacity and every number of      *)
(* submissions and starts.                                                 *)
(***************************************************************************)
EXTENDS AudioWorker, SequenceTheorems, TLAPS

-----------------------------------------------------------------------------
(* The ring. *)

\* next_index() stays in the ring, and is the successor but for the wrap.
LEMMA NextIndexIs ==
    ASSUME NEW i \in Index
    PROVE  /\ NextIndex(i) = IF i = Capacity THEN 0 ELSE i + 1
           /\ NextIndex(i) \in Index
<1> USE CapacityAssumption DEF Index, Slots, NextIndex
<1>1. CASE i = Capacity
  <2>1. (Capacity + 1) % (Capacity + 1) = 0
    BY SMTT(30)
  <2>. QED BY <1>1, <2>1
<1>2. CASE i # Capacity
  <2>1. i + 1 \in 0 .. Capacity
    BY <1>2
  <2>2. \A n, k \in Nat : k <= n => k % (n + 1) = k
    BY SMTT(30)
  <2>3. (i + 1) % (Capacity + 1) = i + 1
    BY <2>1, <2>2
  <2>. QED BY <1>2, <2>1, <2>3
<1>. QED BY <1>1, <1>2

-----------------------------------------------------------------------------
(* Types, and the counter that stop() and run() wait on. *)

\* Types and the count hold at first.
LEMMA InitType == Init => TypeOK /\ CountInv
<1> SUFFICES ASSUME Init PROVE TypeOK /\ CountInv
  OBVIOUS
<1> USE CapacityAssumption, BoundAssumption DEF Init
<1>1. slots \in [Index -> Frame \cup {None}] /\ head \in Index /\ tail \in Index
  BY DEF Index, Slots
<1>2. accepted \in Seq(Frame) /\ delivered \in Seq(Frame \cup {None})
  OBVIOUS
<1>3. submitted \in 0..MaxSubmits /\ starts \in 0..MaxStarts
  OBVIOUS
<1>. QED
  BY <1>1, <1>2, <1>3 DEF TypeOK, CountInv, Counted, ProducerPc, WorkerPc, ControlPc

\* A step of submit() keeps them.
LEMMA ProducerType ==
    ASSUME TypeOK, CountInv, Submit \/ ProducerStep
    PROVE  TypeOK' /\ CountInv'
<1> USE BoundAssumption DEF TypeOK, CountInv, Counted, ProducerPc, Producer,
       queueVars, flagVars, historyVars
<1>1. CASE Submit
  BY <1>1 DEF Submit
<1>2. CASE \/ SubmitRunning \/ SubmitAccepting
           \/ SubmitReRunning \/ SubmitReAccepting \/ SubmitReStop
  BY <1>2 DEF SubmitRunning, SubmitAccepting, SubmitReRunning, SubmitReAccepting,
       SubmitReStop, Load
<1>3. CASE SubmitEnter
  BY <1>3 DEF SubmitEnter
<1>4. CASE PushRoom
  BY <1>4 DEF PushRoom
<1>5. CASE PushWrite
  <2>1. submitted \in Frame
    BY <1>5 DEF Frame, PushWrite
  <2>. QED BY <1>5, <2>1 DEF PushWrite
<1>6. CASE PushPublish
  <2>1. submitted \in Frame
    BY <1>6 DEF Frame, PushPublish
  <2>. QED BY <1>6, <2>1, NextIndexIs DEF PushPublish
<1>7. CASE SubmitLeave
  BY <1>7 DEF SubmitLeave
<1>. QED
  BY <1>1, <1>2, <1>3, <1>4, <1>5, <1>6, <1>7 DEF ProducerStep

\* A step of the worker does.
LEMMA WorkerType ==
    ASSUME TypeOK, CountInv, WorkerStep
    PROVE  TypeOK' /\ CountInv'
<1> USE DEF TypeOK, CountInv, Counted, WorkerPc, Worker,
       queueVars, flagVars, historyVars
<1>1. CASE Pop \/ Caught \/ CheckStop \/ CheckInFlight \/ CheckSize
  BY <1>1 DEF Pop, Caught, CheckStop, CheckInFlight, CheckSize
<1>2. CASE Take
  BY <1>2 DEF Take
<1>3. CASE Advance
  BY <1>3, NextIndexIs DEF Advance
<1>4. CASE Process
  BY <1>4 DEF Process
<1>5. CASE StoreVisible
  <2>1. lateStores' \in 0..2
    BY <1>5 DEF StoreVisible, StoreAcceptingVisible, StoreStopVisible
  <2>2. accepting' \in BOOLEAN /\ stopRequested' \in BOOLEAN
    BY <1>5 DEF StoreVisible, StoreAcceptingVisible, StoreStopVisible
  <2>3. UNCHANGED <<queueVars, running, inFlight, ppc, wpc, cpc, hand, historyVars>>
    BY <1>5 DEF StoreVisible, StoreAcceptingVisible, StoreStopVisible
  <2>. QED BY <2>1, <2>2, <2>3
<1>6. CASE Close \/ Exit
  BY <1>6 DEF Close, Exit
<1>. QED
  BY <1>1, <1>2, <1>3, <1>4, <1>5, <1>6 DEF WorkerStep

\* A step of start() or stop() does.
LEMMA ControlType ==
    ASSUME TypeOK, CountInv, CallStart \/ CallStop \/ ControlStep
    PROVE  TypeOK' /\ CountInv'
<1> USE BoundAssumption DEF TypeOK, CountInv, Counted, ControlPc, WorkerPc, Control,
       ControlOnly, queueVars, flagVars
<1>1. CASE CallStart
  BY <1>1 DEF CallStart
<1>2. CASE CallStop
  BY <1>2 DEF CallStop
<1>3. CASE StartRunning \/ StartReap
  BY <1>3 DEF StartRunning, StartReap
<1>4. CASE StartClaim \/ StartDisarm
  BY <1>4 DEF StartClaim, StartDisarm
<1>5. CASE StartArm \/ StartSpawn
  BY <1>5 DEF StartArm, StartSpawn
<1>6. CASE StartOpen \/ SpawnFails
  BY <1>6 DEF StartOpen, SpawnFails
<1>7. CASE FailRequest \/ FailClose
  BY <1>7 DEF FailRequest, FailClose
<1>8. CASE FailRelease
  BY <1>8 DEF FailRelease
<1>9. CASE StopClose \/ StopRequest
  BY <1>9 DEF StopClose, StopRequest
<1>10. CASE StopDrain \/ StopJoin
  BY <1>10 DEF StopDrain, StopJoin
<1>11. CASE StopRelease
  BY <1>11 DEF StopRelease
<1>. HIDE DEF TypeOK, CountInv
<1>. QED
  BY <1>1, <1>2, <1>3, <1>4, <1>5, <1>6, <1>7, <1>8, <1>9, <1>10, <1>11
     DEF ControlStep, StartStep, StopStep

\* Every variable keeps its type, and in_flight_submissions_ is one exactly while
\* submit() is between its increment and its decrement: stop() and run() may rely
\* on it, on either memory.
THEOREM TypeCorrect == Spec => [](TypeOK /\ CountInv)
<1>1. TypeOK /\ CountInv /\ UNCHANGED vars => TypeOK' /\ CountInv'
  BY DEF vars, queueVars, flagVars, historyVars, TypeOK, CountInv, Counted
<1>2. TypeOK /\ CountInv /\ [Next]_vars => TypeOK' /\ CountInv'
  BY <1>1, ProducerType, WorkerType, ControlType DEF Next
<1>. QED
  BY InitType, <1>2, PTL DEF Spec

-----------------------------------------------------------------------------
(* stop() leaves nobody inside, on either memory. *)

\* Nobody is let in while stop() waits, after any step.
LEMMA QuietStep ==
    ASSUME TypeOK, CountInv, QuietInv, [Next]_vars
    PROVE  QuietInv'
<1> USE DEF QuietInv, MayPublish, Committed
<1>1. CASE UNCHANGED vars
  BY <1>1 DEF vars, flagVars
<1>2. CASE Submit \/ ProducerStep
  BY <1>2 DEF Submit, ProducerStep, SubmitRunning, SubmitAccepting, SubmitEnter,
       SubmitReRunning, SubmitReAccepting, SubmitReStop, Load, PushRoom, PushWrite,
       PushPublish, SubmitLeave, Producer, flagVars
<1>3. CASE WorkerStep
  BY <1>3 DEF WorkerStep, Pop, Take, Advance, Process, StoreVisible,
       StoreAcceptingVisible, StoreStopVisible, Caught,
       CheckStop, CheckInFlight, CheckSize, Close, Exit, flagVars
<1>4. CASE CallStart \/ CallStop \/ StartStep
  BY <1>4 DEF CallStart, CallStop, StartStep, StartRunning, StartReap, StartClaim,
       StartDisarm, StartArm, StartSpawn, StartOpen, SpawnFails, FailRequest,
       FailClose, FailRelease, Control, ControlOnly
<1>5. CASE StopStep
  BY <1>5 DEF StopStep, StopClose, StopRequest, StopDrain, StopJoin, StopRelease,
       Control, ControlOnly, CountInv, Counted
<1>. QED
  BY <1>1, <1>2, <1>3, <1>4, <1>5 DEF Next, ControlStep

\* After stop()'s wait loop no submit() can still write to the queue, whatever the
\* memory does with the catch block's stores.
THEOREM StopQuiesces == Spec => []StopExcludesPush
<1>1. Init => QuietInv
  BY DEF Init, QuietInv
<1>2. QuietInv => StopExcludesPush
  BY DEF QuietInv, MayPublish, StopExcludesPush
<1>. QED
  BY <1>1, <1>2, TypeCorrect, QuietStep, PTL DEF Spec

-----------------------------------------------------------------------------
(* The slots, on either memory. *)

\* Two indices with the same successor are one.
LEMMA NextIndexInjective ==
    ASSUME NEW i \in Index, NEW j \in Index, NextIndex(i) = NextIndex(j)
    PROVE  i = j
BY NextIndexIs, CapacityAssumption DEF Index, Slots

\* Each side's last look at the other's index stays a safe one, after any step.
LEMMA RingStep ==
    ASSUME TypeOK, RingInv, [Next]_vars
    PROVE  RingInv'
<1> USE DEF RingInv
<1>1. CASE UNCHANGED vars
  BY <1>1 DEF vars, queueVars
<1>2. CASE Submit \/ SubmitRunning \/ SubmitAccepting \/ SubmitEnter \/ SubmitReRunning
           \/ SubmitReAccepting \/ SubmitReStop \/ PushWrite \/ SubmitLeave
  BY <1>2 DEF Submit, SubmitRunning, SubmitAccepting, SubmitEnter, SubmitReRunning,
       SubmitReAccepting, SubmitReStop, PushWrite, SubmitLeave, Load, Producer, queueVars
<1>3. CASE PushRoom
  BY <1>3 DEF PushRoom, Producer, Full
<1>4. CASE PushPublish
  BY <1>4 DEF PushPublish, Producer
<1>5. CASE Pop
  BY <1>5 DEF Pop, Worker, queueVars
<1>6. CASE Advance
  <2>1. head # tail
    BY <1>6 DEF Advance, Worker
  <2>2. NextIndex(head) # NextIndex(tail)
    BY <2>1, NextIndexInjective DEF TypeOK
  <2>. QED BY <1>6, <2>2 DEF Advance, Worker
<1>7. CASE Take \/ Process \/ StoreVisible \/ Caught \/ CheckStop \/ CheckInFlight
           \/ CheckSize \/ Close \/ Exit
  BY <1>7 DEF Take, Process, StoreVisible, StoreAcceptingVisible, StoreStopVisible, Caught,
       CheckStop, CheckInFlight, CheckSize, Close, Exit, Worker, queueVars
<1>8. CASE CallStart \/ CallStop \/ ControlStep
  <2>1. UNCHANGED <<head, tail, ppc>> /\ (wpc' = wpc \/ wpc' \in {"none", "pop"})
    BY <1>8 DEF CallStart, CallStop, ControlStep, StartStep, StopStep, StartRunning,
       StartReap, StartClaim, StartDisarm, StartArm, StartSpawn, StartOpen, SpawnFails,
       FailRequest, FailClose, FailRelease, StopClose, StopRequest, StopDrain, StopJoin,
       StopRelease, ControlOnly, queueVars
  <2>. QED BY <2>1
<1>. QED
  BY <1>1, <1>2, <1>3, <1>4, <1>5, <1>6, <1>7, <1>8 DEF Next, ProducerStep, WorkerStep

\* So it is one always.
LEMMA RingHolds == Spec => []RingInv
<1>1. Init => RingInv
  BY DEF Init, RingInv
<1>. QED
  BY <1>1, TypeCorrect, RingStep, PTL DEF Spec

\* The producer never fills a slot the worker is moving a frame out of: neither side
\* needs more than its own index and one look at the other's.
THEOREM SlotsAreHandedOver == Spec => []NoSlotRace
<1>1. RingInv => NoSlotRace
  BY DEF RingInv, NoSlotRace
<1>. QED
  BY <1>1, RingHolds, PTL

-----------------------------------------------------------------------------
(* The drain, with stores visible at once. *)

\* At first nobody is on the way out.
LEMMA InitDrain == Init => StopInv /\ StartInv /\ ExitInv
BY DEF Init, StopInv, StartInv, ExitInv, Restarting, MayPublish, Committed, Alive

\* A submission in progress: it can begin to publish only while submissions are
\* accepted, and it changes no flag.
LEMMA ProducerDrain ==
    ASSUME TypeOK, DrainInv, Submit \/ ProducerStep
    PROVE  DrainInv'
<1> USE DEF TypeOK, DrainInv, StopInv, QuietInv, StartInv, ExitInv, Restarting, MayPublish,
       Committed, Alive, Producer, queueVars, flagVars, historyVars
<1>0. CountInv'
  BY ProducerType
<1>1. CASE Submit
  BY <1>0, <1>1 DEF Submit
<1>2. CASE SubmitRunning \/ SubmitAccepting \/ SubmitReRunning
  BY <1>0, <1>2 DEF SubmitRunning, SubmitAccepting, SubmitReRunning, Load
<1>3. CASE SubmitReAccepting
  <2>1. ppc' = "reStop" => accepting
    BY <1>3 DEF SubmitReAccepting, Load
  <2>2. accepting => wpc \notin {"size", "close", "closed", "done", "none"}
    OBVIOUS
  <2>. QED BY <1>0, <1>3, <2>1, <2>2 DEF SubmitReAccepting, Load
<1>4. CASE SubmitReStop
  BY <1>0, <1>4 DEF SubmitReStop, Load
<1>5. CASE SubmitEnter \/ SubmitLeave
  BY <1>0, <1>5 DEF SubmitEnter, SubmitLeave
<1>6. CASE PushRoom \/ PushWrite
  BY <1>0, <1>6 DEF PushRoom, PushWrite
<1>7. CASE PushPublish
  <2>1. cpc # "open" /\ wpc \notin {"size", "close", "closed", "done", "none"}
    BY <1>7 DEF PushPublish
  <2>. QED BY <1>0, <1>7, <2>1 DEF PushPublish
<1>. QED
  BY <1>1, <1>2, <1>3, <1>4, <1>5, <1>6, <1>7 DEF ProducerStep

\* The catch block's stores: submissions are closed before the stop is requested.
LEMMA StoreDrain ==
    ASSUME TypeOK, DrainInv, CountInv', StoreVisible
    PROVE  DrainInv'
<1> USE DEF StoreVisible, StoreAcceptingVisible, StoreStopVisible
<1>1. wpc = "caught" /\ cpc # "open"
  BY DEF TypeOK, DrainInv, StopInv, StartInv
<1>2. UNCHANGED <<head, tail, ppc, wpc, cpc>> /\ (accepting' => accepting)
  BY DEF queueVars
<1>3. StopInv'
  BY <1>1 DEF TypeOK, DrainInv, StopInv
<1>4. QuietInv'
  BY <1>2, Zenon DEF DrainInv, QuietInv, MayPublish, Committed
<1>5. StartInv' /\ ExitInv'
  BY <1>1, <1>2 DEF DrainInv, StartInv, ExitInv, Restarting, Alive
<1>. QED
  BY <1>3, <1>4, <1>5 DEF DrainInv

\* run(): each of the three loads of the exit condition establishes one conjunct of
\* ExitInv, and what it saw stays so.
LEMMA WorkerDrain ==
    ASSUME LateStores = FALSE, TypeOK, DrainInv, WorkerStep
    PROVE  DrainInv'
<1>0. CountInv'
  BY WorkerType DEF DrainInv
<1>1. CASE StoreVisible
  BY <1>0, <1>1, StoreDrain
<1> USE DEF TypeOK, DrainInv, StopInv, QuietInv, StartInv, ExitInv, Restarting, MayPublish,
       Committed, Alive, Worker, queueVars, flagVars, historyVars
<1>2. CASE Pop \/ Caught
  BY <1>0, <1>2 DEF Pop, Caught
<1>3. CASE Take \/ Advance
  BY <1>0, <1>3 DEF Take, Advance
<1>4. CASE Process
  BY <1>0, <1>4 DEF Process
<1>5. CASE CheckStop
  BY <1>0, <1>5 DEF CheckStop
<1>6. CASE CheckInFlight
  <2>1. wpc' = "size" => ~MayPublish
    BY <1>6 DEF CheckInFlight, CountInv, Counted
  <2>. QED BY <1>0, <1>6, <2>1 DEF CheckInFlight
<1>7. CASE CheckSize
  <2>1. Size = 0 => head = tail
    BY CapacityAssumption DEF Size, Slots, Index
  <2>. QED BY <1>0, <1>7, <2>1 DEF CheckSize
<1>8. CASE Close \/ Exit
  BY <1>0, <1>8 DEF Close, Exit
<1>. QED
  BY <1>1, <1>2, <1>3, <1>4, <1>5, <1>6, <1>7, <1>8 DEF WorkerStep

\* A step of start() or stop() keeps what draining rests on.
LEMMA ControlDrain ==
    ASSUME TypeOK, DrainInv, CallStart \/ CallStop \/ ControlStep
    PROVE  DrainInv'
<1> USE DEF TypeOK, DrainInv, StopInv, QuietInv, StartInv, ExitInv, Restarting, MayPublish,
       Committed, Alive, Control, ControlOnly, queueVars, flagVars, historyVars
<1>0. CountInv'
  BY ControlType
<1>1. CASE CallStart \/ CallStop
  BY <1>0, <1>1 DEF CallStart, CallStop
<1>2. CASE StartRunning \/ StartReap \/ StartClaim
  BY <1>0, <1>2 DEF StartRunning, StartReap, StartClaim
<1>3. CASE StartDisarm \/ StartArm
  BY <1>0, <1>3 DEF StartDisarm, StartArm
<1>4. CASE StartSpawn \/ StartOpen
  BY <1>0, <1>4 DEF StartSpawn, StartOpen
<1>5. CASE SpawnFails \/ FailRequest \/ FailClose \/ FailRelease
  BY <1>0, <1>5 DEF SpawnFails, FailRequest, FailClose, FailRelease
<1>6. CASE StopClose \/ StopRequest
  BY <1>0, <1>6 DEF StopClose, StopRequest
<1>7. CASE StopDrain
  BY <1>0, <1>7 DEF StopDrain, CountInv, Counted
<1>8. CASE StopJoin \/ StopRelease
  BY <1>0, <1>8 DEF StopJoin, StopRelease
<1>. QED
  BY <1>1, <1>2, <1>3, <1>4, <1>5, <1>6, <1>7, <1>8 DEF ControlStep, StartStep, StopStep

\* When stores are visible at once it holds always.
LEMMA DrainHolds == LateStores = FALSE /\ Spec => []DrainInv
<1> SUFFICES ASSUME LateStores = FALSE PROVE Spec => []DrainInv
  OBVIOUS
<1>1. Init => DrainInv
  <2>1. Init => QuietInv
    BY DEF Init, QuietInv
  <2>. QED BY InitType, InitDrain, <2>1 DEF DrainInv
<1>2. TypeOK /\ DrainInv /\ UNCHANGED vars => DrainInv'
  BY DEF vars, queueVars, flagVars, historyVars, DrainInv, CountInv, Counted, StopInv,
     QuietInv, StartInv, ExitInv, Restarting, MayPublish, Committed, Alive
<1>3. TypeOK /\ DrainInv /\ [Next]_vars => DrainInv'
  BY <1>2, ProducerDrain, WorkerDrain, ControlDrain DEF Next
<1>. QED
  BY <1>1, <1>3, TypeCorrect, PTL DEF Spec

\* "stop drains every accepted frame before joining the worker thread": on a memory
\* that shows the catch block's stores at once, no worker thread ever ends, by
\* stop() or by a throwing processor, with a published frame in the ring.
THEOREM DrainedOnEveryExit == LateStores = FALSE /\ Spec => []DrainedWhenStopped
<1>1. DrainInv => DrainedWhenStopped
  BY DEF DrainInv, ExitInv, DrainedWhenStopped, Alive
<1>. QED
  BY <1>1, DrainHolds, PTL

-----------------------------------------------------------------------------
(* The sequence of frames in the ring. *)

Held == Frame \cup {None}

\* Contents, as a function of the slots and the two indices.
Count(h, t) == IF h >= t THEN h - t ELSE Slots - t + h
Place(t, i) == (t + i - 1) % Slots
Queue(s, h, t) == [i \in 1 .. Count(h, t) |-> s[Place(t, i)]]

\* An index counted from the tail wraps at most once.
LEMMA PlaceIs ==
    ASSUME NEW t \in Index, NEW i \in 1 .. Slots
    PROVE  /\ Place(t, i) = IF t + i - 1 <= Capacity THEN t + i - 1 ELSE t + i - 1 - Slots
           /\ Place(t, i) \in Index
<1> USE CapacityAssumption DEF Index, Slots, Place
<1>1. \A n, k \in Nat : k <= n => k % (n + 1) = k
  BY SMTT(30)
<1>2. \A n, k \in Nat : k <= n => (n + 1 + k) % (n + 1) = k
  BY SMTT(30)
<1>3. CASE t + i - 1 <= Capacity
  BY <1>1, <1>3
<1>4. CASE ~(t + i - 1 <= Capacity)
  <2>1. t + i - 1 - Slots \in 0 .. Capacity
    BY <1>4
  <2>2. (Capacity + 1 + (t + i - 1 - Slots)) % (Capacity + 1) = t + i - 1 - Slots
    BY <1>2, <2>1
  <2>3. Capacity + 1 + (t + i - 1 - Slots) = t + i - 1
    OBVIOUS
  <2> QED
    BY <1>4, <2>1, <2>2, <2>3
<1> QED
  BY <1>3, <1>4

\* What the two indices say of the number of frames, and what a step of either changes.
LEMMA CountIs ==
    ASSUME NEW h \in Index, NEW t \in Index
    PROVE  /\ Count(h, t) \in 0 .. Capacity
           /\ Count(h, t) = 0 <=> h = t
           /\ NextIndex(h) # t => Count(NextIndex(h), t) = Count(h, t) + 1
           /\ h # t => Count(h, NextIndex(t)) = Count(h, t) - 1
BY NextIndexIs, CapacityAssumption DEF Count, Index, Slots

\* The oldest frame is at the tail, the next one goes to the head, and neither place is
\* another frame's.
LEMMA PlacesAre ==
    ASSUME NEW h \in Index, NEW t \in Index
    PROVE  /\ Place(t, Count(h, t) + 1) = h
           /\ Place(t, 1) = t
           /\ \A i \in 1 .. Count(h, t) : Place(t, i) # h
           /\ \A i \in 2 .. Count(h, t) : Place(t, i) # t
           /\ \A i \in 1 .. Count(h, t) - 1 : Place(NextIndex(t), i) = Place(t, i + 1)
<1> USE CapacityAssumption DEF Count, Index, Slots
<1>1. Place(t, Count(h, t) + 1) = h /\ Place(t, 1) = t
  BY PlaceIs
<1>2. \A i \in 1 .. Count(h, t) : Place(t, i) # h
  BY PlaceIs
<1>3. \A i \in 2 .. Count(h, t) : Place(t, i) # t
  BY PlaceIs
<1>4. \A i \in 1 .. Count(h, t) - 1 : Place(NextIndex(t), i) = Place(t, i + 1)
  <2> SUFFICES ASSUME NEW i \in 1 .. Count(h, t) - 1
               PROVE  Place(NextIndex(t), i) = Place(t, i + 1)
    OBVIOUS
  <2>1. i \in 1 .. Slots /\ i + 1 \in 1 .. Slots /\ i <= Capacity
    OBVIOUS
  <2>2. NextIndex(t) = IF t = Capacity THEN 0 ELSE t + 1
    BY NextIndexIs
  <2>3. /\ Place(t, i + 1) = IF t + i <= Capacity THEN t + i ELSE t + i - Slots
        /\ \A u \in Index : Place(u, i) = IF u + i - 1 <= Capacity THEN u + i - 1
                                                             ELSE u + i - 1 - Slots
    BY <2>1, PlaceIs
  <2> HIDE DEF Place
  <2> QED
    BY <2>1, <2>2, <2>3
<1> QED
  BY <1>1, <1>2, <1>3, <1>4

\* What the ring contains, slot by slot.
LEMMA QueueIs ==
    ASSUME NEW s \in [Index -> Held], NEW h \in Index, NEW t \in Index
    PROVE  /\ Queue(s, h, t) \in Seq(Held)
           /\ Len(Queue(s, h, t)) = Count(h, t)
           /\ \A i \in 1 .. Count(h, t) : Queue(s, h, t)[i] = s[Place(t, i)]
<1>1. Count(h, t) \in Nat
  BY CountIs, CapacityAssumption
<1>2. \A i \in 1 .. Count(h, t) : Place(t, i) \in Index
  BY PlaceIs, CountIs, CapacityAssumption DEF Slots
<1>3. Queue(s, h, t) \in [1 .. Count(h, t) -> Held]
  BY <1>2 DEF Queue
<1>4. Queue(s, h, t) \in Seq(Held)
  BY <1>1, <1>3, SeqDef
<1>5. DOMAIN Queue(s, h, t) = 1 .. Count(h, t)
  BY DEF Queue
<1>6. Len(Queue(s, h, t)) = Count(h, t)
  BY <1>1, <1>4, <1>5, LenProperties
<1> QED
  BY <1>4, <1>6 DEF Queue

\* One lemma per access of the ring: what it does to the sequence of its frames.
LEMMA PublishAppends ==
    ASSUME NEW s \in [Index -> Held], NEW h \in Index, NEW t \in Index, NextIndex(h) # t
    PROVE  Queue(s, NextIndex(h), t) = Append(Queue(s, h, t), s[h])
<1> DEFINE q == Queue(s, h, t)
           r == Queue(s, NextIndex(h), t)
           n == Count(h, t)
<1>1. n \in Nat /\ Count(NextIndex(h), t) = n + 1
  BY CountIs, CapacityAssumption
<1>2. /\ q \in Seq(Held) /\ Len(q) = n
      /\ \A i \in 1 .. n : q[i] = s[Place(t, i)]
  BY QueueIs
<1>3. /\ r \in Seq(Held) /\ Len(r) = n + 1
      /\ \A i \in 1 .. n + 1 : r[i] = s[Place(t, i)]
  BY <1>1, QueueIs, NextIndexIs
<1>4. s[Place(t, n + 1)] = s[h]
  BY PlacesAre
<1>5. s[h] \in Held
  OBVIOUS
<1> HIDE DEF q, r, n
<1>6. /\ Append(q, s[h]) \in Seq(Held)
      /\ Len(Append(q, s[h])) = n + 1
      /\ \A i \in 1 .. n : Append(q, s[h])[i] = q[i]
      /\ Append(q, s[h])[n + 1] = s[h]
  BY <1>2, <1>5, AppendProperties
<1>7. \A i \in 1 .. Len(r) : r[i] = Append(q, s[h])[i]
  BY <1>1, <1>2, <1>3, <1>4, <1>6
<1>8. r = Append(q, s[h])
  BY <1>3, <1>6, <1>7, SeqEqual
<1> QED
  BY <1>8 DEF q, r

\* Writing the slot at the head changes nothing of it.
LEMMA WriteIsUnseen ==
    ASSUME NEW s \in [Index -> Held], NEW h \in Index, NEW t \in Index, NEW x
    PROVE  Queue([s EXCEPT ![h] = x], h, t) = Queue(s, h, t)
<1>1. \A i \in 1 .. Count(h, t) : Place(t, i) \in Index /\ Place(t, i) # h
  BY PlaceIs, PlacesAre, CountIs, CapacityAssumption DEF Slots
<1> QED
  BY <1>1 DEF Queue

\* Advancing the tail drops its first frame.
LEMMA AdvanceTails ==
    ASSUME NEW s \in [Index -> Held], NEW h \in Index, NEW t \in Index, h # t
    PROVE  Queue(s, h, NextIndex(t)) = Tail(Queue(s, h, t))
<1> DEFINE q == Queue(s, h, t)
           r == Queue(s, h, NextIndex(t))
           n == Count(h, t)
<1>1. n \in Nat /\ n # 0 /\ Count(h, NextIndex(t)) = n - 1
  BY CountIs, CapacityAssumption
<1>2. /\ q \in Seq(Held) /\ Len(q) = n
      /\ \A i \in 1 .. n : q[i] = s[Place(t, i)]
  BY QueueIs
<1>3. /\ r \in Seq(Held) /\ Len(r) = n - 1
      /\ \A i \in 1 .. n - 1 : r[i] = s[Place(NextIndex(t), i)]
  BY <1>1, QueueIs, NextIndexIs
<1>4. \A i \in 1 .. n - 1 : Place(NextIndex(t), i) = Place(t, i + 1)
  BY PlacesAre
<1> HIDE DEF q, r, n
<1>5. q # <<>>
  BY <1>1, <1>2, EmptySeq
<1>6. /\ Tail(q) \in Seq(Held) /\ Len(Tail(q)) = n - 1
      /\ \A i \in 1 .. n - 1 : Tail(q)[i] = q[i + 1]
  BY <1>2, <1>5, HeadTailProperties
<1>7. \A i \in 1 .. Len(r) : r[i] = Tail(q)[i]
  BY <1>1, <1>2, <1>3, <1>4, <1>6
<1>8. r = Tail(q)
  BY <1>3, <1>6, <1>7, SeqEqual
<1> QED
  BY <1>8 DEF q, r

\* Taking a frame splits it into that frame and the rest.
LEMMA TakeSplits ==
    ASSUME NEW s \in [Index -> Held], NEW h \in Index, NEW t \in Index, h # t
    PROVE  <<s[t]>> \o Tail(Queue([s EXCEPT ![t] = None], h, t)) = Queue(s, h, t)
<1> DEFINE e == [s EXCEPT ![t] = None]
           q == Queue(s, h, t)
           r == Queue(e, h, t)
           n == Count(h, t)
<1>0. e \in [Index -> Held]
  BY DEF Held
<1>1. n \in Nat /\ n # 0
  BY CountIs, CapacityAssumption
<1>2. /\ q \in Seq(Held) /\ Len(q) = n
      /\ \A i \in 1 .. n : q[i] = s[Place(t, i)]
  BY QueueIs
<1>3. /\ r \in Seq(Held) /\ Len(r) = n
      /\ \A i \in 1 .. n : r[i] = e[Place(t, i)]
  BY <1>0, QueueIs
<1>4. \A i \in 2 .. n : e[Place(t, i)] = s[Place(t, i)]
  <2>1. \A i \in 2 .. n : Place(t, i) \in Index /\ Place(t, i) # t
    BY PlaceIs, PlacesAre, CountIs, CapacityAssumption DEF Slots
  <2> QED BY <2>1
<1>5. s[Place(t, 1)] = s[t] /\ s[t] \in Held
  BY PlacesAre
<1> HIDE DEF e, q, r, n
<1>6. r # <<>>
  BY <1>1, <1>3, EmptySeq
<1>7. /\ Tail(r) \in Seq(Held) /\ Len(Tail(r)) = n - 1
      /\ \A i \in 1 .. n - 1 : Tail(r)[i] = r[i + 1]
  BY <1>3, <1>6, HeadTailProperties
<1>8. <<s[t]>> \in Seq(Held) /\ Len(<<s[t]>>) = 1 /\ <<s[t]>>[1] = s[t]
  BY <1>5
<1>9. /\ <<s[t]>> \o Tail(r) \in Seq(Held)
      /\ Len(<<s[t]>> \o Tail(r)) = n
      /\ \A i \in 1 .. n : (<<s[t]>> \o Tail(r))[i] =
                             IF i <= 1 THEN <<s[t]>>[i] ELSE Tail(r)[i - 1]
  BY <1>1, <1>7, <1>8, ConcatProperties
<1>10. \A i \in 1 .. n : (<<s[t]>> \o Tail(r))[i] = q[i]
  <2> SUFFICES ASSUME NEW i \in 1 .. n PROVE (<<s[t]>> \o Tail(r))[i] = q[i]
    OBVIOUS
  <2>1. CASE i = 1
    BY <1>2, <1>5, <1>8, <1>9, <2>1
  <2>2. CASE i # 1
    <3>1. i - 1 \in 1 .. n - 1 /\ i \in 2 .. n
      BY <1>1, <2>2
    <3>2. Tail(r)[i - 1] = r[i]
      BY <1>7, <3>1
    <3> QED BY <1>2, <1>3, <1>4, <1>9, <2>2, <3>1, <3>2
  <2> QED BY <2>1, <2>2
<1>11. <<s[t]>> \o Tail(r) = q
  BY <1>2, <1>9, <1>10, SeqEqual
<1> QED
  BY <1>11 DEF q, r, e

\* The frame in the worker's hand stands before those of the ring.
LEMMA HandAppend ==
    ASSUME NEW x \in Held, NEW q \in Seq(Held)
    PROVE  /\ Len(<<x>> \o q) = Len(q) + 1
           /\ Len(q) \in Nat
           /\ \A f \in Held : <<x>> \o Append(q, f) = Append(<<x>> \o q, f)
<1>1. <<x>> \in Seq(Held) /\ Len(<<x>>) = 1
  OBVIOUS
<1>2. Len(<<x>> \o q) = Len(q) + 1 /\ Len(q) \in Nat
  BY <1>1, ConcatProperties, LenProperties
<1>3. ASSUME NEW f \in Held
      PROVE  <<x>> \o Append(q, f) = Append(<<x>> \o q, f)
  <2>1. Append(q, f) = q \o <<f>> /\ <<f>> \in Seq(Held)
    BY AppendIsConcat
  <2>2. <<x>> \o q \in Seq(Held)
    BY <1>1, ConcatProperties
  <2>3. Append(<<x>> \o q, f) = (<<x>> \o q) \o <<f>>
    BY <2>2, AppendIsConcat
  <2> QED
    BY <1>1, <2>1, <2>3, ConcatAssociative
<1> QED
  BY <1>2, <1>3

\* The frame in hand is in front of what is queued.
LEMMA HandFirst ==
    ASSUME NEW x \in Held, NEW q \in Seq(Held)
    PROVE  /\ <<x>> \o q # <<>>
           /\ Head(<<x>> \o q) = x
           /\ Tail(<<x>> \o q) = q
<1>1. <<x>> \in Seq(Held) /\ Len(<<x>>) = 1 /\ <<x>>[1] = x /\ Len(q) \in Nat
  BY LenProperties
<1> DEFINE s == <<x>> \o q
<1>2. /\ s \in Seq(Held) /\ Len(s) = Len(q) + 1
      /\ \A i \in 1 .. Len(q) + 1 : s[i] = IF i <= 1 THEN <<x>>[i] ELSE q[i - 1]
  BY <1>1, ConcatProperties
<1> HIDE DEF s
<1>3. s # <<>>
  BY <1>1, <1>2, EmptySeq
<1>4. Head(s) = x
  BY <1>1, <1>2, <1>3
<1>5. /\ Tail(s) \in Seq(Held) /\ Len(Tail(s)) = Len(q)
      /\ \A i \in 1 .. Len(q) : Tail(s)[i] = s[i + 1]
  BY <1>1, <1>2, <1>3, HeadTailProperties
<1>6. \A i \in 1 .. Len(q) : Tail(s)[i] = q[i]
  BY <1>1, <1>2, <1>5
<1>7. Tail(s) = q
  BY <1>5, <1>6, SeqEqual
<1> QED
  BY <1>3, <1>4, <1>7 DEF s

-----------------------------------------------------------------------------
(* The refinement of FrameChannel. *)

\* Before and after a step.
LEMMA ContentsIs ==
    /\ Contents = Queue(slots, head, tail)
    /\ Contents' = Queue(slots', head', tail')
BY DEF Contents, Queue, Size, Count, Place

\* What is about to be published has been written.
FilledInv == ppc = "publish" => slots[head] = submitted

WorkInv == TypeOK /\ DrainInv /\ RingInv /\ FilledInv

\* A step that the channel does not see.
ChannelSame == (Alive' <=> Alive) /\ Custody' = Custody /\ delivered' = delivered

\* What is about to be published is in its slot, after any step.
LEMMA FilledStep ==
    ASSUME TypeOK, RingInv, FilledInv, [Next]_vars
    PROVE  FilledInv'
<1> USE DEF FilledInv
<1>1. CASE PushWrite
  BY <1>1 DEF PushWrite, Producer, TypeOK, historyVars
<1>2. CASE \/ Submit \/ SubmitRunning \/ SubmitAccepting \/ SubmitEnter \/ SubmitReRunning
           \/ SubmitReAccepting \/ SubmitReStop \/ PushRoom \/ PushPublish \/ SubmitLeave
  <2>1. ppc' # "publish"
    BY <1>2 DEF Submit, SubmitRunning, SubmitAccepting, SubmitEnter, SubmitReRunning,
         SubmitReAccepting, SubmitReStop, PushRoom, PushPublish, SubmitLeave, Load, Producer
  <2> QED BY <2>1
<1>3. CASE Take
  <2>1. head # tail
    BY <1>3 DEF Take, Worker, RingInv
  <2> QED BY <1>3, <2>1 DEF Take, TypeOK, historyVars
<1>4. CASE \/ UNCHANGED vars \/ (WorkerStep /\ ~Take)
           \/ CallStart \/ CallStop \/ ControlStep
  <2>1. UNCHANGED <<slots, head, ppc, submitted>>
    BY <1>4 DEF vars, WorkerStep, Pop, Advance, Process, StoreVisible,
       StoreAcceptingVisible, StoreStopVisible, Caught, CheckStop, CheckInFlight,
       CheckSize, Close, Exit, CallStart, CallStop, ControlStep, StartStep, StopStep,
       StartRunning, StartReap, StartClaim, StartDisarm, StartArm, StartSpawn, StartOpen,
       SpawnFails, FailRequest, FailClose, FailRelease, StopClose, StopRequest, StopDrain,
       StopJoin, StopRelease, ControlOnly, queueVars, historyVars
  <2> QED BY <2>1
<1> QED
  BY <1>1, <1>2, <1>3, <1>4 DEF Next, ProducerStep

\* A step of submit() is an Accept of the channel or none of its steps.
LEMMA ProducerIsChannel ==
    ASSUME WorkInv, Submit \/ ProducerStep
    PROVE  ChannelSame \/ Channel!Next
<1>0. /\ slots \in [Index -> Held] /\ head \in Index /\ tail \in Index
      /\ delivered \in Seq(Held) /\ hand \in Held
  BY DEF WorkInv, TypeOK, Held
<1>1. CASE \/ Submit \/ SubmitRunning \/ SubmitAccepting \/ SubmitEnter \/ SubmitReRunning
           \/ SubmitReAccepting \/ SubmitReStop \/ PushRoom \/ SubmitLeave
  <2>1. UNCHANGED <<slots, head, tail, wpc, hand, delivered>>
    BY <1>1 DEF Submit, SubmitRunning, SubmitAccepting, SubmitEnter, SubmitReRunning,
         SubmitReAccepting, SubmitReStop, PushRoom, SubmitLeave, Load, queueVars, historyVars
  <2>2. Contents' = Contents
    BY <2>1 DEF Contents, Size
  <2> QED
    BY <2>1, <2>2 DEF ChannelSame, Alive, Custody
<1>2. CASE PushWrite
  <2>1. /\ slots' = [slots EXCEPT ![head] = submitted]
        /\ UNCHANGED <<head, tail, wpc, hand, delivered>>
    BY <1>2 DEF PushWrite, historyVars
  <2>2. Contents' = Contents
    BY <1>0, <2>1, ContentsIs, WriteIsUnseen
  <2> QED
    BY <2>1, <2>2 DEF ChannelSame, Alive, Custody
<1>3. CASE PushPublish
  <2>1. /\ ppc = "publish" /\ head' = NextIndex(head)
        /\ UNCHANGED <<slots, tail, wpc, hand, delivered>>
    BY <1>3 DEF PushPublish, Producer
  <2>2. NextIndex(head) # tail /\ slots[head] = submitted
    BY <2>1 DEF WorkInv, RingInv, FilledInv
  <2>3. submitted \in Frame
    BY <2>1 DEF WorkInv, DrainInv, CountInv, TypeOK, Frame
  <2>4. Alive
    BY <2>1 DEF WorkInv, DrainInv, ExitInv, MayPublish, Committed, Alive
  <2>5. Contents' = Append(Contents, submitted)
    BY <1>0, <2>1, <2>2, ContentsIs, PublishAppends
  <2>6. /\ Contents \in Seq(Held)
        /\ Len(Contents) = Count(head, tail)
        /\ Count(head, tail) \in Nat /\ Count(head, tail) < Capacity
    <3>1. Count(NextIndex(head), tail) = Count(head, tail) + 1
      BY <1>0, <2>2, CountIs
    <3>2. Count(NextIndex(head), tail) \in 0 .. Capacity /\ Count(head, tail) \in 0 .. Capacity
      BY <1>0, CountIs, NextIndexIs
    <3> QED
      BY <1>0, <3>1, <3>2, ContentsIs, QueueIs, CapacityAssumption
  <2>7. /\ Custody' = Append(Custody, submitted)
        /\ Len(Custody) <= Capacity
    <3>1. CASE wpc = "advance"
      <4>1. head # tail
        BY <3>1 DEF WorkInv, RingInv
      <4>2. Contents # <<>>
        BY <1>0, <2>6, <4>1, CountIs, EmptySeq
      <4>3. Tail(Append(Contents, submitted)) = Append(Tail(Contents), submitted)
        BY <2>6, <4>2, HeadTailAppend
      <4>4. Tail(Contents) \in Seq(Held) /\ Len(Tail(Contents)) = Len(Contents) - 1
        BY <2>6, <4>2, HeadTailProperties
      <4>5. /\ <<hand>> \o Append(Tail(Contents), submitted)
                 = Append(<<hand>> \o Tail(Contents), submitted)
            /\ Len(<<hand>> \o Tail(Contents)) = Len(Contents)
        BY <1>0, <2>3, <2>6, <4>4, HandAppend DEF Held
      <4> QED
        BY <2>1, <2>5, <2>6, <3>1, <4>3, <4>5, CapacityAssumption DEF Custody
    <3>2. CASE wpc = "process"
      <4>1. /\ <<hand>> \o Append(Contents, submitted) = Append(<<hand>> \o Contents, submitted)
            /\ Len(<<hand>> \o Contents) = Len(Contents) + 1
        BY <1>0, <2>3, <2>6, HandAppend DEF Held
      <4> QED
        BY <2>1, <2>5, <2>6, <3>2, <4>1, CapacityAssumption DEF Custody
    <3>3. CASE wpc \notin {"advance", "process"}
      BY <2>1, <2>5, <2>6, <3>3, CapacityAssumption DEF Custody
    <3> QED
      BY <3>1, <3>2, <3>3
  <2>8. Len(Custody) \in Nat
    <3>1. CASE wpc = "advance"
      <4>1. head # tail
        BY <3>1 DEF WorkInv, RingInv
      <4>2. Contents # <<>>
        BY <1>0, <2>6, <4>1, CountIs, EmptySeq
      <4> QED
        BY <1>0, <2>6, <3>1, <4>2, HeadTailProperties, HandAppend DEF Custody
    <3>2. CASE wpc = "process"
      BY <1>0, <2>6, <3>2, HandAppend DEF Custody
    <3>3. CASE wpc \notin {"advance", "process"}
      BY <2>6, <3>3 DEF Custody
    <3> QED
      BY <3>1, <3>2, <3>3
  <2>9. Len(Custody) < Capacity + 1
    BY <2>7, <2>8, CapacityAssumption
  <2>10. Channel!Accept(submitted)
    BY <2>1, <2>4, <2>7, <2>9 DEF Channel!Accept, Alive
  <2> QED
    BY <2>3, <2>10 DEF Channel!Next
<1> QED
  BY <1>1, <1>2, <1>3 DEF ProducerStep

\* A step of the worker is a Deliver, a Close or none.
LEMMA WorkerIsChannel ==
    ASSUME WorkInv, WorkerStep
    PROVE  ChannelSame \/ Channel!Next
<1>0. /\ slots \in [Index -> Held] /\ head \in Index /\ tail \in Index
      /\ delivered \in Seq(Held) /\ hand \in Held
  BY DEF WorkInv, TypeOK, Held
<1>1. CASE Pop \/ Caught \/ CheckStop \/ CheckInFlight \/ CheckSize \/ Close
  <2>1. /\ UNCHANGED <<slots, head, tail, hand, delivered>>
        /\ Alive /\ Alive'
        /\ {wpc, wpc'} \cap {"advance", "process"} = {}
    BY <1>1 DEF Pop, Caught, CheckStop, CheckInFlight, CheckSize, Close, Worker, Alive,
         queueVars, historyVars
  <2>2. Contents' = Contents
    BY <2>1 DEF Contents, Size
  <2> QED
    BY <2>1, <2>2 DEF ChannelSame, Custody
<1>2. CASE StoreVisible
  <2>1. UNCHANGED <<slots, head, tail, wpc, hand, delivered>>
    BY <1>2 DEF StoreVisible, StoreAcceptingVisible, StoreStopVisible, queueVars, historyVars
  <2>2. Contents' = Contents
    BY <2>1 DEF Contents, Size
  <2> QED
    BY <2>1, <2>2 DEF ChannelSame, Alive, Custody
<1>3. CASE Take
  <2>1. /\ wpc = "take" /\ wpc' = "advance"
        /\ hand' = slots[tail] /\ slots' = [slots EXCEPT ![tail] = None]
        /\ UNCHANGED <<head, tail, delivered>>
    BY <1>3 DEF Take, Worker, historyVars
  <2>2. head # tail
    BY <2>1 DEF WorkInv, RingInv
  <2>3. <<hand'>> \o Tail(Contents') = Contents
    BY <1>0, <2>1, <2>2, ContentsIs, TakeSplits
  <2>4. Custody' = Contents /\ Custody = Contents
    BY <2>1, <2>3 DEF Custody
  <2> QED
    BY <2>1, <2>4 DEF ChannelSame, Alive
<1>4. CASE Advance
  <2>1. /\ wpc = "advance" /\ wpc' = "process"
        /\ tail' = NextIndex(tail)
        /\ UNCHANGED <<slots, head, hand, delivered>>
    BY <1>4 DEF Advance, Worker, historyVars
  <2>2. head # tail
    BY <2>1 DEF WorkInv, RingInv
  <2>3. Contents' = Tail(Contents)
    BY <1>0, <2>1, <2>2, ContentsIs, AdvanceTails
  <2> QED
    BY <2>1, <2>3 DEF ChannelSame, Alive, Custody
<1>5. CASE Process
  <2>1. /\ wpc = "process" /\ wpc' \in {"check", "caught"}
        /\ delivered' = Append(delivered, hand)
        /\ UNCHANGED <<slots, head, tail>>
    BY <1>5 DEF Process, queueVars
  <2>2. Contents' = Contents /\ Contents \in Seq(Held)
    <3>1. Contents' = Contents
      BY <2>1 DEF Contents, Size
    <3> QED
      BY <1>0, <3>1, ContentsIs, QueueIs
  <2>3. Custody = <<hand>> \o Contents /\ Custody' = Contents
    BY <2>1, <2>2 DEF Custody
  <2>4. /\ <<hand>> \o Contents # <<>>
        /\ Head(<<hand>> \o Contents) = hand
        /\ Tail(<<hand>> \o Contents) = Contents
    BY <1>0, <2>2, HandFirst
  <2>5. Channel!Deliver
    BY <2>1, <2>3, <2>4 DEF Channel!Deliver, Alive
  <2> QED
    BY <2>5 DEF Channel!Next
<1>6. CASE Exit
  <2>1. /\ wpc = "closed" /\ wpc' = "done"
        /\ UNCHANGED <<slots, head, tail, hand, delivered>>
    BY <1>6 DEF Exit, Worker, queueVars, historyVars
  <2>2. head = tail
    BY <2>1 DEF WorkInv, DrainInv, ExitInv
  <2>3. Contents = <<>> /\ Contents' = Contents
    <3>1. Contents' = Contents
      BY <2>1 DEF Contents, Size
    <3>2. Contents \in Seq(Held) /\ Len(Contents) = 0
      BY <1>0, <2>2, ContentsIs, QueueIs, CountIs
    <3> QED
      BY <3>1, <3>2, EmptySeq
  <2>4. Channel!Close
    BY <2>1, <2>3 DEF Channel!Close, Alive, Custody
  <2> QED
    BY <2>4 DEF Channel!Next
<1> QED
  BY <1>1, <1>2, <1>3, <1>4, <1>5, <1>6 DEF WorkerStep

\* A step of start() or stop() is one of the channel's or none.
LEMMA ControlIsChannel ==
    ASSUME WorkInv, CallStart \/ CallStop \/ ControlStep
    PROVE  ChannelSame \/ Channel!Next
<1>1. UNCHANGED <<slots, head, tail, hand, delivered>>
  BY DEF CallStart, CallStop, ControlStep, StartStep, StopStep, StartRunning, StartReap,
     StartClaim, StartDisarm, StartArm, StartSpawn, StartOpen, SpawnFails, FailRequest,
     FailClose, FailRelease, StopClose, StopRequest, StopDrain, StopJoin, StopRelease,
     ControlOnly, queueVars
<1>2. Contents' = Contents
  BY <1>1 DEF Contents, Size
<1>3. CASE StartSpawn
  <2>1. wpc = "none" /\ wpc' = "pop"
    BY <1>3 DEF StartSpawn, Control, WorkInv, DrainInv, StartInv, Restarting
  <2>2. Channel!Open
    BY <1>1, <1>2, <2>1 DEF Channel!Open, Alive, Custody
  <2> QED
    BY <2>2 DEF Channel!Next
<1>4. CASE StartReap \/ StopJoin
  <2>1. wpc \in {"none", "done"} /\ wpc' = "none"
    BY <1>4 DEF StartReap, StopJoin, Alive
  <2> QED
    BY <1>1, <1>2, <2>1 DEF ChannelSame, Alive, Custody
<1>5. CASE ~(StartSpawn \/ StartReap \/ StopJoin)
  <2>1. wpc' = wpc
    BY <1>5 DEF CallStart, CallStop, ControlStep, StartStep, StopStep, StartRunning,
       StartClaim, StartDisarm, StartArm, StartOpen, SpawnFails, FailRequest, FailClose,
       FailRelease, StopClose, StopRequest, StopDrain, StopRelease
  <2> QED
    BY <1>1, <1>2, <2>1 DEF ChannelSame, Alive, Custody
<1> QED
  BY <1>3, <1>4, <1>5

\* The worker implements the channel: whatever the interleaving of try_push, try_pop, start,
\* stop and a throwing processor, at any capacity and on a memory that shows stores at once,
\* accepted frames are delivered once and in order of submission, no more than the ring and
\* one hand can hold are waiting, and the worker ends only with none of them left.
THEOREM WorkerImplementsChannel == LateStores = FALSE /\ Spec => RefinesChannel
<1> SUFFICES ASSUME LateStores = FALSE PROVE Spec => RefinesChannel
  OBVIOUS
<1>1. Init => Channel!Init
  <2> SUFFICES ASSUME Init PROVE Channel!Init
    OBVIOUS
  <2>1. TypeOK
    BY InitType
  <2>2. slots \in [Index -> Held] /\ head \in Index /\ tail \in Index
    BY <2>1 DEF TypeOK, Held
  <2>3. Contents \in Seq(Held) /\ Len(Contents) = 0
    BY <2>2, ContentsIs, QueueIs, CountIs DEF Init
  <2>4. Contents = <<>>
    BY <2>3, EmptySeq
  <2> QED
    BY <2>4 DEF Init, Channel!Init, Alive, Custody
<1>2. Init => FilledInv
  BY DEF Init, FilledInv
<1>3. WorkInv /\ [Next]_vars => [Channel!Next]_(Channel!vars)
  <2> SUFFICES ASSUME WorkInv, [Next]_vars PROVE ChannelSame \/ Channel!Next
    <3>1. ChannelSame => UNCHANGED Channel!vars
      BY DEF ChannelSame, Channel!vars, Alive
    <3> QED
      BY <3>1
  <2>1. CASE UNCHANGED vars
    <3>1. UNCHANGED <<slots, head, tail, wpc, hand, delivered>>
      BY <2>1 DEF vars, queueVars, historyVars
    <3>2. Contents' = Contents
      BY <3>1 DEF Contents, Size
    <3> QED
      BY <3>1, <3>2 DEF ChannelSame, Alive, Custody
  <2> QED
    BY <2>1, ProducerIsChannel, WorkerIsChannel, ControlIsChannel DEF Next
<1> QED
  BY <1>1, <1>2, <1>3, TypeCorrect, RingHolds, DrainHolds, FilledStep, PTL
     DEF WorkInv, Spec, RefinesChannel, Channel!Spec
====
