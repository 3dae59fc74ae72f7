---- MODULE AudioWorker ----
(***************************************************************************)
(* AudioProcessingWorker and the AudioFrameQueue it drains                 *)
(* (src/core/audio_processing_worker.cpp, src/core/audio_frame_queue.cpp). *)
(*                                                                         *)
(* Three threads step through the code one atomic access at a time:        *)
(*   - the producer, in submit() and try_push() (pcs named after the       *)
(*     access they are about to make);                                     *)
(*   - the worker, in run() and try_pop();                                 *)
(*   - the controller, in start() and stop().  Every caller of these two   *)
(*     holds lifecycle_mutex_ from its first access to its last, so one    *)
(*     controller making the calls in any order stands for all of them.    *)
(*                                                                         *)
(* LateStores chooses the memory the code runs on.  FALSE: every store is  *)
(* visible at once.  TRUE: the two release stores of run()'s catch block   *)
(* may wait in the worker's store buffer while the worker itself, which    *)
(* reads its own stores, goes on to its acquire loads; release and acquire *)
(* accesses order nothing between them.                                    *)
(***************************************************************************)
EXTENDS Integers, Sequences, FiniteSets

CONSTANTS
    Capacity,       \* queue_capacity given to the constructor
    MaxSubmits,     \* bound: calls of submit() in a behaviour
    MaxStarts,      \* bound: calls of start() in a behaviour
    LateStores,     \* see above
    None            \* an empty slot, no frame in hand

ASSUME CapacityAssumption == Capacity \in Nat
ASSUME BoundAssumption == MaxSubmits \in Nat /\ MaxStarts \in Nat
ASSUME MemoryAssumption == LateStores \in BOOLEAN
ASSUME NoneAssumption == None \notin 1..MaxSubmits

VARIABLES
    slots, head, tail, dropped,     \* AudioFrameQueue
    running, accepting,             \* running_, accepting_submissions_
    stopRequested, inFlight,        \* stop_requested_, in_flight_submissions_
    lateStores,                     \* catch-block stores not yet visible
    ppc, wpc, cpc,                  \* where the three threads are
    hand,                           \* the frame try_pop() moved out
    submitted, starts,              \* calls made so far
    accepted, delivered             \* history: pushed frames, processed frames

queueVars == <<slots, head, tail, dropped>>
flagVars == <<running, accepting, stopRequested, inFlight, lateStores>>
historyVars == <<submitted, starts, accepted, delivered>>
vars == <<queueVars, flagVars, ppc, wpc, cpc, hand, historyVars>>

Frame == 1..MaxSubmits

ProducerPc == {"idle", "running", "accepting", "enter", "reRunning",
               "reAccepting", "reStop", "room", "write", "publish", "leave"}
WorkerPc == {"none", "pop", "take", "advance", "process", "caught", "check",
             "inFlight", "size", "close", "closed", "done"}
ControlPc == {"idle", "start", "reap", "claim", "disarm", "arm", "spawn",
              "open", "fail", "failClose", "failRelease",
              "stop", "request", "drain", "join", "release"}

\* The worker thread exists and has not returned from run().
Alive == wpc \notin {"none", "done"}

\* The producer passed submit()'s second check and has yet to leave.
Committed == ppc \in {"room", "write", "publish"}

-----------------------------------------------------------------------------
(* AudioFrameQueue: a ring with one slot more than its capacity. *)

Slots == Capacity + 1
Index == 0 .. Slots - 1
NextIndex(i) == (i + 1) % Slots
\* Mutant of Full: the ring's end is forgotten.
FullWithoutWrap == head + 1 = tail

\* One slot stays free so that head = tail means empty.
Full == NextIndex(head) = tail

\* size(): the frames between tail and head, wherever the ring wraps.
Size == IF head >= tail THEN head - tail ELSE Slots - tail + head

\* The published frames, oldest first.
Contents == [i \in 1..Size |-> slots[(tail + i - 1) % Slots]]

Init ==
    /\ slots = [i \in Index |-> None]
    /\ head = 0 /\ tail = 0 /\ dropped = 0
    /\ running = FALSE /\ accepting = FALSE
    /\ stopRequested = FALSE /\ inFlight = 0 /\ lateStores = 0
    /\ ppc = "idle" /\ wpc = "none" /\ cpc = "idle"
    /\ hand = None
    /\ submitted = 0 /\ starts = 0
    /\ accepted = <<>> /\ delivered = <<>>

-----------------------------------------------------------------------------
(* The producer: submit() and try_push(). *)

Producer(from, to) == ppc = from /\ ppc' = to

\* A load of one flag: refuse when it reads `refuses`, go on otherwise.
Load(from, refuses, refused, next) ==
    /\ Producer(from, IF refuses THEN refused ELSE next)
    /\ UNCHANGED <<queueVars, flagVars, wpc, cpc, hand, historyVars>>

Submit ==
    /\ submitted < MaxSubmits
    /\ Producer("idle", "running")
    /\ submitted' = submitted + 1
    /\ UNCHANGED <<queueVars, flagVars, wpc, cpc, hand, starts, accepted, delivered>>

SubmitRunning == Load("running", ~running, "idle", "accepting")
SubmitAccepting == Load("accepting", ~accepting, "idle", "enter")

SubmitEnter ==
    /\ Producer("enter", "reRunning")
    /\ inFlight' = inFlight + 1
    /\ UNCHANGED <<queueVars, running, accepting, stopRequested, lateStores,
                   wpc, cpc, hand, historyVars>>

SubmitReRunning == Load("reRunning", ~running, "leave", "reAccepting")
SubmitReAccepting == Load("reAccepting", ~accepting, "leave", "reStop")
SubmitReStop == Load("reStop", stopRequested, "leave", "room")

PushRoom ==
    /\ Producer("room", IF Full THEN "leave" ELSE "write")
    /\ dropped' = IF Full THEN dropped + 1 ELSE dropped
    /\ UNCHANGED <<slots, head, tail, flagVars, wpc, cpc, hand, historyVars>>

PushWrite ==
    /\ Producer("write", "publish")
    /\ slots' = [slots EXCEPT ![head] = submitted]
    /\ UNCHANGED <<head, tail, dropped, flagVars, wpc, cpc, hand, historyVars>>

PushPublish ==
    /\ Producer("publish", "leave")
    /\ head' = NextIndex(head)
    /\ accepted' = Append(accepted, submitted)
    /\ UNCHANGED <<slots, tail, dropped, flagVars, wpc, cpc, hand,
                   submitted, starts, delivered>>

SubmitLeave ==
    /\ Producer("leave", "idle")
    /\ inFlight' = inFlight - 1
    /\ UNCHANGED <<queueVars, running, accepting, stopRequested, lateStores,
                   wpc, cpc, hand, historyVars>>

ProducerStep ==
    \/ SubmitRunning \/ SubmitAccepting \/ SubmitEnter
    \/ SubmitReRunning \/ SubmitReAccepting \/ SubmitReStop
    \/ PushRoom \/ PushWrite \/ PushPublish \/ SubmitLeave

-----------------------------------------------------------------------------
(* The worker: run() and try_pop(). *)

Worker(from, to) == wpc = from /\ wpc' = to

\* try_pop() reads its own tail and the producer's head.
Pop ==
    /\ Worker("pop", IF head = tail THEN "check" ELSE "take")
    /\ UNCHANGED <<queueVars, flagVars, ppc, cpc, hand, historyVars>>

Take ==
    /\ Worker("take", "advance")
    /\ hand' = slots[tail]
    /\ slots' = [slots EXCEPT ![tail] = None]
    /\ UNCHANGED <<head, tail, dropped, flagVars, ppc, cpc, historyVars>>

Advance ==
    /\ Worker("advance", "process")
    /\ tail' = NextIndex(tail)
    /\ UNCHANGED <<slots, head, dropped, flagVars, ppc, cpc, hand, historyVars>>

\* Mutant of Process: the catch block leaves the loop.
ProcessThrowExits ==
    /\ wpc = "process"
    /\ delivered' = Append(delivered, hand)
    /\ hand' = None
    /\ \/ wpc' = "check" /\ UNCHANGED lateStores
       \/ wpc' = "close" /\ lateStores' = 2
    /\ UNCHANGED <<queueVars, running, accepting, stopRequested, inFlight,
                   ppc, cpc, submitted, starts, accepted>>

\* processor_(frame) returns, or throws into the catch block.
Process ==
    /\ wpc = "process"
    /\ delivered' = Append(delivered, hand)
    /\ hand' = None
    /\ \/ wpc' = "check" /\ UNCHANGED lateStores
       \/ wpc' = "caught" /\ lateStores' = 2
    /\ UNCHANGED <<queueVars, running, accepting, stopRequested, inFlight,
                   ppc, cpc, submitted, starts, accepted>>

\* The catch block's stores reach the other threads, in program order.
StoreAcceptingVisible ==
    /\ lateStores = 2
    /\ lateStores' = 1
    /\ accepting' = FALSE
    /\ UNCHANGED <<queueVars, running, stopRequested, inFlight, ppc, wpc, cpc,
                   hand, historyVars>>

StoreStopVisible ==
    /\ lateStores = 1
    /\ lateStores' = 0
    /\ stopRequested' = TRUE
    /\ UNCHANGED <<queueVars, running, accepting, inFlight, ppc, wpc, cpc,
                   hand, historyVars>>

StoreVisible == StoreAcceptingVisible \/ StoreStopVisible

Caught ==
    /\ LateStores \/ lateStores = 0
    /\ Worker("caught", "check")
    /\ UNCHANGED <<queueVars, flagVars, ppc, cpc, hand, historyVars>>

\* The exit condition's three loads, in the order the code makes them.
CheckStop ==
    /\ Worker("check", IF stopRequested \/ lateStores > 0 THEN "inFlight" ELSE "pop")
    /\ UNCHANGED <<queueVars, flagVars, ppc, cpc, hand, historyVars>>

\* Mutant of CheckInFlight: run() does not look at submissions in progress.
CheckInFlightSkipped ==
    /\ Worker("inFlight", "size")
    /\ UNCHANGED <<queueVars, flagVars, ppc, cpc, hand, historyVars>>

CheckInFlight ==
    /\ Worker("inFlight", IF inFlight = 0 THEN "size" ELSE "pop")
    /\ UNCHANGED <<queueVars, flagVars, ppc, cpc, hand, historyVars>>

\* Mutant of CheckSize: run() leaves without draining.
CheckSizeSkipped ==
    /\ Worker("size", "close")
    /\ UNCHANGED <<queueVars, flagVars, ppc, cpc, hand, historyVars>>

CheckSize ==
    /\ Worker("size", IF Size = 0 THEN "close" ELSE "pop")
    /\ UNCHANGED <<queueVars, flagVars, ppc, cpc, hand, historyVars>>

Close ==
    /\ lateStores = 0
    /\ Worker("close", "closed")
    /\ accepting' = FALSE
    /\ UNCHANGED <<queueVars, running, stopRequested, inFlight, lateStores,
                   ppc, cpc, hand, historyVars>>

Exit ==
    /\ Worker("closed", "done")
    /\ running' = FALSE
    /\ UNCHANGED <<queueVars, accepting, stopRequested, inFlight, lateStores,
                   ppc, cpc, hand, historyVars>>

WorkerStep ==
    \/ Pop \/ Take \/ Advance \/ Process \/ StoreVisible \/ Caught
    \/ CheckStop \/ CheckInFlight \/ CheckSize \/ Close \/ Exit

-----------------------------------------------------------------------------
(* The controller: start() and stop(). *)

Control(from, to) == cpc = from /\ cpc' = to

\* Accesses of the controller that leave the queue and the other threads alone.
ControlOnly == UNCHANGED <<queueVars, inFlight, lateStores, ppc, hand,
                           submitted, accepted, delivered>>

CallStart ==
    /\ starts < MaxStarts
    /\ Control("idle", "start")
    /\ starts' = starts + 1
    /\ ControlOnly /\ UNCHANGED <<running, accepting, stopRequested, wpc>>

StartRunning ==
    /\ Control("start", IF running THEN "idle" ELSE "reap")
    /\ ControlOnly /\ UNCHANGED <<running, accepting, stopRequested, wpc, starts>>

\* A worker that ended by itself still owns a joinable thread.
StartReap ==
    /\ Control("reap", "claim")
    /\ ~Alive
    /\ wpc' = "none"
    /\ ControlOnly /\ UNCHANGED <<running, accepting, stopRequested, starts>>

StartClaim ==
    /\ Control("claim", IF running THEN "idle" ELSE "disarm")
    /\ running' = TRUE
    /\ ControlOnly /\ UNCHANGED <<accepting, stopRequested, wpc, starts>>

StartDisarm ==
    /\ Control("disarm", "arm")
    /\ accepting' = FALSE
    /\ ControlOnly /\ UNCHANGED <<running, stopRequested, wpc, starts>>

StartArm ==
    /\ Control("arm", "spawn")
    /\ stopRequested' = FALSE
    /\ running' = TRUE
    /\ ControlOnly /\ UNCHANGED <<accepting, wpc, starts>>

StartSpawn ==
    /\ Control("spawn", "open")
    /\ wpc' = "pop"
    /\ ControlOnly /\ UNCHANGED <<running, accepting, stopRequested, starts>>

StartOpen ==
    /\ Control("open", "idle")
    /\ accepting' = TRUE
    /\ ControlOnly /\ UNCHANGED <<running, stopRequested, wpc, starts>>

\* std::thread construction throws: restore the stopped state.
SpawnFails ==
    /\ Control("spawn", "fail")
    /\ ControlOnly /\ UNCHANGED <<running, accepting, stopRequested, wpc, starts>>

FailRequest ==
    /\ Control("fail", "failClose")
    /\ stopRequested' = TRUE
    /\ ControlOnly /\ UNCHANGED <<running, accepting, wpc, starts>>

FailClose ==
    /\ Control("failClose", "failRelease")
    /\ accepting' = FALSE
    /\ ControlOnly /\ UNCHANGED <<running, stopRequested, wpc, starts>>

FailRelease ==
    /\ Control("failRelease", "idle")
    /\ running' = FALSE
    /\ ControlOnly /\ UNCHANGED <<accepting, stopRequested, wpc, starts>>

CallStop ==
    /\ Control("idle", "stop")
    /\ ControlOnly /\ UNCHANGED <<running, accepting, stopRequested, wpc, starts>>

StopClose ==
    /\ Control("stop", "request")
    /\ accepting' = FALSE
    /\ ControlOnly /\ UNCHANGED <<running, stopRequested, wpc, starts>>

\* Mutant of StopRequest: stop() does not raise stop_requested_.
StopRequestForgotten ==
    /\ Control("request", "drain")
    /\ ControlOnly /\ UNCHANGED <<running, accepting, stopRequested, wpc, starts>>

StopRequest ==
    /\ Control("request", "drain")
    /\ stopRequested' = TRUE
    /\ ControlOnly /\ UNCHANGED <<running, accepting, wpc, starts>>

\* Mutant of StopDrain: stop() does not wait for submissions in progress.
StopDrainSkipped ==
    /\ Control("drain", "join")
    /\ ControlOnly /\ UNCHANGED <<running, accepting, stopRequested, wpc, starts>>

\* The yield loop on in_flight_submissions_.
StopDrain ==
    /\ Control("drain", "join")
    /\ inFlight = 0
    /\ ControlOnly /\ UNCHANGED <<running, accepting, stopRequested, wpc, starts>>

StopJoin ==
    /\ Control("join", "release")
    /\ ~Alive
    /\ wpc' = "none"
    /\ ControlOnly /\ UNCHANGED <<running, accepting, stopRequested, starts>>

StopRelease ==
    /\ Control("release", "idle")
    /\ running' = FALSE
    /\ ControlOnly /\ UNCHANGED <<accepting, stopRequested, wpc, starts>>

StartStep ==
    \/ StartRunning \/ StartReap \/ StartClaim \/ StartDisarm \/ StartArm
    \/ StartSpawn \/ StartOpen
    \/ SpawnFails \/ FailRequest \/ FailClose \/ FailRelease
StopStep == StopClose \/ StopRequest \/ StopDrain \/ StopJoin \/ StopRelease
ControlStep == StartStep \/ StopStep

-----------------------------------------------------------------------------
Next ==
    \/ Submit \/ ProducerStep
    \/ WorkerStep
    \/ CallStart \/ CallStop \/ ControlStep

\* Nobody is obliged to call submit(), start() or stop(); a call once made, the
\* worker thread and the store buffer keep running.
Fairness ==
    /\ WF_vars(ProducerStep)
    /\ WF_vars(WorkerStep) /\ WF_vars(StoreVisible)
    /\ WF_vars(ControlStep)

Spec == Init /\ [][Next]_vars
FairSpec == Spec /\ Fairness

-----------------------------------------------------------------------------
TypeOK ==
    /\ slots \in [Index -> Frame \cup {None}]
    /\ head \in Index /\ tail \in Index
    /\ dropped \in Nat
    /\ running \in BOOLEAN /\ accepting \in BOOLEAN /\ stopRequested \in BOOLEAN
    /\ inFlight \in 0..1
    /\ lateStores \in 0..2
    /\ ppc \in ProducerPc /\ wpc \in WorkerPc /\ cpc \in ControlPc
    /\ hand \in Frame \cup {None}
    /\ submitted \in 0..MaxSubmits /\ starts \in 0..MaxStarts
    /\ accepted \in Seq(Frame) /\ delivered \in Seq(Frame \cup {None})

\* What the worker has taken over and not yet given to the processor: the frame
\* in its hand (whose slot is passed over at the store of tail) and the ring.
Custody ==
    CASE wpc = "advance" -> <<hand>> \o Tail(Contents)
      [] wpc = "process" -> <<hand>> \o Contents
      [] OTHER -> Contents

\* "stop drains every accepted frame before joining the worker thread"
\* (audio_processing_worker.hpp:21): once the worker thread has left run(), by
\* stop() or after a throwing processor, no published frame is left in the ring.
DrainedWhenStopped == ~Alive => head = tail

\* The same, in the words of the header: when stop() has joined the worker there is
\* nothing accepted left behind.
StopDrainsEveryAcceptedFrame == cpc = "release" => head = tail

\* The producer never fills the slot the worker is moving a frame out of.
NoSlotRace == (ppc = "write" /\ wpc = "take") => head # tail

\* From the moment stop() ends its wait for submissions in progress, no submit() that
\* passed its second check has yet to push its frame: none of them reaches the ring when
\* the worker has been joined.
StopExcludesPush == cpc \in {"join", "release"} => ~Committed

\* A stop() that was called returns: it never waits for a submission that cannot
\* end or for a worker that was not told to end.
StopReturns == (cpc = "stop") ~> (cpc = "idle")

\* An accepted frame reaches the processor even when a stop or a throwing
\* processor comes in between.
EveryAcceptedFrameIsDelivered ==
    \A f \in Frame :
        (\E i \in DOMAIN accepted : accepted[i] = f)
            ~> (\E i \in DOMAIN delivered : delivered[i] = f)

\* The worker implements the channel of FrameChannel: it is open while the worker
\* thread lives, and at most one frame is in its hand beside those of the ring.  Every
\* accepted frame is delivered once and in order of submission, whatever the interleaving
\* of try_push, try_pop, start and stop.
Channel == INSTANCE FrameChannel
    WITH Depth <- Capacity + 1, open <- Alive, custody <- Custody

RefinesChannel == Channel!Spec

-----------------------------------------------------------------------------
(***************************************************************************)
(* Why the drain works: the inductive strengthening of DrainedWhenStopped  *)
(* and StopExcludesPush proved in AudioWorkerProofs.                       *)
(***************************************************************************)

\* in_flight_submissions_ counts the one producer between enter and leave, who
\* carries a submitted frame.
Counted == ppc \in {"reRunning", "reAccepting", "reStop", "room", "write",
                    "publish", "leave"}
CountInv ==
    /\ inFlight = IF Counted THEN 1 ELSE 0
    /\ ppc # "idle" => submitted > 0

\* The producer can still publish: it saw submissions accepted and was counted.
MayPublish == ppc = "reStop" \/ Committed

\* start() touches the flags only with no thread alive, and reopens only over a
\* worker that has seen nothing yet.
Restarting == cpc \in {"claim", "disarm", "arm", "spawn", "fail", "failClose",
                       "failRelease"}
StartInv ==
    /\ Restarting => wpc = "none"
    /\ cpc = "spawn" => ~stopRequested
    /\ cpc = "open" =>
          /\ wpc \in {"pop", "check"} /\ head = tail
          /\ ~stopRequested /\ lateStores = 0
          /\ ~accepting /\ ~MayPublish

\* stop_requested_ is never up while submissions are accepted, in either of the
\* orders in which stop() and the catch block lower one and raise the other.
StopInv ==
    /\ stopRequested => ~accepting
    /\ lateStores > 0 => wpc = "caught"
    /\ lateStores = 1 => ~accepting

\* While stop() waits nobody is let in again, and who was in has left.
QuietInv ==
    /\ cpc \in {"request", "drain", "join", "release"} => ~accepting
    /\ cpc \in {"join", "release"} => ~MayPublish

\* Past the check of in_flight_submissions_ nobody can publish any more; past the
\* check of the size the ring is and stays empty.
ExitInv ==
    /\ wpc \in {"inFlight", "size", "close", "closed"} => stopRequested
    /\ ~Alive => ~accepting
    /\ wpc \in {"size", "close", "closed", "done", "none"} => ~MayPublish
    /\ wpc \in {"close", "closed", "done", "none"} => head = tail

\* Each side's last look at the other's index still holds: the worker's that there is
\* a frame, the producer's that there is room.
RingInv ==
    /\ wpc \in {"take", "advance"} => head # tail
    /\ ppc \in {"write", "publish"} => NextIndex(head) # tail

DrainInv == CountInv /\ QuietInv /\ StartInv /\ StopInv /\ ExitInv

====
