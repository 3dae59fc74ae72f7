---- MODULE BridgeThreads ----
(***************************************************************************)
(* The threads of NativeAudioBridge (src/obs/native_audio_bridge.cpp):     *)
(*   - the controller, an OBS lifecycle thread in start(), stop() or       *)
(*     update(), which OBS serialises;                                     *)
(*   - the OBS audio callback, in filter_audio() as far as it hands a      *)
(*     packet to the ingress thread;                                       *)
(*   - the ingress thread, in submit_loop();                               *)
(*   - the runtime thread, in initialize_runtime();                        *)
(*   - the worker of the core pipeline, reduced to what AudioWorker shows  *)
(*     of it: it takes what it accepted, one frame at a time, and stop()   *)
(*     returns when nothing accepted is left.                              *)
(*                                                                         *)
(* One action is one access to shared state, except that the controller's  *)
(* runs of stores between two calls are one action where no other thread   *)
(* is alive to tell the difference.  What the packets hold is left to      *)
(* BridgeDelay.                                                            *)
(***************************************************************************)
EXTENDS Integers

CONSTANTS
    IngressCapacity,    \* kIngressQueueCapacity
    CoreDepth           \* frames the core's queue and worker can hold

ASSUME IngressAssumption == IngressCapacity \in Nat \ {0}
ASSUME CoreAssumption == CoreDepth \in Nat

VARIABLES
    accepting, enabled,         \* accepting_, enabled_
    ready,                      \* runtime_ready_
    ingressStop,                \* ingress_stop_
    gap,                        \* submit_gap_pending_
    readIndex, writeIndex,      \* ingress_read_index_, ingress_write_index_
    coreRunning, coreOpen,      \* pipeline_->running(), it accepts submissions
    coreFrames, transcribing,   \* frames it owes, its worker is in transcribe()
    cpc, task,                  \* the controller: where, and for which call
    ipc, rpc,                   \* the ingress thread, the runtime thread
    kpc, claim,                 \* the callback: where, the slot it fills
    missed                      \* history: the last notify_one() came between
                                \* the ingress thread's test and its wait

flagVars == <<accepting, enabled, ready, ingressStop, gap>>
ringVars == <<readIndex, writeIndex>>
coreVars == <<coreRunning, coreOpen, coreFrames, transcribing>>
callbackVars == <<kpc, claim>>
vars == <<flagVars, ringVars, coreVars, cpc, task, ipc, rpc, callbackVars, missed>>

ControlPc == {"idle", "start", "reset", "core", "spawnIngress", "open",
              "spawnRuntime", "stop", "unready", "halt", "notify", "joinIngress",
              "resetQueue", "closeCore", "drainCore", "joinRuntime", "rebuild"}
IngressPc == {"none", "loop", "look", "submit", "push", "advance", "test",
              "falling", "asleep", "done"}
RuntimePc == {"none", "init", "ready", "failed", "done"}
CallbackPc == {"idle", "capture", "publish", "notify"}
Task == {"none", "start", "stop", "update", "abandon"}

Index == 0 .. IngressCapacity - 1
NextIndex(i) == (i + 1) % IngressCapacity

Init ==
    /\ accepting = FALSE /\ enabled \in BOOLEAN
    /\ ready = FALSE /\ ingressStop = TRUE /\ gap = FALSE
    /\ readIndex = 0 /\ writeIndex = 0
    /\ coreRunning = FALSE /\ coreOpen = FALSE
    /\ coreFrames = 0 /\ transcribing = FALSE
    /\ cpc = "idle" /\ task = "none"
    /\ ipc = "none" /\ rpc = "none"
    /\ kpc = "idle" /\ claim = 0
    /\ missed = FALSE

\* notify_one(): it wakes the ingress thread if that is waiting, and is lost on it
\* otherwise.  Nobody holds ingress_wait_mutex_ here.
NotifyIngress ==
    /\ ipc' = IF ipc = "asleep" THEN "test" ELSE ipc
    /\ missed' = (ipc = "falling")

-----------------------------------------------------------------------------
(* The audio callback: filter_audio(), capture_ingress(). *)

CallbackEnter ==
    /\ kpc = "idle" /\ kpc' = "capture"
    /\ accepting /\ enabled /\ coreRunning
    /\ UNCHANGED <<flagVars, ringVars, coreVars, cpc, task, ipc, rpc, claim, missed>>

\* The packet's format does not match, or capture_raw() refuses it, which leaves a gap when
\* its ring is full.
CallbackLeave ==
    /\ kpc = "capture" /\ kpc' = "idle"
    /\ gap' \in {gap, TRUE}
    /\ UNCHANGED <<accepting, enabled, ready, ingressStop, ringVars, coreVars,
                   cpc, task, ipc, rpc, claim, missed>>

\* Mutant of IngressFull: the ring is filled to the last slot.
IngressNeverFull == FALSE
IngressFull == NextIndex(writeIndex) = readIndex

CallbackRejects ==
    /\ kpc = "capture" /\ kpc' = "idle"
    /\ IngressFull
    /\ gap' = TRUE
    /\ UNCHANGED <<accepting, enabled, ready, ingressStop, ringVars, coreVars,
                   cpc, task, ipc, rpc, claim, missed>>

\* The slot is filled from here to the publication of its index.  The pending gap
\* is taken over unless the packet is discontinuous by itself.
CallbackClaims ==
    /\ kpc = "capture" /\ kpc' = "publish"
    /\ ~IngressFull
    /\ claim' = writeIndex
    /\ gap' \in {gap, FALSE}
    /\ UNCHANGED <<accepting, enabled, ready, ingressStop, ringVars, coreVars,
                   cpc, task, ipc, rpc, missed>>

CallbackPublishes ==
    /\ kpc = "publish" /\ kpc' = "notify"
    /\ writeIndex' = NextIndex(claim)
    /\ UNCHANGED <<flagVars, readIndex, coreVars, cpc, task, ipc, rpc, claim, missed>>

\* Mutant of CallbackNotifies: the callback relies on the predicate alone.
CallbackKeepsQuiet ==
    /\ kpc = "notify" /\ kpc' = "idle"
    /\ UNCHANGED <<flagVars, ringVars, coreVars, cpc, task, ipc, rpc, claim, missed>>

CallbackNotifies ==
    /\ kpc = "notify" /\ kpc' = "idle"
    /\ NotifyIngress
    /\ UNCHANGED <<flagVars, ringVars, coreVars, cpc, task, rpc, claim>>

CallbackStep == CallbackLeave \/ CallbackRejects \/ CallbackClaims
                \/ CallbackPublishes \/ CallbackNotifies

-----------------------------------------------------------------------------
(* The ingress thread: submit_loop(), submit_packet(). *)

Ingress(from, to) == ipc = from /\ ipc' = to
IngressOnly == UNCHANGED <<accepting, enabled, ready, ingressStop, writeIndex,
                           coreRunning, coreOpen, transcribing,
                           cpc, task, rpc, callbackVars, missed>>

IngressChecksStop ==
    /\ Ingress("loop", IF ingressStop THEN "done" ELSE "look")
    /\ IngressOnly /\ UNCHANGED <<gap, readIndex, coreFrames>>

IngressLooks ==
    /\ Ingress("look", IF readIndex # writeIndex THEN "submit" ELSE "test")
    /\ IngressOnly /\ UNCHANGED <<gap, readIndex, coreFrames>>

\* Without a runtime the packet is dropped and leaves a gap.
IngressSubmits ==
    /\ Ingress("submit", IF ready THEN "push" ELSE "advance")
    /\ gap' = (gap \/ ~ready)
    /\ IngressOnly /\ UNCHANGED <<readIndex, coreFrames>>

\* pipeline_->submit() takes the frame or leaves a gap.
IngressPushes ==
    /\ Ingress("push", "advance")
    /\ \/ coreOpen /\ coreFrames < CoreDepth /\ coreFrames' = coreFrames + 1
          /\ UNCHANGED gap
       \/ ~(coreOpen /\ coreFrames < CoreDepth) /\ gap' = TRUE
          /\ UNCHANGED coreFrames
    /\ IngressOnly /\ UNCHANGED readIndex

IngressAdvances ==
    /\ Ingress("advance", "loop")
    /\ readIndex' = NextIndex(readIndex)
    /\ IngressOnly /\ UNCHANGED <<gap, coreFrames>>

\* The predicate of ingress_wait_.wait().
IngressTests ==
    /\ Ingress("test", IF ingressStop \/ readIndex # writeIndex
                       THEN "loop" ELSE "falling")
    /\ IngressOnly /\ UNCHANGED <<gap, readIndex, coreFrames>>

IngressFallsAsleep ==
    /\ Ingress("falling", "asleep")
    /\ IngressOnly /\ UNCHANGED <<gap, readIndex, coreFrames>>

\* A condition variable may wake for no reason; nothing says it ever will.
SpuriousWake ==
    /\ Ingress("asleep", "test")
    /\ IngressOnly /\ UNCHANGED <<gap, readIndex, coreFrames>>

IngressStep == IngressChecksStop \/ IngressLooks \/ IngressSubmits \/ IngressPushes
               \/ IngressAdvances \/ IngressTests \/ IngressFallsAsleep

-----------------------------------------------------------------------------
(* The runtime thread and the core's worker. *)

\* runtime_->initialize() reports ready or not, throws, or is never called
\* because there is no cache directory or no model.
RuntimeReturns ==
    /\ rpc = "init" /\ rpc' \in {"ready", "failed", "done"}
    /\ UNCHANGED <<flagVars, ringVars, coreVars, cpc, task, ipc, callbackVars, missed>>

RuntimeStores ==
    /\ rpc \in {"ready", "failed"} /\ rpc' = "done"
    /\ ready' = (rpc = "ready")
    /\ UNCHANGED <<accepting, enabled, ingressStop, gap, ringVars, coreVars,
                   cpc, task, ipc, callbackVars, missed>>

RuntimeStep == RuntimeReturns \/ RuntimeStores

CoreTranscribes ==
    /\ coreFrames > 0 /\ ~transcribing
    /\ transcribing' = TRUE
    /\ UNCHANGED <<flagVars, ringVars, coreRunning, coreOpen, coreFrames,
                   cpc, task, ipc, rpc, callbackVars, missed>>

CoreFinishes ==
    /\ transcribing
    /\ transcribing' = FALSE
    /\ coreFrames' = coreFrames - 1
    /\ UNCHANGED <<flagVars, ringVars, coreRunning, coreOpen,
                   cpc, task, ipc, rpc, callbackVars, missed>>

CoreStep == CoreTranscribes \/ CoreFinishes

-----------------------------------------------------------------------------
(* The controller: start(), stop(), update(). *)

Control(from, to) == cpc = from /\ cpc' = to
Frozen == UNCHANGED <<coreFrames, transcribing, callbackVars>>

\* A call of the public interface.
Call(name, from) ==
    /\ Control("idle", from)
    /\ task' = name
    /\ UNCHANGED <<flagVars, ringVars, coreVars, ipc, rpc, callbackVars, missed>>

CallStart == Call("start", "start")
CallStop == Call("stop", "stop")
CallUpdate == Call("update", "stop")

StartIfStopped ==
    /\ Control("start", IF coreRunning THEN "idle" ELSE "reset")
    /\ UNCHANGED <<flagVars, ringVars, coreVars, task, ipc, rpc, callbackVars, missed>>

\* Mutant of StartReset: the answer of the last runtime is kept.
StartResetKeepsReady ==
    /\ Control("reset", "core")
    /\ readIndex' = 0 /\ writeIndex' = 0 /\ gap' = FALSE
    /\ ingressStop' = FALSE
    /\ Frozen
    /\ UNCHANGED <<accepting, enabled, ready, coreRunning, coreOpen, task, ipc,
                   rpc, missed>>

\* reset_ingress_queue(), and the flags of the threads about to be created.
StartReset ==
    /\ Control("reset", "core")
    /\ readIndex' = 0 /\ writeIndex' = 0 /\ gap' = FALSE
    /\ ready' = FALSE /\ ingressStop' = FALSE
    /\ Frozen
    /\ UNCHANGED <<accepting, enabled, coreRunning, coreOpen, task, ipc, rpc, missed>>

StartCore ==
    /\ Control("core", "spawnIngress")
    /\ coreRunning' = TRUE /\ coreOpen' = TRUE
    /\ Frozen
    /\ UNCHANGED <<flagVars, ringVars, task, ipc, rpc, missed>>

CoreDoesNotStart ==
    /\ Control("core", "idle")
    /\ ingressStop' = TRUE
    /\ UNCHANGED <<accepting, enabled, ready, gap, ringVars, coreVars, task, ipc,
                   rpc, callbackVars, missed>>

StartIngress ==
    /\ Control("spawnIngress", "open")
    /\ ipc' = "loop"
    /\ UNCHANGED <<flagVars, ringVars, coreVars, task, rpc, callbackVars, missed>>

IngressDoesNotStart ==
    /\ Control("spawnIngress", "closeCore")
    /\ ingressStop' = TRUE
    /\ task' = "abandon"
    /\ UNCHANGED <<accepting, enabled, ready, gap, ringVars, coreVars, ipc, rpc,
                   callbackVars, missed>>

StartOpen ==
    /\ Control("open", "spawnRuntime")
    /\ accepting' = TRUE
    /\ UNCHANGED <<enabled, ready, ingressStop, gap, ringVars, coreVars, task, ipc,
                   rpc, callbackVars, missed>>

StartRuntime ==
    /\ Control("spawnRuntime", "idle")
    /\ rpc' = "init"
    /\ UNCHANGED <<flagVars, ringVars, coreVars, task, ipc, callbackVars, missed>>

RuntimeDoesNotStart ==
    /\ Control("spawnRuntime", "halt")
    /\ accepting' = FALSE
    /\ task' = "abandon"
    /\ UNCHANGED <<enabled, ready, ingressStop, gap, ringVars, coreVars, ipc, rpc,
                   callbackVars, missed>>

StopAccepting ==
    /\ Control("stop", "unready")
    /\ accepting' = FALSE
    /\ UNCHANGED <<enabled, ready, ingressStop, gap, ringVars, coreVars, task, ipc,
                   rpc, callbackVars, missed>>

StopUnready ==
    /\ Control("unready", "halt")
    /\ ready' = FALSE
    /\ UNCHANGED <<accepting, enabled, ingressStop, gap, ringVars, coreVars, task,
                   ipc, rpc, callbackVars, missed>>

\* stop_ingress_thread(), four steps: flag, notify, join, reset.
StopHalt ==
    /\ Control("halt", "notify")
    /\ ingressStop' = TRUE
    /\ UNCHANGED <<accepting, enabled, ready, gap, ringVars, coreVars, task, ipc,
                   rpc, callbackVars, missed>>

\* Mutant of StopNotify: a thread that waits is not told.
StopKeepsQuiet ==
    /\ Control("notify", "joinIngress")
    /\ UNCHANGED <<flagVars, ringVars, coreVars, task, ipc, rpc, callbackVars, missed>>

StopNotify ==
    /\ Control("notify", "joinIngress")
    /\ NotifyIngress
    /\ UNCHANGED <<flagVars, ringVars, coreVars, task, rpc, callbackVars>>

\* Mutant of StopJoinIngress: the pipeline goes down with the ingress thread alive.
StopDoesNotJoinIngress ==
    /\ Control("joinIngress", "resetQueue")
    /\ UNCHANGED <<flagVars, ringVars, coreVars, task, ipc, rpc, callbackVars, missed>>

StopJoinIngress ==
    /\ Control("joinIngress", "resetQueue")
    /\ ipc \in {"none", "done"} /\ ipc' = "none"
    /\ UNCHANGED <<flagVars, ringVars, coreVars, task, rpc, callbackVars, missed>>

StopResetQueue ==
    /\ Control("resetQueue", "closeCore")
    /\ readIndex' = 0 /\ writeIndex' = 0 /\ gap' = FALSE
    /\ UNCHANGED <<accepting, enabled, ready, ingressStop, coreVars, task, ipc, rpc,
                   callbackVars, missed>>

\* pipeline_->stop(), two steps: nothing more is accepted, everything accepted is
\* done.  A start() that gives up ends here.
StopCloseCore ==
    /\ Control("closeCore", "drainCore")
    /\ coreOpen' = FALSE
    /\ UNCHANGED <<flagVars, ringVars, coreRunning, coreFrames, transcribing, task,
                   ipc, rpc, callbackVars, missed>>

StopDrainCore ==
    /\ Control("drainCore", IF task = "abandon" THEN "idle" ELSE "joinRuntime")
    /\ coreFrames = 0
    /\ coreRunning' = FALSE
    /\ Frozen
    /\ UNCHANGED <<flagVars, ringVars, coreOpen, task, ipc, rpc, missed>>

\* Mutant of StopJoinRuntime: a slow initialize() is left behind.
StopDoesNotJoinRuntime ==
    /\ Control("joinRuntime", IF task = "update" THEN "rebuild" ELSE "idle")
    /\ UNCHANGED <<flagVars, ringVars, coreVars, task, ipc, rpc, callbackVars, missed>>

StopJoinRuntime ==
    /\ Control("joinRuntime", IF task = "update" THEN "rebuild" ELSE "idle")
    /\ rpc \in {"none", "done"} /\ rpc' = "none"
    /\ UNCHANGED <<flagVars, ringVars, coreVars, task, ipc, callbackVars, missed>>

\* The rest of update(): new settings, a new pipeline, and start() if enabled.
UpdateRebuild ==
    /\ cpc = "rebuild"
    /\ enabled' \in BOOLEAN
    /\ cpc' = IF enabled' THEN "start" ELSE "idle"
    /\ UNCHANGED <<accepting, ready, ingressStop, gap, ringVars, coreVars, task,
                   ipc, rpc, callbackVars, missed>>

StartStep == StartIfStopped \/ StartReset \/ StartCore \/ CoreDoesNotStart
             \/ StartIngress \/ IngressDoesNotStart \/ StartOpen
             \/ StartRuntime \/ RuntimeDoesNotStart
StopStep == StopAccepting \/ StopUnready \/ StopHalt \/ StopNotify
            \/ StopJoinIngress \/ StopResetQueue \/ StopCloseCore
            \/ StopDrainCore \/ StopJoinRuntime \/ UpdateRebuild

-----------------------------------------------------------------------------
Next ==
    \/ CallbackEnter \/ CallbackStep
    \/ IngressStep \/ SpuriousWake
    \/ RuntimeStep \/ CoreStep
    \/ CallStart \/ CallStop \/ CallUpdate \/ StartStep \/ StopStep

\* Calls end and threads run on; nobody owes a call, a packet or a spurious wake.
\* transcribe() and initialize() end because the process runner bounds them.
Fairness ==
    /\ WF_vars(CallbackStep) /\ WF_vars(IngressStep)
    /\ WF_vars(RuntimeStep) /\ WF_vars(CoreStep)
    /\ WF_vars(StartStep) /\ WF_vars(StopStep)

Spec == Init /\ [][Next]_vars
FairSpec == Spec /\ Fairness

-----------------------------------------------------------------------------
TypeOK ==
    /\ accepting \in BOOLEAN /\ enabled \in BOOLEAN /\ ready \in BOOLEAN
    /\ ingressStop \in BOOLEAN /\ gap \in BOOLEAN
    /\ readIndex \in Index /\ writeIndex \in Index
    /\ coreRunning \in BOOLEAN /\ coreOpen \in BOOLEAN
    /\ coreFrames \in 0..CoreDepth /\ transcribing \in BOOLEAN
    /\ cpc \in ControlPc /\ task \in Task
    /\ ipc \in IngressPc /\ rpc \in RuntimePc
    /\ kpc \in CallbackPc /\ claim \in Index
    /\ missed \in BOOLEAN

\* IWhisperRuntime has no lock of its own: initialize() and transcribe() never run at
\* the same time, although runtime_ready_ may be set by a thread that stop() has
\* already overtaken.
RuntimeUsedByOneThread == ~(rpc = "init" /\ transcribing)

\* "No adapter thread can call submit() after pipeline_ has begun shutdown"
\* (native_audio_bridge.cpp:286-292), on the error paths of start() too.
NoSubmitIntoStoppingCore == ipc = "push" => coreOpen

\* start() never assigns a thread object that is still joinable, which would
\* terminate OBS.
JoinableIsNeverOverwritten ==
    /\ cpc = "spawnIngress" => ipc = "none"
    /\ cpc = "spawnRuntime" => rpc = "none"

\* The callback never fills the slot the ingress thread copies out of, even when it
\* was overtaken by a stop() or update() that reset the ring under its feet.
IngressSlotIsNotShared ==
    kpc = "publish" /\ ipc \in {"submit", "push"} => claim # readIndex

\* stop() is bounded (native_audio_bridge.cpp:419-423).
StopReturns == (cpc = "stop") ~> (cpc = "idle")

\* The one thing that can keep stop() from returning is a notification that comes
\* between the ingress thread's test of the predicate and its wait.
StopReturnsUnlessMissed == (cpc = "stop") ~> (cpc = "idle" \/ missed)

\* A captured packet is handled without another one having to follow, stop() or a
\* notification of that kind apart.
CapturedPacketIsHandled ==
    \A i \in Index :
        (ipc \notin {"none", "done"} /\ readIndex = i /\ writeIndex # i)
            ~> (readIndex # i \/ ingressStop \/ missed)

-----------------------------------------------------------------------------
(***************************************************************************)
(* Why the threads stay out of each other's way: the inductive             *)
(* strengthenings of the safety properties proved in BridgeThreadsProofs.  *)
(***************************************************************************)

\* The bridge was stopped, or start() gave up: no thread and no frame is left.
Stopped == ipc = "none" /\ rpc = "none" /\ coreFrames = 0 /\ ~coreRunning

\* Which threads may be alive at each point of start() and stop().
ThreadsInv ==
    /\ (cpc \in {"idle", "start"} /\ ~coreRunning) => Stopped
    /\ cpc \in {"reset", "core", "rebuild"} => Stopped
    /\ cpc = "spawnIngress" => ipc = "none" /\ coreOpen
    /\ cpc \in {"resetQueue", "closeCore", "drainCore", "joinRuntime"} => ipc = "none"
    /\ cpc = "joinRuntime" => coreFrames = 0 /\ ~coreRunning
    /\ cpc \in {"spawnIngress", "open", "spawnRuntime"} => rpc = "none" /\ coreRunning
    /\ cpc \in {"stop", "unready", "joinRuntime"} => task # "abandon"
    /\ cpc \in {"halt", "notify", "joinIngress", "resetQueue", "closeCore", "drainCore"}
          /\ task = "abandon" => rpc = "none"
    /\ ipc # "none" => coreOpen

\* From the reset of runtime_ready_ until initialize() has returned nothing is
\* submitted, so nothing is transcribed.
ReadyInv ==
    /\ transcribing => coreFrames > 0
    /\ (cpc \in {"core", "spawnIngress", "open", "spawnRuntime"} \/ rpc = "init") =>
          ~ready /\ coreFrames = 0 /\ ipc # "push"

\* The callback fills the slot behind the last packet, or one of a ring that was
\* reset while it did; that ring is empty, and nothing is taken out of it.
SlotInv ==
    /\ ipc \in {"submit", "push", "advance"} => readIndex # writeIndex
    /\ kpc = "publish" =>
          \/ claim = writeIndex /\ NextIndex(claim) # readIndex
          \/ readIndex = writeIndex

====
