---- MODULE BridgeThreadsProofs ----
(***************************************************************************)
(* What the threads of BridgeThreads never do to each other, for every     *)
(* ingress ring, every core queue and any number of start(), stop() and    *)
(* update() calls.                                                         *)
(***************************************************************************)
EXTENDS BridgeThreads, TLAPS

-----------------------------------------------------------------------------
(* The ingress ring. *)

\* next_ingress_index() stays in the ring, and is the successor but for the wrap.
LEMMA NextIndexIs ==
    ASSUME NEW i \in Index
    PROVE  /\ NextIndex(i) = IF i = IngressCapacity - 1 THEN 0 ELSE i + 1
           /\ NextIndex(i) \in Index
<1> USE IngressAssumption DEF Index, NextIndex
<1>1. CASE i = IngressCapacity - 1
  <2>1. IngressCapacity % IngressCapacity = 0
    BY SMTT(30)
  <2>. QED BY <1>1, <2>1
<1>2. CASE i # IngressCapacity - 1
  <2>1. i + 1 \in 0 .. IngressCapacity - 1
    BY <1>2
  <2>2. (i + 1) % IngressCapacity = i + 1
    BY <2>1, SMTT(30)
  <2>. QED BY <1>2, <2>1, <2>2
<1>. QED BY <1>1, <1>2

\* No two slots have the same successor.
LEMMA NextIndexInjective ==
    ASSUME NEW i \in Index, NEW j \in Index, NextIndex(i) = NextIndex(j)
    PROVE  i = j
BY NextIndexIs, IngressAssumption DEF Index

-----------------------------------------------------------------------------
(* Which threads are alive, and what they may do then. *)

Inv == TypeOK /\ ThreadsInv /\ ReadyInv

\* Before start() there is no thread.
LEMMA InvInit == Init => Inv
<1> SUFFICES ASSUME Init PROVE Inv
  OBVIOUS
<1>1. 0 \in Index /\ 0 \in 0..CoreDepth
  BY IngressAssumption, CoreAssumption DEF Index
<1>2. TypeOK
  BY <1>1 DEF Init, TypeOK, ControlPc, IngressPc, RuntimePc, CallbackPc, Task
<1>3. ThreadsInv
  BY DEF Init, ThreadsInv, Stopped
<1>4. ReadyInv
  BY DEF Init, ReadyInv
<1>. QED BY <1>2, <1>3, <1>4 DEF Inv

\* Types, after any step.
LEMMA TypeStep ==
    ASSUME TypeOK, ReadyInv, [Next]_vars
    PROVE  TypeOK'
<1> USE DEF TypeOK, flagVars, ringVars, coreVars, callbackVars
<1>1. CASE UNCHANGED vars
  BY <1>1 DEF vars
<1>2. CASE CallbackEnter \/ CallbackLeave \/ CallbackRejects
  BY <1>2 DEF CallbackEnter, CallbackLeave, CallbackRejects, CallbackPc
<1>3. CASE CallbackClaims
  <2>1. gap' \in BOOLEAN
    BY <1>3 DEF CallbackClaims
  <2>. QED BY <1>3, <2>1 DEF CallbackClaims, CallbackPc
<1>4. CASE CallbackPublishes
  <2>1. writeIndex' \in Index
    BY <1>4, NextIndexIs DEF CallbackPublishes
  <2>. QED BY <1>4, <2>1 DEF CallbackPublishes, CallbackPc
<1>5. CASE CallbackNotifies
  BY <1>5 DEF CallbackNotifies, NotifyIngress, CallbackPc, IngressPc
<1>6. CASE IngressChecksStop \/ IngressLooks \/ IngressTests \/ IngressFallsAsleep
           \/ SpuriousWake
  BY <1>6 DEF IngressChecksStop, IngressLooks, IngressTests, IngressFallsAsleep,
       SpuriousWake, Ingress, IngressOnly, IngressPc
<1>7. CASE IngressSubmits
  <2>1. gap' \in BOOLEAN
    BY <1>7 DEF IngressSubmits
  <2>. QED BY <1>7, <2>1 DEF IngressSubmits, Ingress, IngressOnly, IngressPc
<1>8. CASE IngressPushes
  <2>1. coreFrames' \in 0..CoreDepth
    BY <1>8, CoreAssumption DEF IngressPushes
  <2>2. gap' \in BOOLEAN
    BY <1>8 DEF IngressPushes
  <2>. QED BY <1>8, <2>1, <2>2 DEF IngressPushes, Ingress, IngressOnly, IngressPc
<1>9. CASE IngressAdvances
  <2>1. readIndex' \in Index
    BY <1>9, NextIndexIs DEF IngressAdvances
  <2>. QED BY <1>9, <2>1 DEF IngressAdvances, Ingress, IngressOnly, IngressPc
<1>10. CASE RuntimeReturns
  <2>1. rpc' \in RuntimePc
    BY <1>10 DEF RuntimeReturns, RuntimePc
  <2>. QED BY <1>10, <2>1 DEF RuntimeReturns
<1>11. CASE CoreTranscribes
  BY <1>11 DEF CoreTranscribes
<1>12. CASE RuntimeStores
  <2>1. ready' \in BOOLEAN
    BY <1>12 DEF RuntimeStores
  <2>. QED BY <1>12, <2>1 DEF RuntimeStores, RuntimePc
<1>13. CASE CoreFinishes
  <2>1. coreFrames' \in 0..CoreDepth
    BY <1>13, CoreAssumption DEF CoreFinishes, ReadyInv
  <2>. QED BY <1>13, <2>1 DEF CoreFinishes
<1>14. CASE CallStart \/ CallStop \/ CallUpdate
  BY <1>14 DEF CallStart, CallStop, CallUpdate, Call, Control, ControlPc, Task
<1>15. CASE StartStep
  <2>1. 0 \in Index
    BY IngressAssumption DEF Index
  <2>2. CASE StartIfStopped \/ StartReset
    BY <2>1, <2>2 DEF StartIfStopped, StartReset, Frozen, Control, ControlPc
  <2>3. CASE StartCore \/ CoreDoesNotStart \/ StartOpen
    BY <2>3 DEF StartCore, CoreDoesNotStart, StartOpen, Frozen, Control, ControlPc
  <2>4. CASE StartIngress \/ StartRuntime
    BY <2>4 DEF StartIngress, StartRuntime, Control, ControlPc, IngressPc, RuntimePc
  <2>5. CASE IngressDoesNotStart \/ RuntimeDoesNotStart
    BY <2>5 DEF IngressDoesNotStart, RuntimeDoesNotStart, Control, ControlPc, Task
  <2>. HIDE DEF TypeOK
  <2>. QED
    BY <1>15, <2>2, <2>3, <2>4, <2>5 DEF StartStep
<1>16. CASE StopStep
  <2>1. 0 \in Index
    BY IngressAssumption DEF Index
  <2>2. CASE StopAccepting \/ StopUnready \/ StopHalt
    BY <2>2 DEF StopAccepting, StopUnready, StopHalt, Control, ControlPc
  <2>3. CASE StopNotify
    <3>1. ipc' \in IngressPc /\ missed' \in BOOLEAN
      BY <2>3 DEF StopNotify, NotifyIngress, IngressPc
    <3>. QED BY <2>3, <3>1 DEF StopNotify, Control, ControlPc
  <2>4. CASE StopResetQueue \/ StopCloseCore
    BY <2>1, <2>4 DEF StopResetQueue, StopCloseCore, Control, ControlPc
  <2>5. CASE StopDrainCore
    BY <2>5 DEF StopDrainCore, Frozen, Control, ControlPc
  <2>6. CASE StopJoinIngress
    BY <2>6 DEF StopJoinIngress, Control, ControlPc, IngressPc
  <2>7. CASE StopJoinRuntime
    BY <2>7 DEF StopJoinRuntime, Control, ControlPc, RuntimePc
  <2>8. CASE UpdateRebuild
    BY <2>8 DEF UpdateRebuild, ControlPc
  <2>. HIDE DEF TypeOK
  <2>. QED
    BY <1>16, <2>2, <2>3, <2>4, <2>5, <2>6, <2>7, <2>8 DEF StopStep
<1>. HIDE DEF TypeOK
<1>. QED
  BY <1>1, <1>2, <1>3, <1>4, <1>5, <1>6, <1>7, <1>8, <1>9, <1>10, <1>11, <1>12,
     <1>13, <1>14, <1>15, <1>16 DEF Next, CallbackStep, IngressStep, RuntimeStep, CoreStep

\* A notification changes the ingress thread's program counter only when it is alive.
LEMMA NotifyKeepsIngress ==
    ASSUME NotifyIngress
    PROVE  /\ ipc' = "none" <=> ipc = "none"
           /\ ipc' = "push" <=> ipc = "push"
BY DEF NotifyIngress

\* Which threads are alive, after any step.
LEMMA ThreadsStep ==
    ASSUME TypeOK, ReadyInv, ThreadsInv, [Next]_vars
    PROVE  ThreadsInv'
<1> USE DEF ThreadsInv, Stopped, flagVars, ringVars, coreVars, callbackVars
<1>1. CASE UNCHANGED vars
  BY <1>1 DEF vars
<1>2. CASE CallbackEnter \/ CallbackLeave \/ CallbackRejects \/ CallbackClaims
           \/ CallbackPublishes
  <2>1. UNCHANGED <<coreVars, cpc, task, ipc, rpc>>
    BY <1>2 DEF CallbackEnter, CallbackLeave, CallbackRejects, CallbackClaims,
         CallbackPublishes
  <2>. QED BY <2>1
<1>3. CASE CallbackNotifies
  BY <1>3, NotifyKeepsIngress DEF CallbackNotifies
<1>4. CASE IngressStep \/ SpuriousWake
  <2>1. ipc # "none" /\ ipc' # "none"
    BY <1>4 DEF IngressStep, SpuriousWake, IngressChecksStop, IngressLooks,
         IngressSubmits, IngressPushes, IngressAdvances, IngressTests,
         IngressFallsAsleep, Ingress
  <2>2. UNCHANGED <<coreRunning, coreOpen, cpc, task, rpc>>
    BY <1>4 DEF IngressStep, SpuriousWake, IngressChecksStop, IngressLooks,
         IngressSubmits, IngressPushes, IngressAdvances, IngressTests,
         IngressFallsAsleep, IngressOnly
  <2>. QED BY <2>1, <2>2
<1>5. CASE RuntimeStep
  <2>1. rpc # "none"
    BY <1>5 DEF RuntimeStep, RuntimeReturns, RuntimeStores
  <2>2. UNCHANGED <<coreVars, cpc, task, ipc>>
    BY <1>5 DEF RuntimeStep, RuntimeReturns, RuntimeStores
  <2>. QED BY <2>1, <2>2
<1>6. CASE CoreStep
  <2>1. coreFrames # 0
    BY <1>6, CoreAssumption DEF CoreStep, CoreTranscribes, CoreFinishes, ReadyInv, TypeOK
  <2>2. UNCHANGED <<coreRunning, coreOpen, cpc, task, ipc, rpc>>
    BY <1>6 DEF CoreStep, CoreTranscribes, CoreFinishes
  <2>. QED BY <2>1, <2>2
<1>7. CASE CallStart \/ CallStop \/ CallUpdate
  BY <1>7 DEF CallStart, CallStop, CallUpdate, Call, Control
<1>8. CASE StartStep
  <2>1. CASE StartIfStopped \/ StartReset \/ StartCore \/ CoreDoesNotStart
    BY <2>1 DEF StartIfStopped, StartReset, StartCore, CoreDoesNotStart, Frozen, Control
  <2>2. CASE StartIngress \/ IngressDoesNotStart \/ StartOpen
    BY <2>2 DEF StartIngress, IngressDoesNotStart, StartOpen, Control
  <2>3. CASE StartRuntime \/ RuntimeDoesNotStart
    BY <2>3 DEF StartRuntime, RuntimeDoesNotStart, Control, TypeOK
  <2>. HIDE DEF ThreadsInv
  <2>. QED
    BY <1>8, <2>1, <2>2, <2>3 DEF StartStep
<1>9. CASE StopStep
  <2>1. CASE StopAccepting \/ StopUnready \/ StopHalt
    BY <2>1 DEF StopAccepting, StopUnready, StopHalt, Control
  <2>2. CASE StopNotify
    BY <2>2, NotifyKeepsIngress DEF StopNotify, Control
  <2>3. CASE StopJoinIngress \/ StopResetQueue \/ StopCloseCore
    BY <2>3 DEF StopJoinIngress, StopResetQueue, StopCloseCore, Control
  <2>4. CASE StopDrainCore
    BY <2>4 DEF StopDrainCore, Frozen, Control
  <2>5. CASE StopJoinRuntime \/ UpdateRebuild
    BY <2>5 DEF StopJoinRuntime, UpdateRebuild, Control
  <2>. HIDE DEF ThreadsInv
  <2>. QED
    BY <1>9, <2>1, <2>2, <2>3, <2>4, <2>5 DEF StopStep
<1>. HIDE DEF ThreadsInv
<1>. QED
  BY <1>1, <1>2, <1>3, <1>4, <1>5, <1>6, <1>7, <1>8, <1>9 DEF Next, CallbackStep

\* Who may use the runtime, after any step.
LEMMA ReadyStep ==
    ASSUME TypeOK, ThreadsInv, ReadyInv, [Next]_vars
    PROVE  ReadyInv'
<1> USE DEF ReadyInv, flagVars, ringVars, coreVars, callbackVars
<1>1. CASE UNCHANGED vars
  BY <1>1 DEF vars
<1>2. CASE CallbackEnter \/ CallbackLeave \/ CallbackRejects \/ CallbackClaims
           \/ CallbackPublishes
  <2>1. UNCHANGED <<ready, coreVars, cpc, ipc, rpc>>
    BY <1>2 DEF CallbackEnter, CallbackLeave, CallbackRejects, CallbackClaims,
         CallbackPublishes
  <2>. QED BY <2>1
<1>3. CASE CallbackNotifies
  BY <1>3, NotifyKeepsIngress DEF CallbackNotifies
<1>4. CASE IngressPushes
  <2>1. coreFrames > 0 => coreFrames' > 0
    <3>1. coreFrames \in Nat
      BY CoreAssumption DEF TypeOK
    <3>2. coreFrames' = coreFrames \/ coreFrames' = coreFrames + 1
      BY <1>4 DEF IngressPushes
    <3>. QED BY <3>1, <3>2
  <2>2. ipc = "push" /\ UNCHANGED <<transcribing, cpc, rpc>>
    BY <1>4 DEF IngressPushes, Ingress, IngressOnly
  <2>3. transcribing => coreFrames > 0
    BY DEF ReadyInv
  <2>4. ~(cpc \in {"core", "spawnIngress", "open", "spawnRuntime"} \/ rpc = "init")
    BY <2>2
  <2>. HIDE DEF ReadyInv
  <2>5. (transcribing => coreFrames > 0)'
    BY <2>1, <2>2, <2>3
  <2>. QED BY <2>2, <2>4, <2>5 DEF ReadyInv
<1>5. CASE IngressSubmits
  BY <1>5 DEF IngressSubmits, Ingress, IngressOnly
<1>6. CASE IngressChecksStop \/ IngressLooks \/ IngressAdvances \/ IngressTests
           \/ IngressFallsAsleep \/ SpuriousWake
  BY <1>6 DEF IngressChecksStop, IngressLooks, IngressAdvances, IngressTests,
       IngressFallsAsleep, SpuriousWake, Ingress, IngressOnly
<1>7. CASE RuntimeStep
  BY <1>7 DEF RuntimeStep, RuntimeReturns, RuntimeStores, ThreadsInv, Stopped
<1>8. CASE CoreStep
  <2>1. coreFrames > 0 /\ coreFrames # 0
    BY <1>8, CoreAssumption DEF CoreStep, CoreTranscribes, CoreFinishes, TypeOK
  <2>2. UNCHANGED <<ready, cpc, ipc, rpc>>
    BY <1>8 DEF CoreStep, CoreTranscribes, CoreFinishes
  <2>3. CASE CoreTranscribes
    BY <2>1, <2>2, <2>3 DEF CoreTranscribes
  <2>4. CASE CoreFinishes
    BY <2>1, <2>2, <2>4 DEF CoreFinishes
  <2>. QED BY <1>8, <2>3, <2>4 DEF CoreStep
<1>9. CASE CallStart \/ CallStop \/ CallUpdate
  BY <1>9 DEF CallStart, CallStop, CallUpdate, Call, Control
<1>10. CASE StartStep
  BY <1>10 DEF StartStep, StartIfStopped, StartReset, StartCore, CoreDoesNotStart,
       StartIngress, IngressDoesNotStart, StartOpen, StartRuntime,
       RuntimeDoesNotStart, Frozen, Control, ThreadsInv, Stopped
<1>11. CASE StopNotify
  BY <1>11, NotifyKeepsIngress DEF StopNotify, Control
<1>12. CASE StopStep /\ ~StopNotify
  BY <1>12 DEF StopStep, StopAccepting, StopUnready, StopHalt, StopJoinIngress,
       StopResetQueue, StopCloseCore, StopDrainCore, StopJoinRuntime, UpdateRebuild,
       Frozen, Control
<1>. HIDE DEF ReadyInv
<1>. QED
  BY <1>1, <1>2, <1>3, <1>4, <1>5, <1>6, <1>7, <1>8, <1>9, <1>10, <1>11, <1>12
     DEF Next, CallbackStep, IngressStep

\* All of them together.
LEMMA InvStep == Inv /\ [Next]_vars => Inv'
BY TypeStep, ThreadsStep, ReadyStep DEF Inv

\* So they hold always.
LEMMA InvHolds == Spec => []Inv
BY InvInit, InvStep, PTL DEF Spec

\* Every flag, index and program counter keeps its type, whatever the callers do.
THEOREM ThreadsTypeCorrect == Spec => []TypeOK
BY InvHolds, PTL DEF Inv

\* IWhisperRuntime, which has no lock, is never initialised and transcribing at once,
\* although runtime_ready_ is stored by a thread nobody has joined yet.
THEOREM RuntimeHasOneUser == Spec => []RuntimeUsedByOneThread
<1>1. Inv => RuntimeUsedByOneThread
  BY CoreAssumption DEF Inv, TypeOK, ReadyInv, RuntimeUsedByOneThread
<1>. QED
  BY <1>1, InvHolds, PTL

\* The ingress thread never calls submit() on a pipeline that stop(), update() or a
\* start() that gives up has begun to shut down.
THEOREM SubmitBeforeShutdown == Spec => []NoSubmitIntoStoppingCore
<1>1. Inv => NoSubmitIntoStoppingCore
  BY DEF Inv, ThreadsInv, NoSubmitIntoStoppingCore
<1>. QED
  BY <1>1, InvHolds, PTL

\* start() only ever assigns to a thread object that is not joinable, after any
\* history of failed starts and updates.
THEOREM ThreadsAreJoined == Spec => []JoinableIsNeverOverwritten
<1>1. Inv => JoinableIsNeverOverwritten
  BY DEF Inv, ThreadsInv, JoinableIsNeverOverwritten
<1>. QED
  BY <1>1, InvHolds, PTL

-----------------------------------------------------------------------------
(* Who touches which slot of the ingress ring. *)

\* The slot of the callback and that of the ingress thread differ, after any step.
LEMMA SlotStep ==
    ASSUME TypeOK, TypeOK', ThreadsInv, SlotInv, [Next]_vars
    PROVE  SlotInv'
<1>1. ASSUME UNCHANGED <<ringVars, kpc, claim>>,
             ipc' \in {"submit", "push", "advance"} =>
                 ipc \in {"submit", "push", "advance"} \/ readIndex # writeIndex
      PROVE  SlotInv'
  BY <1>1 DEF SlotInv, ringVars
<1>2. ASSUME UNCHANGED <<ringVars, ipc>>, kpc' # "publish"
      PROVE  SlotInv'
  BY <1>2 DEF SlotInv, ringVars
<1>3. ASSUME readIndex' = writeIndex', ipc' \notin {"submit", "push", "advance"}
      PROVE  SlotInv'
  BY <1>3 DEF SlotInv
<1>4. CASE UNCHANGED vars
  BY <1>1, <1>4 DEF vars, callbackVars
<1>5. CASE CallbackEnter \/ CallbackLeave \/ CallbackRejects
  BY <1>2, <1>5 DEF CallbackEnter, CallbackLeave, CallbackRejects, ringVars
<1>6. CASE CallbackClaims
  BY <1>6 DEF CallbackClaims, IngressFull, SlotInv, ringVars
<1>7. CASE CallbackPublishes
  <2>1. kpc = "publish" /\ kpc' = "notify" /\ writeIndex' = NextIndex(claim)
    BY <1>7 DEF CallbackPublishes
  <2>2. UNCHANGED <<readIndex, ipc>>
    BY <1>7 DEF CallbackPublishes
  <2>. QED BY <2>1, <2>2 DEF SlotInv
<1>8. CASE CallbackNotifies
  <2>1. ipc' \in {"submit", "push", "advance"} => ipc' = ipc
    BY <1>8 DEF CallbackNotifies, NotifyIngress
  <2>2. UNCHANGED ringVars /\ kpc' = "idle"
    BY <1>8 DEF CallbackNotifies
  <2>. QED BY <2>1, <2>2 DEF SlotInv, ringVars
<1>9. CASE IngressLooks
  BY <1>1, <1>9 DEF IngressLooks, Ingress, IngressOnly, callbackVars, ringVars
<1>10. CASE IngressChecksStop \/ IngressSubmits \/ IngressPushes \/ IngressTests
            \/ IngressFallsAsleep \/ SpuriousWake
  BY <1>1, <1>10 DEF IngressChecksStop, IngressSubmits, IngressPushes, IngressTests,
       IngressFallsAsleep, SpuriousWake, Ingress, IngressOnly, callbackVars, ringVars
<1>11. CASE IngressAdvances
  <2>1. ipc = "advance" /\ ipc' = "loop" /\ readIndex' = NextIndex(readIndex)
    BY <1>11 DEF IngressAdvances, Ingress
  <2>2. UNCHANGED <<writeIndex, kpc, claim>>
    BY <1>11 DEF IngressAdvances, IngressOnly, callbackVars
  <2>3. kpc = "publish" => claim = writeIndex
    BY <2>1 DEF SlotInv
  <2>4. readIndex # writeIndex
    BY <2>1 DEF SlotInv
  <2>5. NextIndex(writeIndex) # NextIndex(readIndex)
    BY <2>4, NextIndexInjective DEF TypeOK
  <2>. QED BY <2>1, <2>2, <2>3, <2>5 DEF SlotInv
<1>12. CASE RuntimeStep \/ CoreStep
  BY <1>1, <1>12 DEF RuntimeStep, RuntimeReturns, RuntimeStores, CoreStep,
       CoreTranscribes, CoreFinishes, callbackVars, ringVars
<1>13. CASE CallStart \/ CallStop \/ CallUpdate
  BY <1>1, <1>13 DEF CallStart, CallStop, CallUpdate, Call, callbackVars, ringVars
<1>14. CASE StartReset
  BY <1>3, <1>14 DEF StartReset, Control, ThreadsInv, Stopped
<1>15. CASE StartStep /\ ~StartReset
  BY <1>1, <1>15 DEF StartStep, StartIfStopped, StartCore, CoreDoesNotStart,
       StartIngress, IngressDoesNotStart, StartOpen, StartRuntime,
       RuntimeDoesNotStart, Frozen, callbackVars, ringVars
<1>16. CASE StopResetQueue
  BY <1>3, <1>16 DEF StopResetQueue, Control, ThreadsInv
<1>17. CASE StopNotify
  BY <1>1, <1>17 DEF StopNotify, NotifyIngress, callbackVars, ringVars
<1>18. CASE StopStep /\ ~StopResetQueue /\ ~StopNotify
  BY <1>1, <1>18 DEF StopStep, StopAccepting, StopUnready, StopHalt, StopJoinIngress,
       StopCloseCore, StopDrainCore, StopJoinRuntime, UpdateRebuild, Frozen,
       callbackVars, ringVars
<1>. QED
  BY <1>4, <1>5, <1>6, <1>7, <1>8, <1>9, <1>10, <1>11, <1>12, <1>13, <1>14, <1>15,
     <1>16, <1>17, <1>18 DEF Next, CallbackStep, IngressStep

\* The callback, which nobody joins, never fills the slot the ingress thread copies
\* out of, although stop() and start() reset the indices while it is filling one.
THEOREM IngressSlotsAreHandedOver == Spec => []IngressSlotIsNotShared
<1>1. Init => SlotInv
  BY DEF Init, SlotInv
<1>2. SlotInv => IngressSlotIsNotShared
  BY DEF SlotInv, IngressSlotIsNotShared
<1>3. Inv => TypeOK /\ ThreadsInv
  BY DEF Inv
<1>. QED
  BY <1>1, <1>2, <1>3, InvHolds, SlotStep, PTL DEF Spec

====
