---- MODULE ModelManagerProofs ----
(***************************************************************************)
(* Theorems about ModelManager, for any set of models and any number of    *)
(* calls, requests and restarts.                                           *)
(***************************************************************************)
EXTENDS ModelManager, TLAPS

\* Steps that leave the threads' places and locals typed.
LEMMA ReturnIsTyped ==
    ASSUME Types, NEW t \in Threads, NEW from, Return(t, from)
    PROVE  /\ pc' \in [Threads -> Pc]
           /\ request' \in [Threads -> Request \cup {Rollback}]
           /\ old' \subseteq Models \cup {NoModel} /\ replaces' \in BOOLEAN
  BY DEF Types, Return, Goto, Pc

\* A jump leads to a place in a call.
LEMMA GotoIsTyped ==
    ASSUME Types, NEW t \in Threads, NEW from, NEW to \in Pc, Goto(t, from, to)
    PROVE  pc' \in [Threads -> Pc]
  BY DEF Types, Goto

\* A selection wants a model.
LEMMA WantedIsModel ==
    ASSUME Types, NEW t \in Threads, ~RollsBack(t)
    PROVE  Wanted(t) \in Models
  BY DEF Types, RollsBack, Wanted, Request

\* What a call goes for is a model, or none to roll back to.
LEMMA TargetIsModel ==
    ASSUME Types, NEW t \in Threads
    PROVE  Target(t) \in Models \cup {NoModel}
  BY WantedIsModel DEF Types, Target, Wanted

\* Calls keep types.
LEMMA CallsKeepTypes ==
    ASSUME Types, Calls \/ Notify \/ StopWorker \/ JoinWorker
    PROVE  Types'
<1>1. CASE Select
  <2>1. PICK r \in Request : Call(r)
    BY <1>1 DEF Select
  <2> QED
    BY <2>1, GotoIsTyped DEF Types, Call, Goto, Pc, asyncVars, recordVars, stateVars,
                             fileVars, runtimeVars, Threads
<1>2. CASE CallRollback
  BY <1>2 DEF Types, CallRollback, Call, Goto, Pc, asyncVars, recordVars, stateVars,
              fileVars, runtimeVars, Threads
<1>3. CASE AskRefused
  BY <1>3 DEF Types, AskRefused, locals, recordVars, stateVars, fileVars, runtimeVars,
              bounds
<1>4. CASE AskWithoutThread
  BY <1>4 DEF Types, AskWithoutThread, SetError, State, locals, recordVars, fileVars,
              runtimeVars, bounds
<1>5. CASE Ask
  BY <1>5 DEF Types, Ask, Pc, Threads, locals, recordVars, stateVars, fileVars,
              runtimeVars, bounds
<1>6. CASE Destroy
  BY <1>6 DEF Types, Destroy, Goto, Pc, Threads, locals, recordVars, stateVars, fileVars,
              runtimeVars, bounds
<1>7. CASE Notify
  BY <1>7 DEF Types, Notify, Woken, Pc, Threads, locals, recordVars, stateVars, fileVars,
              runtimeVars, bounds
<1>8. CASE StopWorker
  BY <1>8 DEF Types, StopWorker, Woken, Pc, Threads, locals, recordVars, stateVars,
              fileVars, runtimeVars, bounds
<1>9. CASE JoinWorker
  BY <1>9 DEF Types, JoinWorker, Goto, Pc, Threads, locals, asyncVars, recordVars,
              stateVars, fileVars, runtimeVars, bounds
<1> QED
  BY <1>1, <1>2, <1>3, <1>4, <1>5, <1>6, <1>7, <1>8, <1>9 DEF Calls

\* The worker's own steps do.
LEMMA WorkerKeepsTypes ==
    ASSUME Types, Worker
    PROVE  Types'
<1>1. CASE WorkerTakes
  BY <1>1 DEF Types, WorkerTakes, Goto, Pc, Threads, recordVars, stateVars, fileVars,
              runtimeVars, bounds
<1>2. CASE WorkerWaits
  BY <1>2 DEF Types, WorkerWaits, Goto, Pc, Threads, locals, asyncVars, recordVars,
              stateVars, fileVars, runtimeVars, bounds
<1>3. CASE WorkerAnswers
  BY <1>3 DEF Types, WorkerAnswers, Goto, Pc, Threads, locals, recordVars, stateVars,
              fileVars, runtimeVars, bounds
<1> QED
  BY <1>1, <1>2, <1>3 DEF Worker

\* A new process begins with them.
LEMMA RestartKeepsTypes ==
    ASSUME Types, Restart
    PROVE  Types'
<1>1. pc' \in [Threads -> Pc]
  BY DEF Restart, NewPc, Threads, Pc
<1>2. request' \in [Threads -> Request \cup {Rollback}]
  BY DEF Restart
<1>3. queue' \in Seq(Request)
  BY DEF Restart
<1>4. /\ file' \in [Models -> File] /\ backup' \in [Models -> File]
      /\ temporary' \in File /\ state' \in State /\ calls' \in Nat
  BY DEF Restart, Types, State, File
<1>5. restarts' \in Nat
  BY DEF Restart, Types
<1> QED
  BY <1>1, <1>2, <1>3, <1>4, <1>5 DEF Restart, Types

\* Entering a selection keeps them.
LEMMA EnteringKeepsTypes ==
    ASSUME Types, NEW t \in Threads,
           Refuse(t) \/ Enter(t) \/ AlreadyActive(t) \/ EnterRollback(t)
    PROVE  Types'
<1>1. CASE Refuse(t)
  BY <1>1, ReturnIsTyped DEF Types, Refuse, Fails, SetError, State, asyncVars,
              recordVars, fileVars, runtimeVars, bounds
<1>2. CASE Enter(t)
  <2>1. Wanted(t) \in Models
    BY <1>2, WantedIsModel DEF Enter
  <2> QED
    BY <1>2, <2>1, GotoIsTyped DEF Types, Enter, Wanted, Pc, Inside, State, asyncVars,
              recordVars, fileVars, runtimeVars, bounds
<1>3. CASE AlreadyActive(t)
  <2>1. /\ pc' \in [Threads -> Pc] /\ request' \in [Threads -> Request \cup {Rollback}]
        /\ old' \subseteq Models \cup {NoModel} /\ replaces' \in BOOLEAN
        /\ previous' \in {previous, NoModel}
    <3>1. CASE KeepsOnly(t)
      BY <1>3, <3>1, GotoIsTyped DEF AlreadyActive, Types, Pc, Inside
    <3>2. CASE ~KeepsOnly(t)
      BY <1>3, <3>2, ReturnIsTyped DEF AlreadyActive
    <3> QED
      BY <3>1, <3>2
  <2> QED
    BY <1>3, <2>1 DEF Types, AlreadyActive, State, asyncVars, fileVars, runtimeVars, bounds
<1>4. CASE EnterRollback(t)
  BY <1>4, GotoIsTyped DEF Types, EnterRollback, Pc, Inside, locals, asyncVars,
              recordVars, stateVars, fileVars, runtimeVars, bounds
<1> QED
  BY <1>1, <1>2, <1>3, <1>4

\* A download does.
LEMMA DownloadingKeepsTypes ==
    ASSUME Types, NEW t \in Threads, Downloading(t)
    PROVE  Types'
<1> USE DEF downloadRest, asyncVars, recordVars, runtimeVars, bounds
<1>1. CASE DownloadFails(t)
  BY <1>1, ReturnIsTyped DEF Types, DownloadFails, Fails, SetError, State, File
<1>2. CASE FindFile(t)
  BY <1>2, GotoIsTyped DEF Types, FindFile, Pc, Inside, locals, stateVars, fileVars
<1>3. CASE Transfer(t)
  BY <1>3, GotoIsTyped DEF Types, Transfer, Pc, Inside, File, locals, stateVars
<1>4. CASE CheckTemporary(t)
  BY <1>4, GotoIsTyped DEF Types, CheckTemporary, Pc, Inside, stateVars, fileVars
<1>5. CASE ClearBackup(t)
  BY <1>5, GotoIsTyped DEF Types, ClearBackup, Removed, Pc, Inside, File, locals, stateVars
<1>6. CASE StageFile(t)
  BY <1>6, GotoIsTyped DEF Types, StageFile, Pc, Inside, File, locals, stateVars
<1>7. CASE Publish(t)
  BY <1>7, GotoIsTyped DEF Types, Publish, Pc, Inside, File, locals, stateVars
<1>8. CASE DropBackup(t)
  BY <1>8, GotoIsTyped DEF Types, DropBackup, Removed, Pc, Inside, File, locals, stateVars
<1>9. CASE PublishFails(t)
  BY <1>9, GotoIsTyped DEF Types, PublishFails, Pc, Inside, locals, stateVars, fileVars
<1>10. CASE GiveUpPublishing(t)
  BY <1>10, ReturnIsTyped DEF Types, GiveUpPublishing, Fails, SetError, State, File
<1>11. CASE UnstageFile(t)
  BY <1>11, ReturnIsTyped DEF Types, UnstageFile, Fails, SetError, State, File
<1> QED
  BY <1>1, <1>2, <1>3, <1>4, <1>5, <1>6, <1>7, <1>8, <1>9, <1>10, <1>11 DEF Downloading

\* Any step of a selection does.
LEMMA SelectingKeepsTypes ==
    ASSUME Types, NEW t \in Threads, Selecting(t)
    PROVE  Types'
<1> USE DEF asyncVars, bounds
<1>1. CASE Refuse(t) \/ Enter(t) \/ AlreadyActive(t) \/ EnterRollback(t)
  BY <1>1, EnteringKeepsTypes
<1>2. CASE Downloading(t)
  BY <1>2, DownloadingKeepsTypes
<1>3. CASE Downloaded(t)
  <2>1. CASE Fails(t, "downloaded")
    BY <1>3, <2>1, ReturnIsTyped DEF Types, Downloaded, Fails, SetError, State,
                downloadRest, recordVars, fileVars, runtimeVars
  <2>2. CASE Goto(t, "downloaded", "verify") /\ state' = "verifying" /\ UNCHANGED <<locals, pending>>
    BY <1>3, <2>2, GotoIsTyped DEF Types, Downloaded, State, Pc, Inside, locals,
                downloadRest, recordVars, fileVars, runtimeVars
  <2> QED
    BY <1>3, <2>1, <2>2 DEF Downloaded
<1>4. CASE Verify(t)
  BY <1>4, GotoIsTyped DEF Types, Verify, Pc, Inside, locals, stateVars, fileVars,
              downloadRest, recordVars, runtimeVars
<1>5. CASE VerifyFails(t)
  BY <1>5, ReturnIsTyped DEF Types, VerifyFails, Fails, SetError, State, fileVars,
              downloadRest, recordVars, runtimeVars
<1>6. CASE Activate(t)
  BY <1>6, GotoIsTyped, TargetIsModel DEF Types, Activate, Pc, Inside, locals, stateVars,
              fileVars, recordVars
<1>7. CASE ActivateFails(t)
  BY <1>7, GotoIsTyped DEF Types, ActivateFails, Pc, Inside, locals, stateVars,
              fileVars, recordVars
<1>8. CASE RestoreRuntime(t)
  BY <1>8, ReturnIsTyped DEF Types, RestoreRuntime, Fails, SetError, State, fileVars,
              recordVars
<1>9. CASE Commit(t)
  <2>1. /\ pc' \in [Threads -> Pc] /\ request' \in [Threads -> Request \cup {Rollback}]
        /\ old' \subseteq Models \cup {NoModel} /\ replaces' \in BOOLEAN
    <3>1. CASE KeepsOnly(t)
      BY <1>9, <3>1, GotoIsTyped DEF Commit, Types, Pc, Inside, locals
    <3>2. CASE ~KeepsOnly(t)
      BY <1>9, <3>2, ReturnIsTyped DEF Commit
    <3> QED
      BY <3>1, <3>2
  <2>2. previous' \in {active, NoModel}
    BY <1>9 DEF Commit
  <2> QED
    BY <1>9, <2>1, <2>2, TargetIsModel DEF Types, Commit, State, fileVars, runtimeVars
<1>10. CASE Clean(t)
  <2>1. file' \in [Models -> File]
    BY <1>10 DEF Types, Clean, File
  <2> QED
    BY <1>10, <2>1, ReturnIsTyped DEF Types, Clean, recordVars, stateVars, runtimeVars
<1> QED
  BY <1>1, <1>2, <1>3, <1>4, <1>5, <1>6, <1>7, <1>8, <1>9, <1>10 DEF Selecting

-----------------------------------------------------------------------------
(* One thread inside, every future accounted for. *)

\* Which places each thread knows, and that the worker carries out selections only.
PlaceInv ==
    /\ pc["caller"] \in Inside \cup {"idle", "lock", "dying", "joining", "gone"}
    /\ pc["worker"] \in Inside \cup {"none", "look", "wait", "lock", "answer", "done"}
    /\ pc["caller"] \in Inside => pc["worker"] \notin Inside
    /\ asked = answered + Len(queue) + CarriedOut

\* What a step of a selection or rollback does to the places.
LEMMA SelectingMoves ==
    ASSUME NEW t \in Threads, Selecting(t)
    PROVE  /\ pc[t] \in Inside \/ (pc[t] = "lock" /\ Free)
           /\ \E to \in Inside \cup {IF t = "worker" THEN "answer" ELSE "idle"} :
                pc' = [pc EXCEPT ![t] = to]
           /\ UNCHANGED <<asyncVars, bounds>>
<1>1. CASE Refuse(t) \/ Enter(t) \/ AlreadyActive(t) \/ EnterRollback(t)
  BY <1>1 DEF Refuse, Enter, AlreadyActive, EnterRollback, Fails, Return, Goto, Inside
<1>2. CASE Downloading(t)
  BY <1>2 DEF Downloading, DownloadFails, FindFile, Transfer, CheckTemporary, ClearBackup,
              StageFile, Publish, DropBackup, PublishFails, GiveUpPublishing, UnstageFile,
              downloadRest, Fails, Return, Goto, Inside
<1>3. CASE Downloaded(t) \/ Verify(t) \/ VerifyFails(t)
  BY <1>3 DEF Downloaded, Verify, VerifyFails, downloadRest, Fails, Return, Goto, Inside
<1>4. CASE Activate(t) \/ ActivateFails(t) \/ RestoreRuntime(t) \/ Commit(t) \/ Clean(t)
  BY <1>4 DEF Activate, ActivateFails, RestoreRuntime, Commit, Clean, Fails, Return, Goto,
              Inside
<1> QED
  BY <1>1, <1>2, <1>3, <1>4 DEF Selecting

\* A selection keeps the other thread out of it.
LEMMA SelectingKeepsPlace ==
    ASSUME Types, PlaceInv, NEW t \in Threads, Selecting(t)
    PROVE  PlaceInv'
<1>1. PICK to \in Inside \cup {IF t = "worker" THEN "answer" ELSE "idle"} :
            pc' = [pc EXCEPT ![t] = to]
  BY SelectingMoves
<1>2. UNCHANGED <<asked, answered, queue>>
  BY SelectingMoves DEF asyncVars
<1>3. pc[t] \in Inside \/ (pc[t] = "lock" /\ Free)
  BY SelectingMoves
<1>4. t = "caller" \/ t = "worker"
  BY DEF Threads
<1>5. CarriedOut' = CarriedOut
  BY <1>1, <1>3, <1>4 DEF CarriedOut, Types
<1>6. /\ pc'["caller"] \in Inside \cup {"idle", "lock", "dying", "joining", "gone"}
      /\ pc'["worker"] \in Inside \cup {"none", "look", "wait", "lock", "answer", "done"}
      /\ pc'["caller"] \in Inside => pc'["worker"] \notin Inside
  BY <1>1, <1>3, <1>4 DEF PlaceInv, Types, Free, Threads, Inside
<1> QED
  BY <1>2, <1>5, <1>6 DEF PlaceInv

\* Whatever else happens leaves that so.
LEMMA OthersKeepPlace ==
    ASSUME Types, PlaceInv,
           Calls \/ Notify \/ StopWorker \/ JoinWorker \/ Worker
    PROVE  PlaceInv'
<1> USE DEF Types, PlaceInv, CarriedOut, Threads, Inside
<1>1. CASE Select \/ CallRollback
  BY <1>1 DEF Select, CallRollback, Call, Goto, asyncVars
<1>2. CASE AskRefused
  BY <1>2 DEF AskRefused
<1>3. CASE AskWithoutThread
  BY <1>3 DEF AskWithoutThread
<1>4. CASE Ask
  <2>1. Len(queue') = Len(queue) + 1
    BY <1>4 DEF Ask
  <2>2. pc'["caller"] = pc["caller"]
    BY <1>4 DEF Ask
  <2>3. pc'["worker"] = IF pc["worker"] = "none" THEN "look" ELSE pc["worker"]
    BY <1>4 DEF Ask
  <2>4. asked' = asked + 1 /\ answered' = answered
    BY <1>4 DEF Ask
  <2>5. Len(queue) \in Nat
    OBVIOUS
  <2>6. CarriedOut' = CarriedOut
    BY <2>3
  <2>7. asked' = answered' + Len(queue') + CarriedOut'
    <3>1. asked + 1 = answered + (Len(queue) + 1) + CarriedOut
      BY <2>5
    <3> QED
      BY <3>1, <2>1, <2>4, <2>6
  <2> QED
    BY <2>2, <2>3, <2>7
<1>5. CASE Destroy
  BY <1>5 DEF Destroy, Goto
<1>6. CASE Notify
  BY <1>6 DEF Notify, Woken
<1>7. CASE StopWorker
  BY <1>7 DEF StopWorker, Woken
<1>8. CASE JoinWorker
  BY <1>8 DEF JoinWorker, Goto, asyncVars
<1>9. CASE WorkerTakes
  <2>1. Len(queue) = Len(queue') + 1 /\ Len(queue') \in Nat
    BY <1>9 DEF WorkerTakes
  <2>2. pc["worker"] = "look" /\ pc' = [pc EXCEPT !["worker"] = "lock"]
    BY <1>9 DEF WorkerTakes, Goto
  <2>3. asked' = asked /\ answered' = answered
    BY <1>9 DEF WorkerTakes
  <2> QED
    BY <2>1, <2>2, <2>3
<1>10. CASE WorkerWaits
  BY <1>10 DEF WorkerWaits, Goto, asyncVars
<1>11. CASE WorkerAnswers
  <2>1. pc["worker"] = "answer" /\ pc' = [pc EXCEPT !["worker"] = "look"]
    BY <1>11 DEF WorkerAnswers, Goto
  <2>2. asked' = asked /\ answered' = answered + 1 /\ queue' = queue
    BY <1>11 DEF WorkerAnswers
  <2> QED
    BY <2>1, <2>2
<1> QED
  BY <1>1, <1>2, <1>3, <1>4, <1>5, <1>6, <1>7, <1>8, <1>9, <1>10, <1>11 DEF Calls, Worker

\* In a new process nobody is inside.
LEMMA RestartKeepsPlace ==
    ASSUME Types, Restart
    PROVE  PlaceInv'
<1>1. pc'["caller"] = "idle" /\ pc'["worker"] = "none"
  BY DEF Restart, NewPc, Threads
<1>2. Len(queue') = 0 /\ asked' = 0 /\ answered' = 0
  BY DEF Restart
<1> QED
  BY <1>1, <1>2 DEF PlaceInv, CarriedOut, Inside

-----------------------------------------------------------------------------
(* The files, the records and the runtime. *)

\* What the thread inside knows at each step.
At(t) ==
    /\ pc[t] \in {"find", "transfer", "check", "clear", "stage", "publish", "unstage",
                  "drop", "downloaded"} =>
        ~RollsBack(t) /\ Wanted(t) # active
    /\ pc[t] \in {"clear", "stage"} => file[Wanted(t)] # "missing"
    /\ (pc[t] = "publish" /\ replaces) => file[Wanted(t)] = "missing"
    /\ pc[t] = "unstage" => file[Wanted(t)] = "missing"
    /\ pc[t] = "drop" => file[Wanted(t)] = "good"
    /\ pc[t] \in {"clear", "stage", "publish"} => temporary = "good"
    /\ pc[t] \in {"verify", "activate", "commit"} =>
        Target(t) # NoModel /\ (~RollsBack(t) => Wanted(t) # active)
    /\ pc[t] \in {"activate", "commit"} => file[Target(t)] = "good"
    /\ pc[t] = "commit" => loaded = Target(t) /\ ~broken
    /\ pc[t] = "clean" =>
        /\ ~RollsBack(t) /\ Wanted(t) = active /\ previous = NoModel
        /\ pending = NoModel /\ state \notin {"downloading", "verifying"}
    /\ (pc[t] \in Inside \ {"clean"} /\ ~RollsBack(t)) => old = {active, previous}

\* A backup is worth keeping only while nothing that does not match is in its place.
BackupInv == \A m \in Models : file[m] = "bad" => backup[m] # "good"

\* Outside an activation the runtime has what the records say, and with no thread
\* inside nothing is shown as under way.
RestAt(t) ==
    /\ pc[t] \notin {"commit", "restore"} => loaded = IF broken THEN NoModel ELSE active
    /\ pc[t] \notin Inside => pending = NoModel /\ state \notin {"downloading", "verifying"}

\* The second thread, outside, has nothing to add.
Others(t) == \A u \in Threads \ {t} : pc[u] \notin Inside

Inv ==
    /\ Types /\ PlaceInv
    /\ BackupInv /\ RecordsAreUsable
    /\ \E t \in Threads : Others(t) /\ At(t) /\ RestAt(t)

Good(t) == Types /\ At(t) /\ RestAt(t) /\ BackupInv /\ RecordsAreUsable

\* NothingHalfDone is part of the invariant.
LEMMA RuntimeInvOf == Inv => NothingHalfDone
<1> SUFFICES ASSUME Inv, Free PROVE NothingHalfDone
  BY DEF NothingHalfDone
<1>1. PICK t \in Threads : Others(t) /\ At(t) /\ RestAt(t)
  BY DEF Inv
<1>2. pc[t] \notin Inside /\ pc[t] \notin {"commit", "restore"}
  BY DEF Free, Inside
<1> QED
  BY <1>1, <1>2 DEF RestAt, NothingHalfDone

\* The thread that takes a step is the one to look at.
LEMMA ThreadInside ==
    ASSUME Inv, NEW t \in Threads, pc[t] \in Inside \/ Free
    PROVE  Others(t) /\ Good(t)
<1>1. PICK u \in Threads : Others(u) /\ At(u) /\ RestAt(u)
  BY DEF Inv
<1>2. CASE u = t
  BY <1>1, <1>2 DEF Inv, Good
<1>3. CASE u # t
  <2>1. pc[t] \notin Inside
    BY <1>1, <1>3 DEF Others
  <2>2. Free
    BY <2>1
  <2>3. Others(t) /\ pc[u] \notin Inside
    BY <2>2 DEF Free, Others
  <2>4. At(t)
    BY <2>1 DEF At, Inside
  <2>5. RestAt(t)
    BY <1>1, <2>3 DEF RestAt, Inside
  <2> QED
    BY <2>3, <2>4, <2>5 DEF Inv, Good
<1> QED
  BY <1>2, <1>3

\* A thread outside has nothing to show but a manager at rest.
LEMMA OutsideIsGood ==
    ASSUME NEW t \in Threads, pc'[t] \notin Inside
    PROVE  At(t)'
  BY DEF At, Inside

\* set_error() and the end of a selection: the files, records and runtime are what
\* they were.
LEMMA FailsKeeps ==
    ASSUME NEW t \in Threads, Good(t), NEW from, from \notin {"commit", "restore"},
           Fails(t, from), UNCHANGED <<recordVars, runtimeVars>>
    PROVE  At(t)' /\ RestAt(t)'
<1>1. pc[t] = from /\ pc'[t] \notin Inside
  BY DEF Good, Types, Fails, Return, Goto, Inside
<1>2. At(t)'
  BY <1>1, OutsideIsGood
<1>3. pending' = NoModel /\ state' = "error"
  BY DEF Fails, SetError
<1>4. UNCHANGED <<active, loaded, broken>>
  BY DEF recordVars, runtimeVars
<1> QED
  BY <1>1, <1>2, <1>3, <1>4 DEF Good, RestAt

\* Without a change of files or records they stay usable.
LEMMA FilesUnchanged ==
    ASSUME BackupInv, RecordsAreUsable, UNCHANGED <<file, backup, recordVars>>
    PROVE  BackupInv' /\ RecordsAreUsable'
  BY DEF BackupInv, RecordsAreUsable, OnDisk, recordVars

\* Entering a selection keeps what it will rest on.
LEMMA EnteringKeeps ==
    ASSUME NEW t \in Threads, Good(t),
           Refuse(t) \/ Enter(t) \/ AlreadyActive(t) \/ EnterRollback(t)
    PROVE  At(t)' /\ RestAt(t)' /\ BackupInv' /\ RecordsAreUsable'
<1>1. CASE Refuse(t)
  BY <1>1, FailsKeeps, FilesUnchanged DEF Refuse, Good, fileVars
<1>2. CASE Enter(t)
  <2>1. pc[t] = "lock" /\ pc'[t] = "find"
    BY <1>2 DEF Good, Types, Enter, Goto
  <2>2. /\ UNCHANGED <<file, backup, recordVars, active, previous, loaded, broken, request>>
        /\ old' = {active, previous}
    BY <1>2 DEF Enter, fileVars, runtimeVars, recordVars
  <2>3. ~RollsBack(t) /\ Wanted(t) # active
    BY <1>2 DEF Enter, Wanted
  <2>4. At(t)'
    BY <2>1, <2>2, <2>3 DEF At, RollsBack, Wanted
  <2>5. RestAt(t)'
    BY <2>1, <2>2 DEF Good, RestAt, Inside
  <2> QED
    BY <2>2, <2>4, <2>5, FilesUnchanged DEF Good
<1>3. CASE AlreadyActive(t)
  <2>1. pc[t] = "lock" /\ pc'[t] \notin {"commit", "restore"}
    BY <1>3 DEF Good, Types, AlreadyActive, Return, Goto
  <2>2. /\ UNCHANGED <<file, backup, active, loaded, broken>>
        /\ pending' = NoModel /\ state' = "active" /\ previous' \in {previous, NoModel}
    BY <1>3 DEF AlreadyActive, fileVars, runtimeVars
  <2>3. RestAt(t)'
    BY <2>1, <2>2 DEF Good, RestAt
  <2>4. BackupInv' /\ RecordsAreUsable'
    BY <2>2 DEF Good, BackupInv, RecordsAreUsable, OnDisk
  <2>5. At(t)'
    <3>1. CASE KeepsOnly(t)
      <4>1. pc'[t] = "clean" /\ previous' = NoModel /\ request' = request
        BY <1>3, <3>1 DEF Good, Types, AlreadyActive, Goto
      <4>2. ~RollsBack(t) /\ Wanted(t) = active
        BY <1>3 DEF AlreadyActive, Wanted
      <4> QED
        BY <2>2, <4>1, <4>2 DEF At, RollsBack, Wanted
    <3>2. CASE ~KeepsOnly(t)
      BY <1>3, <3>2, OutsideIsGood DEF Good, Types, AlreadyActive, Return, Goto, Inside
    <3> QED
      BY <3>1, <3>2
  <2> QED
    BY <2>3, <2>4, <2>5
<1>4. CASE EnterRollback(t)
  <2>1. pc[t] = "lock" /\ pc'[t] = "verify"
    BY <1>4 DEF Good, Types, EnterRollback, Goto
  <2>2. UNCHANGED <<file, backup, recordVars, active, previous, loaded, broken, request>>
    BY <1>4 DEF EnterRollback, fileVars, runtimeVars, recordVars, locals
  <2>3. RollsBack(t) /\ Target(t) # NoModel
    BY <1>4 DEF EnterRollback, Target
  <2>4. At(t)'
    BY <2>1, <2>2, <2>3 DEF At, RollsBack, Wanted, Target
  <2>5. RestAt(t)'
    BY <2>1, <2>2 DEF Good, RestAt, Inside
  <2> QED
    BY <2>2, <2>4, <2>5, FilesUnchanged DEF Good
<1> QED
  BY <1>1, <1>2, <1>3, <1>4

\* A step of the download that goes on to the next one.
LEMMA DownloadGoesOn ==
    ASSUME NEW t \in Threads, Good(t), NEW from, NEW to, Goto(t, from, to),
           from \notin {"commit", "restore"}, to \in Inside,
           UNCHANGED <<recordVars, runtimeVars>>
    PROVE  pc[t] = from /\ pc'[t] = to /\ RestAt(t)'
  BY DEF Good, Types, Goto, RestAt, recordVars, runtimeVars

\* A download publishes good files only and never touches the active model's.
LEMMA DownloadingKeeps ==
    ASSUME NEW t \in Threads, Good(t), Downloading(t)
    PROVE  At(t)' /\ RestAt(t)' /\ BackupInv' /\ RecordsAreUsable'
<1> DEFINE W == Wanted(t)
<1>1. UNCHANGED <<recordVars, runtimeVars, active, previous, loaded, broken>>
  BY DEF Downloading, DownloadFails, FindFile, Transfer, CheckTemporary, ClearBackup,
         StageFile, Publish, DropBackup, PublishFails, GiveUpPublishing, UnstageFile,
         downloadRest, recordVars, runtimeVars
<1>2. CASE DownloadFails(t)
  BY <1>1, <1>2, FailsKeeps, FilesUnchanged DEF DownloadFails, Good
<1>3. CASE FindFile(t)
  <2>1. UNCHANGED <<file, backup, request, old>>
    BY <1>3 DEF FindFile, fileVars, locals
  <2>2. PICK to \in {"downloaded", "transfer"} : Goto(t, "find", to)
    BY <1>3 DEF FindFile
  <2>3. pc[t] = "find" /\ pc'[t] = to /\ RestAt(t)'
    BY <1>1, <2>2, DownloadGoesOn DEF Inside
  <2>4. At(t)'
    BY <1>1, <2>1, <2>2, <2>3 DEF Good, At, RollsBack, Wanted, Inside
  <2> QED
    BY <1>1, <2>1, <2>3, <2>4, FilesUnchanged DEF Good
<1>4. CASE Transfer(t)
  <2>1. UNCHANGED <<file, backup, request, old>>
    BY <1>4 DEF Transfer, locals
  <2>2. pc[t] = "transfer" /\ pc'[t] = "check" /\ RestAt(t)'
    BY <1>1, <1>4, DownloadGoesOn DEF Transfer, Inside
  <2>3. At(t)'
    BY <1>1, <2>1, <2>2 DEF Good, At, RollsBack, Wanted, Inside
  <2> QED
    BY <1>1, <2>1, <2>2, <2>3, FilesUnchanged DEF Good
<1>5. CASE CheckTemporary(t)
  <2>1. /\ UNCHANGED <<file, backup, request, old, temporary>>
        /\ temporary = "good" /\ replaces' = (file[W] # "missing")
    BY <1>5 DEF CheckTemporary, fileVars
  <2>2. PICK to \in {"clear", "publish"} :
            Goto(t, "check", to) /\ (to = "clear" <=> replaces')
    BY <1>5 DEF CheckTemporary
  <2>3. pc[t] = "check" /\ pc'[t] = to /\ RestAt(t)'
    BY <1>1, <2>2, DownloadGoesOn DEF Inside
  <2>4. At(t)'
    BY <1>1, <2>1, <2>2, <2>3 DEF Good, At, RollsBack, Wanted, Inside
  <2> QED
    BY <1>1, <2>1, <2>3, <2>4, FilesUnchanged DEF Good
<1>6. CASE ClearBackup(t)
  <2>1. /\ UNCHANGED <<file, request, old, temporary>>
        /\ backup' \in {backup, [backup EXCEPT ![W] = "missing"]}
    BY <1>6 DEF ClearBackup, Removed, locals
  <2>2. pc[t] = "clear" /\ pc'[t] = "stage" /\ RestAt(t)'
    BY <1>1, <1>6, DownloadGoesOn DEF ClearBackup, Inside
  <2>3. At(t)'
    BY <1>1, <2>1, <2>2 DEF Good, At, RollsBack, Wanted, Inside
  <2>4. W \in Models /\ file[W] # "missing"
    BY <2>2, WantedIsModel DEF Good, At
  <2>5. BackupInv'
    BY <2>1, <2>4 DEF Good, Types, BackupInv
  <2>6. \A m \in Models : OnDisk(m) => OnDisk(m)'
    BY <2>1, <2>4 DEF Good, Types, BackupInv, OnDisk, File
  <2>7. RecordsAreUsable'
    BY <1>1, <2>1, <2>6 DEF Good, Types, RecordsAreUsable
  <2> QED
    BY <2>2, <2>3, <2>5, <2>7
<1>7. CASE StageFile(t)
  <2>1. /\ UNCHANGED <<request, old, temporary>>
        /\ backup' = [backup EXCEPT ![W] = file[W]]
        /\ file' = [file EXCEPT ![W] = "missing"]
    BY <1>7 DEF StageFile, locals
  <2>2. pc[t] = "stage" /\ pc'[t] = "publish" /\ RestAt(t)'
    BY <1>1, <1>7, DownloadGoesOn DEF StageFile, Inside
  <2>3. W \in Models /\ file[W] # "missing" /\ W # active
    BY <2>2, WantedIsModel DEF Good, At
  <2>4. At(t)'
    BY <1>1, <2>1, <2>2, <2>3 DEF Good, Types, At, RollsBack, Wanted, Inside
  <2>5. BackupInv'
    BY <2>1, <2>3 DEF Good, Types, BackupInv
  <2>6. \A m \in Models : OnDisk(m) => OnDisk(m)'
    BY <2>1, <2>3 DEF Good, Types, BackupInv, OnDisk, File
  <2>7. RecordsAreUsable'
    BY <1>1, <2>1, <2>3, <2>6 DEF Good, Types, RecordsAreUsable
  <2> QED
    BY <2>2, <2>4, <2>5, <2>7
<1>8. CASE Publish(t)
  <2>1. UNCHANGED <<request, old, backup>> /\ file' = [file EXCEPT ![W] = temporary]
    BY <1>8 DEF Publish, locals
  <2>2. PICK to \in {"drop", "downloaded"} : Goto(t, "publish", to)
    BY <1>8 DEF Publish
  <2>3. pc[t] = "publish" /\ pc'[t] = to /\ RestAt(t)'
    BY <1>1, <2>2, DownloadGoesOn DEF Inside
  <2>4. W \in Models /\ temporary = "good" /\ W # active
    BY <2>3, WantedIsModel DEF Good, At
  <2>5. At(t)'
    BY <1>1, <2>1, <2>2, <2>3, <2>4 DEF Good, Types, At, RollsBack, Wanted, Inside
  <2>6. BackupInv'
    BY <2>1, <2>4 DEF Good, Types, BackupInv
  <2>7. \A m \in Models : OnDisk(m) => OnDisk(m)'
    BY <2>1, <2>4 DEF Good, Types, OnDisk
  <2>8. RecordsAreUsable'
    BY <1>1, <2>1, <2>4, <2>7 DEF Good, Types, RecordsAreUsable
  <2> QED
    BY <2>3, <2>5, <2>6, <2>8
<1>9. CASE DropBackup(t)
  <2>1. /\ UNCHANGED <<request, old, file, temporary>>
        /\ backup' \in {backup, [backup EXCEPT ![W] = "missing"]}
    BY <1>9 DEF DropBackup, Removed, locals
  <2>2. pc[t] = "drop" /\ pc'[t] = "downloaded" /\ RestAt(t)'
    BY <1>1, <1>9, DownloadGoesOn DEF DropBackup, Inside
  <2>3. W \in Models /\ file[W] = "good"
    BY <2>2, WantedIsModel DEF Good, At
  <2>4. At(t)'
    BY <1>1, <2>1, <2>2 DEF Good, At, RollsBack, Wanted, Inside
  <2>5. BackupInv'
    BY <2>1, <2>3 DEF Good, Types, BackupInv
  <2>6. \A m \in Models : OnDisk(m) => OnDisk(m)'
    BY <2>1, <2>3 DEF Good, Types, OnDisk
  <2>7. RecordsAreUsable'
    BY <1>1, <2>1, <2>6 DEF Good, Types, RecordsAreUsable
  <2> QED
    BY <2>2, <2>4, <2>5, <2>7
<1>10. CASE PublishFails(t)
  <2>1. UNCHANGED <<file, backup, request, old, temporary, replaces>> /\ replaces
    BY <1>10 DEF PublishFails, fileVars, locals
  <2>2. pc[t] = "publish" /\ pc'[t] = "unstage" /\ RestAt(t)'
    BY <1>1, <1>10, DownloadGoesOn DEF PublishFails, Inside
  <2>3. At(t)'
    BY <1>1, <2>1, <2>2 DEF Good, At, RollsBack, Wanted, Inside
  <2> QED
    BY <1>1, <2>1, <2>2, <2>3, FilesUnchanged DEF Good
<1>11. CASE GiveUpPublishing(t)
  BY <1>1, <1>11, FailsKeeps, FilesUnchanged DEF GiveUpPublishing, Good
<1>12. CASE UnstageFile(t)
  <2>1. /\ file' = [file EXCEPT ![W] = backup[W]]
        /\ backup' = [backup EXCEPT ![W] = "missing"]
    BY <1>12 DEF UnstageFile
  <2>2. pc[t] = "unstage" /\ Fails(t, "unstage")
    BY <1>12 DEF UnstageFile, Fails, Return, Goto
  <2>3. W \in Models /\ file[W] = "missing" /\ W # active
    BY <2>2, WantedIsModel DEF Good, At
  <2>4. At(t)' /\ RestAt(t)'
    BY <1>1, <2>2, FailsKeeps
  <2>5. BackupInv'
    BY <2>1, <2>3 DEF Good, Types, BackupInv
  <2>6. \A m \in Models : OnDisk(m) => OnDisk(m)'
    BY <2>1, <2>3 DEF Good, Types, OnDisk
  <2>7. RecordsAreUsable'
    BY <1>1, <2>1, <2>3, <2>6 DEF Good, Types, RecordsAreUsable
  <2> QED
    BY <2>4, <2>5, <2>7
<1> QED
  BY <1>2, <1>3, <1>4, <1>5, <1>6, <1>7, <1>8, <1>9, <1>10, <1>11, <1>12 DEF Downloading

\* Verification and activation change no file and no record.
LEMMA ActivatingKeeps ==
    ASSUME NEW t \in Threads, Good(t),
           \/ Downloaded(t) \/ Verify(t) \/ VerifyFails(t)
           \/ Activate(t) \/ ActivateFails(t) \/ RestoreRuntime(t)
    PROVE  At(t)' /\ RestAt(t)' /\ BackupInv' /\ RecordsAreUsable'
<1>1. UNCHANGED <<file, backup, recordVars, active, previous>>
  BY DEF Downloaded, Verify, VerifyFails, Activate, ActivateFails, RestoreRuntime,
         downloadRest, recordVars, fileVars
<1>2. BackupInv' /\ RecordsAreUsable'
  BY <1>1, FilesUnchanged DEF Good
<1>3. CASE Downloaded(t)
  <2>1. UNCHANGED <<recordVars, runtimeVars, loaded, broken>>
    BY <1>3 DEF Downloaded, downloadRest, recordVars, runtimeVars
  <2>2. CASE Fails(t, "downloaded")
    BY <2>1, <2>2, <1>2, FailsKeeps
  <2>3. CASE Goto(t, "downloaded", "verify") /\ UNCHANGED locals
    <3>1. pc[t] = "downloaded" /\ pc'[t] = "verify" /\ RestAt(t)'
      BY <2>1, <2>3, DownloadGoesOn DEF Inside
    <3>2. UNCHANGED <<request, old>>
      BY <2>3 DEF locals
    <3>3. ~RollsBack(t) /\ Wanted(t) # active /\ Wanted(t) \in Models
      BY <3>1, WantedIsModel DEF Good, At
    <3>4. Target(t)' = Wanted(t) /\ Wanted(t) # NoModel
      BY <3>2, <3>3, NoModelAssumption DEF Target, RollsBack, Wanted
    <3>5. At(t)'
      BY <1>1, <3>1, <3>2, <3>3, <3>4 DEF Good, At, RollsBack, Wanted, Inside
    <3> QED
      BY <1>2, <3>1, <3>5
  <2> QED
    BY <1>3, <2>2, <2>3 DEF Downloaded
<1>4. CASE Verify(t)
  <2>1. UNCHANGED <<recordVars, runtimeVars, request, old>>
    BY <1>4 DEF Verify, downloadRest, locals
  <2>2. pc[t] = "verify" /\ pc'[t] = "activate" /\ RestAt(t)'
    BY <1>4, <2>1, DownloadGoesOn DEF Verify, Inside
  <2>3. file[Target(t)] = "good" /\ Target(t)' = Target(t)
    BY <1>1, <1>4, <2>1 DEF Verify, Target, RollsBack
  <2>4. At(t)'
    BY <1>1, <2>1, <2>2, <2>3 DEF Good, At, RollsBack, Wanted, Inside
  <2> QED
    BY <1>2, <2>2, <2>4
<1>5. CASE VerifyFails(t)
  <2>1. UNCHANGED <<recordVars, runtimeVars>> /\ Fails(t, "verify")
    BY <1>5 DEF VerifyFails, downloadRest
  <2> QED
    BY <2>1, <1>2, FailsKeeps
<1>6. CASE Activate(t)
  <2>1. UNCHANGED <<request, old>> /\ loaded' = Target(t) /\ broken' = FALSE
    BY <1>6 DEF Activate, locals
  <2>2. pc[t] = "activate" /\ pc'[t] = "commit"
    BY <1>6 DEF Good, Types, Activate, Goto
  <2>3. Target(t)' = Target(t)
    BY <1>1, <2>1 DEF Target, RollsBack
  <2>4. At(t)'
    BY <1>1, <2>1, <2>2, <2>3 DEF Good, At, RollsBack, Wanted, Inside
  <2>5. RestAt(t)'
    BY <2>2 DEF RestAt, Inside
  <2> QED
    BY <1>2, <2>4, <2>5
<1>7. CASE ActivateFails(t)
  <2>1. UNCHANGED <<request, old>>
    BY <1>7 DEF ActivateFails, locals
  <2>2. pc[t] = "activate" /\ pc'[t] = "restore"
    BY <1>7 DEF Good, Types, ActivateFails, Goto
  <2>3. At(t)'
    BY <1>1, <2>1, <2>2 DEF Good, At, RollsBack, Inside
  <2>4. RestAt(t)'
    BY <2>2 DEF RestAt, Inside
  <2> QED
    BY <1>2, <2>3, <2>4
<1>8. CASE RestoreRuntime(t)
  <2>1. pc'[t] \notin Inside
    BY <1>8 DEF Good, Types, RestoreRuntime, Fails, Return, Goto, Inside
  <2>2. /\ loaded' \in {active, NoModel} /\ broken' = (loaded' # active)
        /\ pending' = NoModel /\ state' = "error"
    BY <1>8 DEF RestoreRuntime, Fails, SetError
  <2>3. loaded' = IF broken' THEN NoModel ELSE active'
    BY <1>1, <2>2
  <2>4. RestAt(t)'
    BY <2>2, <2>3 DEF RestAt
  <2> QED
    BY <1>2, <2>1, <2>4, OutsideIsGood
<1> QED
  BY <1>3, <1>4, <1>5, <1>6, <1>7, <1>8

\* Committing and cleaning up leave the records with verified files.
LEMMA CommittingKeeps ==
    ASSUME NEW t \in Threads, Good(t), Commit(t) \/ Clean(t)
    PROVE  At(t)' /\ RestAt(t)' /\ BackupInv' /\ RecordsAreUsable'
<1>1. CASE Commit(t)
  <2>1. /\ UNCHANGED <<file, backup, loaded, broken>>
        /\ pending' = NoModel /\ state' = "active" /\ active' = Target(t)
        /\ previous' = IF KeepsOnly(t) THEN NoModel ELSE active
    BY <1>1 DEF Commit, fileVars, runtimeVars
  <2>2. pc[t] = "commit" /\ pc'[t] \notin {"commit", "restore"}
    BY <1>1 DEF Good, Types, Commit, Return, Goto
  <2>3. /\ Target(t) # NoModel /\ file[Target(t)] = "good"
        /\ loaded = Target(t) /\ ~broken
    BY <2>2 DEF Good, At
  <2>4. RestAt(t)'
    BY <2>1, <2>2, <2>3 DEF RestAt
  <2>5. BackupInv'
    BY <2>1 DEF Good, BackupInv
  <2>6. Target(t) # active
    BY <2>2, <2>3 DEF Good, At, Target, Wanted, RecordsAreUsable
  <2>7. RecordsAreUsable'
    BY <2>1, <2>3, <2>6 DEF Good, RecordsAreUsable, OnDisk
  <2>8. CASE KeepsOnly(t)
    <3>1. pc'[t] = "clean" /\ request' = request /\ previous' = NoModel
      BY <1>1, <2>8, <2>1 DEF Good, Types, Commit, Goto, locals
    <3>2. ~RollsBack(t)
      BY <2>8 DEF KeepsOnly, RollsBack, Rollback
    <3>3. Wanted(t) = Target(t)
      BY <3>2 DEF Target, Wanted
    <3>4. At(t)'
      BY <2>1, <3>1, <3>2, <3>3 DEF At, RollsBack, Wanted
    <3> QED
      BY <2>4, <2>5, <2>7, <3>4
  <2>9. CASE ~KeepsOnly(t)
    <3>1. pc'[t] \notin Inside
      BY <1>1, <2>9 DEF Good, Types, Commit, Return, Goto, Inside
    <3> QED
      BY <2>4, <2>5, <2>7, <3>1, OutsideIsGood
  <2> QED
    BY <2>8, <2>9
<1>2. CASE Clean(t)
  <2>1. /\ UNCHANGED <<backup, active, previous, loaded, broken, state, pending>>
        /\ pc[t] = "clean" /\ pc'[t] \notin Inside
    BY <1>2 DEF Good, Types, Clean, Return, Goto, Inside, recordVars, stateVars, runtimeVars
  <2>2. PICK gone \in SUBSET (old \ {Wanted(t), NoModel}) :
            file' = [m \in Models |-> IF m \in gone THEN "missing" ELSE file[m]]
    BY <1>2 DEF Clean
  <2>3. /\ Wanted(t) = active /\ previous = NoModel
        /\ pending = NoModel /\ state \notin {"downloading", "verifying"}
    BY <2>1 DEF Good, At
  <2>4. RestAt(t)'
    BY <2>1, <2>3 DEF Good, RestAt
  <2>5. BackupInv'
    BY <2>1, <2>2 DEF Good, BackupInv
  <2>6. RecordsAreUsable'
    BY <2>1, <2>2, <2>3 DEF Good, Types, RecordsAreUsable
  <2> QED
    BY <2>1, <2>4, <2>5, <2>6, OutsideIsGood
<1> QED
  BY <1>1, <1>2

\* Calls, notifications and the worker's own steps leave what a thread inside relies on.
LEMMA OthersChange ==
    ASSUME Types, Calls \/ Notify \/ StopWorker \/ JoinWorker \/ Worker
    PROVE  /\ \A t \in Threads :
                \/ pc'[t] = pc[t] /\ request'[t] = request[t]
                \/ pc[t] \notin Inside /\ pc'[t] \notin Inside
           /\ UNCHANGED <<old, replaces, active, previous, file, backup, temporary,
                          loaded, broken>>
           /\ \/ UNCHANGED <<state, pending>>
              \/ state' = "error" /\ pending' = NoModel
<1> USE DEF Types, Threads, Inside, locals, recordVars, stateVars, fileVars, runtimeVars
<1>1. CASE Select \/ CallRollback
  BY <1>1 DEF Select, CallRollback, Call, Goto
<1>2. CASE AskRefused
  BY <1>2 DEF AskRefused
<1>3. CASE AskWithoutThread
  BY <1>3 DEF AskWithoutThread, SetError
<1>4. CASE Ask
  BY <1>4 DEF Ask
<1>5. CASE Destroy
  BY <1>5 DEF Destroy, Goto
<1>6. CASE Notify
  BY <1>6 DEF Notify, Woken
<1>7. CASE StopWorker
  BY <1>7 DEF StopWorker, Woken
<1>8. CASE JoinWorker
  BY <1>8 DEF JoinWorker, Goto
<1>9. CASE WorkerTakes
  BY <1>9 DEF WorkerTakes, Goto
<1>10. CASE WorkerWaits
  BY <1>10 DEF WorkerWaits, Goto
<1>11. CASE WorkerAnswers
  BY <1>11 DEF WorkerAnswers, Goto
<1> QED
  BY <1>1, <1>2, <1>3, <1>4, <1>5, <1>6, <1>7, <1>8, <1>9, <1>10, <1>11 DEF Calls, Worker

\* Any step of a selection keeps the invariant.
LEMMA SelectingKeepsInv ==
    ASSUME Inv, NEW t \in Threads, Selecting(t)
    PROVE  Inv'
<1>1. Others(t) /\ Good(t)
  BY SelectingMoves, ThreadInside
<1>2. Types' /\ PlaceInv'
  BY SelectingKeepsTypes, SelectingKeepsPlace DEF Inv
<1>3. At(t)' /\ RestAt(t)' /\ BackupInv' /\ RecordsAreUsable'
  BY <1>1, EnteringKeeps, DownloadingKeeps, ActivatingKeeps, CommittingKeeps DEF Selecting
<1>4. Others(t)'
  <2>1. PICK to : pc' = [pc EXCEPT ![t] = to]
    BY SelectingMoves
  <2> QED
    BY <1>1, <2>1 DEF Good, Types, Others
<1> QED
  BY <1>2, <1>3, <1>4 DEF Inv

\* So does any other step of this process.
LEMMA OthersKeepInv ==
    ASSUME Inv, Calls \/ Notify \/ StopWorker \/ JoinWorker \/ Worker
    PROVE  Inv'
<1>1. PICK t \in Threads : Others(t) /\ At(t) /\ RestAt(t)
  BY DEF Inv
<1>2. Types' /\ PlaceInv'
  BY CallsKeepTypes, WorkerKeepsTypes, OthersKeepPlace DEF Inv
<1>3. /\ \A u \in Threads :
            \/ pc'[u] = pc[u] /\ request'[u] = request[u]
            \/ pc[u] \notin Inside /\ pc'[u] \notin Inside
      /\ UNCHANGED <<old, replaces, active, previous, file, backup, temporary,
                     loaded, broken>>
      /\ \/ UNCHANGED <<state, pending>>
         \/ state' = "error" /\ pending' = NoModel
  BY OthersChange DEF Inv
<1>4. Others(t)'
  BY <1>1, <1>3 DEF Others
<1>5. BackupInv' /\ RecordsAreUsable'
  BY <1>3, FilesUnchanged DEF Inv, recordVars
<1>6. CASE pc'[t] = pc[t] /\ request'[t] = request[t]
  <2>1. /\ RollsBack(t)' = RollsBack(t) /\ Wanted(t)' = Wanted(t)
        /\ Target(t)' = Target(t)
    BY <1>3, <1>6 DEF RollsBack, Wanted, Target
  <2>2. At(t)'
    BY <1>1, <1>3, <1>6, <2>1 DEF At
  <2>3. RestAt(t)'
    BY <1>1, <1>3, <1>6 DEF RestAt
  <2> QED
    BY <1>2, <1>4, <1>5, <2>2, <2>3 DEF Inv
<1>7. CASE pc[t] \notin Inside /\ pc'[t] \notin Inside
  <2>1. At(t)'
    BY <1>7, OutsideIsGood
  <2>2. RestAt(t)'
    BY <1>1, <1>3, <1>7 DEF RestAt, Inside
  <2> QED
    BY <1>2, <1>4, <1>5, <2>1, <2>2 DEF Inv
<1> QED
  BY <1>3, <1>6, <1>7

\* And the beginning of the next one.
LEMMA RestartKeepsInv ==
    ASSUME Inv, Restart
    PROVE  Inv'
<1>1. Types' /\ PlaceInv'
  BY RestartKeepsTypes, RestartKeepsPlace DEF Inv
<1>2. /\ UNCHANGED <<file, backup>> /\ active' = NoModel /\ previous' = NoModel
      /\ loaded' = NoModel /\ pending' = NoModel /\ state' = "unselected"
  BY DEF Restart
<1>3. BackupInv' /\ RecordsAreUsable'
  BY <1>2 DEF Inv, BackupInv, RecordsAreUsable
<1>4. \A u \in Threads : pc'[u] \notin Inside
  BY DEF Restart, NewPc, Inside, Threads
<1>5. "caller" \in Threads
  BY DEF Threads
<1>6. At("caller")'
  BY <1>4, <1>5, OutsideIsGood
<1>7. RestAt("caller")'
  BY <1>2 DEF RestAt
<1>8. Others("caller")'
  BY <1>4 DEF Others
<1> QED
  BY <1>1, <1>3, <1>5, <1>6, <1>7, <1>8 DEF Inv

\* It holds at first.
LEMMA InitHasInv == Init => Inv
<1> SUFFICES ASSUME Init PROVE Inv
  OBVIOUS
<1>1. pc \in [Threads -> Pc] /\ pc["caller"] = "idle" /\ pc["worker"] = "none"
  BY DEF Init, NewPc, Threads, Pc
<1>2. request \in [Threads -> Request \cup {Rollback}]
  BY DEF Init
<1>3. file \in [Models -> File] /\ backup \in [Models -> File]
  BY FoundAssumption DEF Init, File
<1>4. queue \in Seq(Request) /\ Len(queue) = 0
  BY DEF Init
<1>5. Types
  BY <1>1, <1>2, <1>3, <1>4 DEF Init, Types, State, File
<1>6. PlaceInv
  BY <1>1, <1>4 DEF Init, PlaceInv, CarriedOut, Inside
<1>7. BackupInv /\ RecordsAreUsable
  BY DEF Init, BackupInv, RecordsAreUsable
<1>8. "caller" \in Threads /\ \A u \in Threads : pc[u] \notin Inside
  BY <1>1 DEF Threads, Inside
<1>9. At("caller") /\ Others("caller")
  BY <1>1, <1>8 DEF At, Others, Inside
<1>10. RestAt("caller")
  BY DEF RestAt, Init
<1> QED
  BY <1>5, <1>6, <1>7, <1>8, <1>9, <1>10 DEF Inv

\* Every step keeps it.
LEMMA NextKeepsInv == Inv /\ [Next]_vars => Inv'
<1> SUFFICES ASSUME Inv, [Next]_vars PROVE Inv'
  OBVIOUS
<1>1. CASE Calls \/ Notify \/ StopWorker \/ JoinWorker \/ Worker
  BY <1>1, OthersKeepInv
<1>2. CASE \E t \in Threads : Selecting(t)
  BY <1>2, SelectingKeepsInv
<1>3. CASE Restart
  BY <1>3, RestartKeepsInv
<1>4. CASE UNCHANGED vars
  <2>1. PICK t \in Threads : Others(t) /\ At(t) /\ RestAt(t)
    BY DEF Inv
  <2> USE <1>4 DEF vars, locals, asyncVars, recordVars, stateVars, fileVars, runtimeVars,
                   bounds
  <2>2. Types'
    BY DEF Inv, Types
  <2>3. PlaceInv'
    BY DEF Inv, PlaceInv, CarriedOut
  <2>4. BackupInv' /\ RecordsAreUsable'
    BY FilesUnchanged DEF Inv
  <2>5. At(t)'
    BY <2>1 DEF At, RollsBack, Wanted, Target
  <2>6. RestAt(t)' /\ Others(t)'
    BY <2>1 DEF RestAt, Others
  <2> QED
    BY <2>2, <2>3, <2>4, <2>5, <2>6 DEF Inv
<1> QED
  BY <1>1, <1>2, <1>3, <1>4 DEF Next

\* So it holds always.
LEMMA InvHolds == Spec => []Inv
<1>1. Init => Inv
  BY InitHasInv
<1>2. Inv /\ [Next]_vars => Inv'
  BY NextKeepsInv
<1> QED
  BY <1>1, <1>2, PTL DEF Spec

\* One thread at a time is inside select_impl() or rollback(), and every future given
\* out by select_async() is queued, being carried out or fulfilled, and only one of them.
THEOREM ManagerTypeCorrect == Spec => []TypeOK
<1>1. Inv => TypeOK
  BY DEF Inv, PlaceInv, TypeOK
<1> QED
  BY <1>1, InvHolds, PTL

\* The active model's file is in the cache and verified after any failure, crash or
\* rollback, and so is the one to roll back to, perhaps under its backup's name.
\* (select_impl(), ModelDownloader::download().)
THEOREM ActiveModelIsInCache == Spec => []RecordsAreUsable
<1>1. Inv => RecordsAreUsable
  BY DEF Inv
<1> QED
  BY <1>1, InvHolds, PTL

\* Whichever exit a selection or rollback took, nothing is pending after it and the
\* runtime has the active model again, or none.  (select_impl(), restore_runtime().)
THEOREM SelectionsLeaveNothingHalfDone == Spec => []NothingHalfDone
<1>1. Inv => NothingHalfDone
  BY RuntimeInvOf
<1> QED
  BY <1>1, InvHolds, PTL

-----------------------------------------------------------------------------
(* The manager is a store. *)

Disk == {m \in Models : OnDisk(m)}

\* What one thread has left to remove, whatever the other's place (of p), the records
\* it started from (o) and the requests (r).
LEMMA OneSpare ==
    ASSUME NEW p, NEW o, NEW r, NEW t \in Threads,
           \A u \in Threads \ {t} : p[u] # "clean"
    PROVE  UNION {o \ {r[u].model, NoModel} : u \in {v \in Threads : p[v] = "clean"}} =
              IF p[t] = "clean" THEN o \ {r[t].model, NoModel} ELSE {}
<1>1. CASE p[t] = "clean"
  <2>1. {v \in Threads : p[v] = "clean"} = {t}
    BY <1>1
  <2> QED
    BY <1>1, <2>1
<1>2. CASE p[t] # "clean"
  <2>1. {v \in Threads : p[v] = "clean"} = {}
    BY <1>2
  <2> QED
    BY <1>2, <2>1
<1> QED
  BY <1>1, <1>2

\* What may be evicted is what the one thread inside is to clean away.
LEMMA SpareOfThread ==
    ASSUME NEW t \in Threads, Others(t)
    PROVE  Spare = IF pc[t] = "clean" THEN old \ {Wanted(t), NoModel} ELSE {}
<1>1. \A u \in Threads \ {t} : pc[u] # "clean"
  BY DEF Others, Inside
<1> QED
  BY <1>1, OneSpare DEF Spare, Wanted

\* After its step, too.
LEMMA SpareOfThreadAfter ==
    ASSUME NEW t \in Threads, Others(t)'
    PROVE  Spare' = IF pc'[t] = "clean" THEN old' \ {Wanted(t)', NoModel} ELSE {}
<1>1. \A u \in Threads \ {t} : pc'[u] # "clean"
  BY DEF Others, Inside
<1> QED
  BY <1>1, OneSpare DEF Spare, Wanted

\* Both, for a step of a selection.
LEMMA SelectingSpare ==
    ASSUME Inv, NEW t \in Threads, Selecting(t)
    PROVE  /\ Good(t)
           /\ Spare = IF pc[t] = "clean" THEN old \ {Wanted(t), NoModel} ELSE {}
           /\ Spare' = IF pc'[t] = "clean" THEN old' \ {Wanted(t)', NoModel} ELSE {}
<1>1. Others(t) /\ Good(t)
  BY SelectingMoves, ThreadInside
<1>2. PICK to : pc' = [pc EXCEPT ![t] = to]
  BY SelectingMoves
<1>3. Others(t)'
  BY <1>1, <1>2 DEF Good, Types, Others
<1> QED
  BY <1>1, <1>3, SpareOfThread, SpareOfThreadAfter

\* Nothing happens to the store.
Same == UNCHANGED <<active, previous, Disk, Spare>>

\* To the store, what happens outside of a selection is nothing.
LEMMA OthersAreSame ==
    ASSUME Inv, Calls \/ Notify \/ StopWorker \/ JoinWorker \/ Worker
    PROVE  Same
<1>1. PICK t \in Threads : Others(t)
  BY DEF Inv
<1>2. /\ \A u \in Threads :
            \/ pc'[u] = pc[u] /\ request'[u] = request[u]
            \/ pc[u] \notin Inside /\ pc'[u] \notin Inside
      /\ UNCHANGED <<old, active, previous, file, backup>>
  BY OthersChange DEF Inv
<1>3. Others(t)'
  BY <1>1, <1>2 DEF Others
<1>4. Spare' = Spare
  BY <1>1, <1>2, <1>3, SpareOfThread, SpareOfThreadAfter DEF Wanted, Inside
<1>5. Disk' = Disk
  BY <1>2 DEF Disk, OnDisk
<1> QED
  BY <1>2, <1>4, <1>5 DEF Same

\* A step of a download is nothing to it or a Download.
LEMMA DownloadingDownloads ==
    ASSUME Inv, NEW t \in Threads, Downloading(t)
    PROVE  Same \/ \E m \in Models : Store!Download(m)
<1> DEFINE W == Wanted(t)
<1>1. UNCHANGED <<active, previous>>
  BY DEF Downloading, DownloadFails, FindFile, Transfer, CheckTemporary, ClearBackup,
         StageFile, Publish, DropBackup, PublishFails, GiveUpPublishing, UnstageFile,
         downloadRest, recordVars
<1>2. Good(t) /\ Spare = IF pc[t] = "clean" THEN old \ {W, NoModel} ELSE {}
  BY SelectingSpare DEF Selecting
<1>3. Spare' = IF pc'[t] = "clean" THEN old' \ {Wanted(t)', NoModel} ELSE {}
  BY SelectingSpare DEF Selecting
<1>4. /\ pc[t] \in {"find", "transfer", "check", "clear", "stage", "publish", "unstage",
                    "drop"}
      /\ pc'[t] # "clean"
  BY <1>2 DEF Downloading, DownloadFails, FindFile, Transfer, CheckTemporary, ClearBackup,
         StageFile, Publish, DropBackup, PublishFails, GiveUpPublishing, UnstageFile,
         Fails, Return, Goto, Good, Types
<1>5. Spare' = Spare
  BY <1>2, <1>3, <1>4
<1>6. W \in Models
  BY <1>2, <1>4, WantedIsModel DEF Good, At
<1>7. CASE UNCHANGED <<file, backup>>
  BY <1>1, <1>5, <1>7 DEF Same, Disk, OnDisk
<1>8. CASE ClearBackup(t) \/ DropBackup(t)
  <2>1. file' = file /\ backup' \in {backup, [backup EXCEPT ![W] = "missing"]}
    BY <1>8 DEF ClearBackup, DropBackup, Removed
  <2>2. file[W] # "missing" /\ (file[W] = "bad" => backup[W] # "good")
    BY <1>2, <1>6, <1>8 DEF ClearBackup, DropBackup, Goto, Good, At, BackupInv
  <2>3. \A m \in Models : OnDisk(m)' <=> OnDisk(m)
    BY <1>2, <1>6, <2>1, <2>2 DEF Good, Types, OnDisk, File
  <2> QED
    BY <1>1, <1>5, <2>3 DEF Same, Disk
<1>9. CASE StageFile(t)
  <2>1. /\ backup' = [backup EXCEPT ![W] = file[W]]
        /\ file' = [file EXCEPT ![W] = "missing"]
    BY <1>9 DEF StageFile
  <2>2. file[W] # "missing" /\ (file[W] = "bad" => backup[W] # "good")
    BY <1>2, <1>6, <1>9 DEF StageFile, Goto, Good, At, BackupInv
  <2>3. \A m \in Models : OnDisk(m)' <=> OnDisk(m)
    BY <1>2, <1>6, <2>1, <2>2 DEF Good, Types, OnDisk, File
  <2> QED
    BY <1>1, <1>5, <2>3 DEF Same, Disk
<1>10. CASE UnstageFile(t)
  <2>1. /\ file' = [file EXCEPT ![W] = backup[W]]
        /\ backup' = [backup EXCEPT ![W] = "missing"]
    BY <1>10 DEF UnstageFile
  <2>2. file[W] = "missing"
    BY <1>2, <1>10 DEF UnstageFile, Fails, Return, Goto, Good, At
  <2>3. \A m \in Models : OnDisk(m)' <=> OnDisk(m)
    BY <1>2, <1>6, <2>1, <2>2 DEF Good, Types, OnDisk, File
  <2> QED
    BY <1>1, <1>5, <2>3 DEF Same, Disk
<1>11. CASE Publish(t)
  <2>1. backup' = backup /\ file' = [file EXCEPT ![W] = temporary]
    BY <1>11 DEF Publish
  <2>2. temporary = "good"
    BY <1>2, <1>11 DEF Publish, Goto, Good, At
  <2>3. Disk' = Disk \cup {W}
    BY <1>2, <1>6, <2>1, <2>2 DEF Good, Types, Disk, OnDisk
  <2>4. Store!Download(W)
    BY <1>1, <1>5, <2>3 DEF Store!Download, Disk
  <2> QED
    BY <1>6, <2>4
<1> QED
  BY <1>7, <1>8, <1>9, <1>10, <1>11
     DEF Downloading, DownloadFails, FindFile, Transfer, CheckTemporary,
         PublishFails, GiveUpPublishing, fileVars

\* Selecting the active model again forgets the other one, or does nothing.
LEMMA AlreadyActiveForgets ==
    ASSUME Inv, NEW t \in Threads, AlreadyActive(t)
    PROVE  Same \/ Store!Forget
<1>1. /\ Good(t)
      /\ Spare = IF pc[t] = "clean" THEN old \ {Wanted(t), NoModel} ELSE {}
      /\ Spare' = IF pc'[t] = "clean" THEN old' \ {Wanted(t)', NoModel} ELSE {}
  BY SelectingSpare DEF Selecting
<1>2. pc[t] = "lock" /\ active' = active /\ Disk' = Disk
  BY <1>1 DEF Good, Types, AlreadyActive, Return, Goto, Disk, OnDisk, fileVars
<1>3. CASE KeepsOnly(t)
  <2>1. /\ pc'[t] = "clean" /\ old' = {active, previous} /\ previous' = NoModel
        /\ Wanted(t)' = active
    BY <1>1, <1>3 DEF AlreadyActive, Goto, Good, Types, Wanted
  <2>2. previous # NoModel => previous # active
    BY <1>1 DEF Good, RecordsAreUsable
  <2>3. Spare' = {previous} \ {NoModel}
    BY <1>1, <2>1, <2>2
  <2> QED
    BY <1>2, <2>1, <2>3 DEF Store!Forget, Disk
<1>4. CASE ~KeepsOnly(t)
  <2>1. pc'[t] # "clean" /\ previous' = previous
    BY <1>1, <1>4 DEF AlreadyActive, Return, Goto, Good, Types
  <2> QED
    BY <1>1, <1>2, <2>1 DEF Same
<1> QED
  BY <1>3, <1>4

\* A commit is an Activate or a Rollback.
LEMMA CommitActivates ==
    ASSUME Inv, NEW t \in Threads, Commit(t)
    PROVE  Store!Rollback \/ \E m \in Models : Store!Activate(m)
<1>1. /\ Good(t)
      /\ Spare = IF pc[t] = "clean" THEN old \ {Wanted(t), NoModel} ELSE {}
      /\ Spare' = IF pc'[t] = "clean" THEN old' \ {Wanted(t)', NoModel} ELSE {}
  BY SelectingSpare DEF Selecting
<1>2. /\ pc[t] = "commit" /\ Disk' = Disk /\ active' = Target(t)
      /\ previous' = IF KeepsOnly(t) THEN NoModel ELSE active
  BY <1>1 DEF Good, Types, Commit, Return, Goto, Disk, OnDisk, fileVars
<1>3. Target(t) # NoModel /\ file[Target(t)] = "good"
  BY <1>1, <1>2 DEF Good, At
<1>4. Target(t) \in Models /\ Target(t) \in Disk
  BY <1>1, <1>3, TargetIsModel DEF Good, Disk, OnDisk
<1>5. Spare = {}
  BY <1>1, <1>2
<1>6. CASE RollsBack(t)
  <2>1. Target(t) = previous /\ ~KeepsOnly(t)
    BY <1>6 DEF RollsBack, Target, KeepsOnly, Rollback
  <2>2. pc'[t] # "clean"
    BY <1>1, <2>1 DEF Commit, Return, Goto, Good, Types
  <2> QED
    BY <1>1, <1>2, <1>4, <1>5, <2>1, <2>2 DEF Store!Rollback, Disk
<1>7. CASE ~RollsBack(t) /\ ~KeepsOnly(t)
  <2>1. pc'[t] # "clean"
    BY <1>1, <1>7 DEF Commit, Return, Goto, Good, Types
  <2>2. Spare' = {} /\ previous' = active
    BY <1>1, <1>2, <1>7, <2>1
  <2> QED
    BY <1>2, <1>4, <2>2 DEF Store!Activate, Disk
<1>8. CASE ~RollsBack(t) /\ KeepsOnly(t)
  <2>1. pc'[t] = "clean" /\ old' = old /\ Wanted(t)' = Wanted(t)
    BY <1>1, <1>8 DEF Commit, Goto, Good, Types, locals, Wanted
  <2>2. old = {active, previous} /\ Wanted(t) = Target(t)
    BY <1>1, <1>2, <1>8 DEF Good, At, Inside, Target, Wanted
  <2>3. Spare' = {active, previous} \ {Target(t), NoModel}
    BY <1>1, <2>1, <2>2
  <2> QED
    BY <1>2, <1>4, <1>8, <2>3 DEF Store!Activate, Disk
<1> QED
  BY <1>6, <1>7, <1>8

\* Cleaning up is an Evict.
LEMMA CleanEvicts ==
    ASSUME Inv, NEW t \in Threads, Clean(t)
    PROVE  Store!Evict
<1>1. /\ Good(t)
      /\ Spare = IF pc[t] = "clean" THEN old \ {Wanted(t), NoModel} ELSE {}
      /\ Spare' = IF pc'[t] = "clean" THEN old' \ {Wanted(t)', NoModel} ELSE {}
  BY SelectingSpare DEF Selecting
<1>2. pc[t] = "clean" /\ pc'[t] # "clean" /\ UNCHANGED <<active, previous, backup>>
  BY <1>1 DEF Clean, Return, Goto, Good, Types, recordVars
<1>3. PICK gone \in SUBSET (old \ {Wanted(t), NoModel}) :
          file' = [m \in Models |-> IF m \in gone THEN "missing" ELSE file[m]]
  BY DEF Clean
<1> DEFINE away == {m \in Spare : ~OnDisk(m)'}
<1>5. Disk' = Disk \ away
  BY <1>1, <1>2, <1>3 DEF Disk, OnDisk
<1>6. away \in SUBSET Spare /\ Spare' = {}
  BY <1>1, <1>2
<1> QED
  BY <1>2, <1>5, <1>6 DEF Store!Evict, Disk

\* Every step of a selection is one of the store's or none.
LEMMA SelectingIsStoreStep ==
    ASSUME Inv, NEW t \in Threads, Selecting(t)
    PROVE  Same \/ Store!Next
<1>1. /\ Good(t)
      /\ Spare = IF pc[t] = "clean" THEN old \ {Wanted(t), NoModel} ELSE {}
      /\ Spare' = IF pc'[t] = "clean" THEN old' \ {Wanted(t)', NoModel} ELSE {}
  BY SelectingSpare
<1>2. CASE \/ Refuse(t) \/ Enter(t) \/ EnterRollback(t)
           \/ Downloaded(t) \/ Verify(t) \/ VerifyFails(t)
           \/ Activate(t) \/ ActivateFails(t) \/ RestoreRuntime(t)
  <2>1. UNCHANGED <<active, previous, file, backup>>
    BY <1>2 DEF Refuse, Enter, EnterRollback, Downloaded, Verify, VerifyFails, Activate,
                ActivateFails, RestoreRuntime, downloadRest, recordVars, fileVars
  <2>2. pc[t] # "clean" /\ pc'[t] # "clean"
    BY <1>1, <1>2 DEF Refuse, Enter, EnterRollback, Downloaded, Verify, VerifyFails,
                Activate, ActivateFails, RestoreRuntime, Fails, Return, Goto, Good, Types
  <2> QED
    BY <1>1, <2>1, <2>2 DEF Same, Disk, OnDisk
<1>3. CASE AlreadyActive(t)
  BY <1>3, AlreadyActiveForgets DEF Store!Next
<1>4. CASE Downloading(t)
  BY <1>4, DownloadingDownloads DEF Store!Next
<1>5. CASE Commit(t)
  BY <1>5, CommitActivates DEF Store!Next
<1>6. CASE Clean(t)
  BY <1>6, CleanEvicts DEF Store!Next
<1> QED
  BY <1>2, <1>3, <1>4, <1>5, <1>6 DEF Selecting

\* A new process is a Restart.
LEMMA RestartIsStoreStep ==
    ASSUME Restart
    PROVE  Store!Restart
<1>1. \A u \in Threads : pc'[u] # "clean"
  BY DEF Restart, NewPc, Threads
<1>2. Spare' = {}
  BY <1>1 DEF Spare
<1> QED
  BY <1>2 DEF Restart, Store!Restart, OnDisk

\* Every step of the two threads, of the files and of a new process is a step of the
\* store or none.  (model_manager.cpp and model_downloader.cpp against ModelStore.)
THEOREM ManagerIsStore == Spec => StoreSpec
<1>1. Init => Store!Init
  <2> SUFFICES ASSUME Init PROVE Store!Init
    OBVIOUS
  <2>1. \A u \in Threads : pc[u] # "clean"
    BY DEF Init, NewPc, Threads
  <2>2. Spare = {}
    BY <2>1 DEF Spare
  <2> QED
    BY <2>2 DEF Init, Store!Init
<1>2. Inv /\ [Next]_vars => [Store!Next]_Store!store
  <2> SUFFICES ASSUME Inv, [Next]_vars PROVE Same \/ Store!Next
    BY DEF Same, Store!store, Disk
  <2>1. CASE Calls \/ Notify \/ StopWorker \/ JoinWorker \/ Worker
    BY <2>1, OthersAreSame
  <2>2. CASE \E t \in Threads : Selecting(t)
    BY <2>2, SelectingIsStoreStep
  <2>3. CASE Restart
    BY <2>3, RestartIsStoreStep DEF Store!Next
  <2>4. CASE UNCHANGED vars
    BY <2>4 DEF vars, locals, recordVars, fileVars, Same, Disk, OnDisk, Spare, Wanted
  <2> QED
    BY <2>1, <2>2, <2>3, <2>4 DEF Next
<1> QED
  BY <1>1, <1>2, InvHolds, PTL DEF Spec, StoreSpec, Store!Spec
====
