---- MODULE ModelManager ----
(***************************************************************************)
(* ModelManager (src/model/model_manager.cpp) over ModelDownloader         *)
(* (src/model/model_downloader.cpp): a caller's thread that selects, rolls *)
(* back and destroys, a worker's that carries out what select_async()      *)
(* queued, and the files of the cache, which outlive the process.          *)
(*                                                                         *)
(* selection_mutex_ is held for all of a selection or rollback: it is free *)
(* when no thread is Inside.  Every section under state_mutex_ or          *)
(* async_mutex_ is one action, and so is every file operation.             *)
(*                                                                         *)
(* A file is missing, what the catalog's checksum says (good), or anything *)
(* else (bad).  Reading a good one may fail.  The temporary file has a     *)
(* name nobody else uses, so that one left by a crash is never read.       *)
(***************************************************************************)
EXTENDS Naturals, Sequences, FiniteSets

CONSTANTS
    Models, NoModel,
    Local,              \* models whose source is a local file
    Found,              \* what the cache may hold before the first manager
    MaxCalls,           \* bound on calls of select() and rollback()
    MaxAsked,           \* bound on calls of select_async()
    MaxRestarts         \* bound on processes after the first

ASSUME NoModelAssumption == NoModel \notin Models
ASSUME LocalAssumption == Local \subseteq Models
ASSUME BoundsAssumption == MaxCalls \in Nat /\ MaxAsked \in Nat /\ MaxRestarts \in Nat

File == {"missing", "good", "bad"}
ASSUME FoundAssumption == Found \subseteq [Models -> File]

VARIABLES
    pc, request,                        \* by thread; what it selects
    queue, notices, stopping, cancel,   \* async_requests_, owed notify_one(),
                                        \* async_stopping_, *async_cancel_
    asked, answered,                    \* futures given out, fulfilled
    state, active, previous, pending,   \* under state_mutex_
    old, replaces,                      \* locals: old_active, old_previous;
                                        \* had_destination
    file, backup, temporary,            \* by model; of the selection under way
    loaded,                             \* the runtime's model
    broken,                             \* history: restore_runtime() failed
    calls, restarts

asyncVars == <<queue, notices, stopping, cancel, asked, answered>>
recordVars == <<active, previous>>
stateVars == <<state, pending>>
locals == <<request, old, replaces>>
fileVars == <<file, backup, temporary>>
runtimeVars == <<loaded, broken>>
bounds == <<calls, restarts>>
vars == <<pc, locals, asyncVars, recordVars, stateVars, fileVars, runtimeVars, bounds>>

Threads == {"caller", "worker"}
Policies == {"retain", "only"}      \* retain_previous, selected_only
Request == [model : Models, policy : Policies]
Rollback == [model |-> NoModel, policy |-> "rollback"]

Inside == {"find", "transfer", "check", "clear", "stage", "publish", "unstage", "drop",
           "downloaded", "verify", "activate", "restore", "commit", "clean"}
Pc == Inside \cup {"idle", "lock", "dying", "joining", "gone",
                   "none", "look", "wait", "answer", "done"}
State == {"unselected", "downloading", "verifying", "active", "error"}

Free == \A t \in Threads : pc[t] \notin Inside
OnDisk(m) == file[m] = "good" \/ backup[m] = "good"

RollsBack(t) == request[t] = Rollback
KeepsOnly(t) == request[t].policy = "only"
Target(t) == IF RollsBack(t) THEN previous ELSE request[t].model
\* Only the worker's selections look at the token.
Cancelled(t) == t = "worker" /\ cancel

NewPc == [t \in Threads |-> IF t = "caller" THEN "idle" ELSE "none"]

Init ==
    /\ pc = NewPc
    /\ request = [t \in Threads |-> Rollback] /\ old = {} /\ replaces = FALSE
    /\ queue = <<>> /\ notices = 0 /\ stopping = FALSE /\ cancel = FALSE
    /\ asked = 0 /\ answered = 0
    /\ state = "unselected" /\ pending = NoModel
    /\ active = NoModel /\ previous = NoModel
    /\ file \in Found
    /\ backup = [m \in Models |-> "missing"]
    /\ temporary = "missing"
    /\ loaded = NoModel /\ broken = FALSE
    /\ calls = 0 /\ restarts = 0

Goto(t, from, to) == pc[t] = from /\ pc' = [pc EXCEPT ![t] = to]
\* The lock is released and the locals go; the worker has a promise to fulfil.
Return(t, from) ==
    /\ Goto(t, from, IF t = "worker" THEN "answer" ELSE "idle")
    /\ request' = [request EXCEPT ![t] = Rollback]
    /\ old' = {} /\ replaces' = FALSE

\* set_error().
SetError == state' = "error" /\ pending' = NoModel
Fails(t, from) == Return(t, from) /\ SetError

-----------------------------------------------------------------------------
(* The calls. *)

Call(r) ==
    /\ calls < MaxCalls
    /\ calls' = calls + 1
    /\ Goto("caller", "idle", "lock")
    /\ request' = [request EXCEPT !["caller"] = r]
    /\ UNCHANGED <<old, replaces, asyncVars, recordVars, stateVars, fileVars, runtimeVars, restarts>>

Select == \E r \in Request : Call(r)
CallRollback == Call(Rollback)

MayAsk == pc["caller"] # "gone" /\ asked < MaxAsked

\* select_async() after the destructor has begun: the future holds false.
AskRefused ==
    /\ MayAsk /\ stopping
    /\ asked' = asked + 1 /\ answered' = answered + 1
    /\ UNCHANGED <<pc, locals, queue, notices, stopping, cancel, recordVars, stateVars,
                   fileVars, runtimeVars, bounds>>

\* The thread cannot be made; set_error() takes state_mutex_ alone, whatever the
\* caller's thread is doing.
AskWithoutThread ==
    /\ MayAsk /\ ~stopping /\ pc["worker"] = "none"
    /\ asked' = asked + 1 /\ answered' = answered + 1
    /\ SetError
    /\ UNCHANGED <<pc, locals, queue, notices, stopping, cancel, recordVars,
                   fileVars, runtimeVars, bounds>>

Ask ==
    /\ MayAsk /\ ~stopping
    /\ \E r \in Request : queue' = Append(queue, r)
    /\ notices' = notices + 1
    /\ asked' = asked + 1
    /\ pc' = [pc EXCEPT !["worker"] = IF @ = "none" THEN "look" ELSE @]
    /\ UNCHANGED <<locals, stopping, cancel, answered, recordVars, stateVars, fileVars,
                   runtimeVars, bounds>>

Woken == [pc EXCEPT !["worker"] = IF @ = "wait" THEN "look" ELSE @]

\* Mutants: front() without pop(); the destructor notifies nobody.
WorkerTakesAgain ==
    /\ queue # <<>>
    /\ Goto("worker", "look", "lock")
    /\ request' = [request EXCEPT !["worker"] = Head(queue)]
    /\ UNCHANGED <<old, replaces, asyncVars, recordVars, stateVars,
                   fileVars, runtimeVars, bounds>>

StopWorkerSilently ==
    /\ Goto("caller", "dying", "joining")
    /\ stopping' = TRUE
    /\ UNCHANGED <<locals, queue, notices, cancel, asked, answered, recordVars,
                   stateVars, fileVars, runtimeVars, bounds>>

\* notify_one(), after the mutex is released.
Notify ==
    /\ notices > 0
    /\ notices' = notices - 1
    /\ pc' = Woken
    /\ UNCHANGED <<locals, queue, stopping, cancel, asked, answered, recordVars,
                   stateVars, fileVars, runtimeVars, bounds>>

\* The destructor: the token, the flag and its notification, the join.
Destroy ==
    /\ Goto("caller", "idle", "dying")
    /\ cancel' = TRUE
    /\ UNCHANGED <<locals, queue, notices, stopping, asked, answered, recordVars,
                   stateVars, fileVars, runtimeVars, bounds>>

StopWorker ==
    /\ pc["caller"] = "dying"
    /\ pc' = [Woken EXCEPT !["caller"] = "joining"]
    /\ stopping' = TRUE
    /\ UNCHANGED <<locals, queue, notices, cancel, asked, answered, recordVars,
                   stateVars, fileVars, runtimeVars, bounds>>

JoinWorker ==
    /\ pc["worker"] \in {"none", "done"}
    /\ Goto("caller", "joining", "gone")
    /\ UNCHANGED <<locals, asyncVars, recordVars, stateVars, fileVars, runtimeVars, bounds>>

\* The process ends, anywhere, and another begins; the files stay.
Restart ==
    /\ restarts < MaxRestarts
    /\ restarts' = restarts + 1
    /\ pc' = NewPc
    /\ request' = [t \in Threads |-> Rollback] /\ old' = {} /\ replaces' = FALSE
    /\ queue' = <<>> /\ notices' = 0 /\ stopping' = FALSE /\ cancel' = FALSE
    /\ asked' = 0 /\ answered' = 0
    /\ state' = "unselected" /\ pending' = NoModel
    /\ active' = NoModel /\ previous' = NoModel
    /\ temporary' = "missing"
    /\ loaded' = NoModel /\ broken' = FALSE
    /\ UNCHANGED <<file, backup, calls>>

-----------------------------------------------------------------------------
(* worker_loop(). *)

\* The queue is emptied before the worker stops.
WorkerTakes ==
    /\ queue # <<>>
    /\ Goto("worker", "look", "lock")
    /\ request' = [request EXCEPT !["worker"] = Head(queue)]
    /\ queue' = Tail(queue)
    /\ UNCHANGED <<old, replaces, notices, stopping, cancel, asked, answered, recordVars, stateVars,
                   fileVars, runtimeVars, bounds>>

WorkerWaits ==
    /\ queue = <<>>
    /\ Goto("worker", "look", IF stopping THEN "done" ELSE "wait")
    /\ UNCHANGED <<locals, asyncVars, recordVars, stateVars, fileVars, runtimeVars, bounds>>

WorkerAnswers ==
    /\ Goto("worker", "answer", "look")
    /\ answered' = answered + 1
    /\ UNCHANGED <<locals, queue, notices, stopping, cancel, asked, recordVars,
                   stateVars, fileVars, runtimeVars, bounds>>

-----------------------------------------------------------------------------
(* select_impl() and rollback() up to the download. *)

\* Cancelled before it began, not in the catalog, or no cache directory; nothing to
\* roll back to, or no longer in the catalog.
Refuse(t) ==
    /\ Free
    /\ Fails(t, "lock")
    /\ UNCHANGED <<asyncVars, recordVars, fileVars, runtimeVars, bounds>>

Enter(t) ==
    /\ Free /\ ~Cancelled(t) /\ ~RollsBack(t)
    /\ request[t].model # active
    /\ Goto(t, "lock", "find")
    /\ old' = {active, previous}
    /\ state' = "downloading" /\ pending' = request[t].model
    /\ UNCHANGED <<request, replaces, asyncVars, recordVars, fileVars, runtimeVars, bounds>>

\* Neither the file nor the runtime is looked at.
AlreadyActive(t) ==
    /\ Free /\ ~Cancelled(t) /\ ~RollsBack(t)
    /\ request[t].model = active
    /\ state' = "active" /\ pending' = NoModel
    /\ IF KeepsOnly(t)
       THEN /\ Goto(t, "lock", "clean")
            /\ old' = {active, previous}
            /\ previous' = NoModel
            /\ UNCHANGED <<request, replaces>>
       ELSE Return(t, "lock") /\ UNCHANGED previous
    /\ UNCHANGED <<asyncVars, active, fileVars, runtimeVars, bounds>>

EnterRollback(t) ==
    /\ Free /\ RollsBack(t) /\ previous # NoModel
    /\ Goto(t, "lock", "verify")
    /\ UNCHANGED <<locals, asyncVars, recordVars, stateVars, fileVars, runtimeVars, bounds>>

-----------------------------------------------------------------------------
(* ModelDownloader::download(), for request[t].model. *)

downloadRest == <<asyncVars, recordVars, runtimeVars, bounds>>
Wanted(t) == request[t].model
\* std::filesystem::remove() whose error nobody looks at.
Removed(files, m) == {files, [files EXCEPT ![m] = "missing"]}

\* Cancellation, a missing source, a file or directory that cannot be made, read,
\* renamed or looked at, a checksum that does not match: the temporary file goes.
DownloadFails(t) ==
    /\ \E at \in {"find", "transfer", "check", "clear", "stage"} : Fails(t, at)
    /\ temporary' = "missing"
    /\ UNCHANGED <<file, backup, downloadRest>>

FindFile(t) ==
    /\ \E verified \in BOOLEAN :
        /\ Goto(t, "find", IF verified THEN "downloaded" ELSE "transfer")
        /\ verified => file[Wanted(t)] = "good"
    /\ UNCHANGED <<locals, stateVars, fileVars, downloadRest>>

\* The options that select_impl() passes hold no transport: only a local file can be
\* transferred, whatever the downloader was made with.
Transfer(t) ==
    /\ Wanted(t) \in Local
    /\ Goto(t, "transfer", "check")
    /\ temporary' \in {"good", "bad"}
    /\ UNCHANGED <<locals, file, backup, stateVars, downloadRest>>

CheckTemporary(t) ==
    /\ pc[t] = "check" /\ temporary = "good"
    /\ replaces' = (file[Wanted(t)] # "missing")
    /\ Goto(t, "check", IF replaces' THEN "clear" ELSE "publish")
    /\ UNCHANGED <<request, old, stateVars, fileVars, downloadRest>>

ClearBackup(t) ==
    /\ Goto(t, "clear", "stage")
    /\ backup' \in Removed(backup, Wanted(t))
    /\ UNCHANGED <<locals, file, temporary, stateVars, downloadRest>>

\* Mutant of StageFile: the file in place is deleted first.
StageFileDeletes(t) ==
    /\ Goto(t, "stage", "publish")
    /\ file' = [file EXCEPT ![Wanted(t)] = "missing"]
    /\ UNCHANGED <<locals, backup, temporary, stateVars, downloadRest>>

StageFile(t) ==
    /\ Goto(t, "stage", "publish")
    /\ backup' = [backup EXCEPT ![Wanted(t)] = file[Wanted(t)]]
    /\ file' = [file EXCEPT ![Wanted(t)] = "missing"]
    /\ UNCHANGED <<locals, temporary, stateVars, downloadRest>>

Publish(t) ==
    /\ Goto(t, "publish", IF replaces THEN "drop" ELSE "downloaded")
    /\ file' = [file EXCEPT ![Wanted(t)] = temporary]
    /\ temporary' = "missing"
    /\ UNCHANGED <<locals, backup, stateVars, downloadRest>>

DropBackup(t) ==
    /\ Goto(t, "drop", "downloaded")
    /\ backup' \in Removed(backup, Wanted(t))
    /\ UNCHANGED <<locals, file, temporary, stateVars, downloadRest>>

PublishFails(t) ==
    /\ replaces
    /\ Goto(t, "publish", "unstage")
    /\ UNCHANGED <<locals, stateVars, fileVars, downloadRest>>

\* Without a file to put back, or when that one cannot be renamed either, there is
\* none under the model's name.
GiveUpPublishing(t) ==
    /\ \/ ~replaces /\ Fails(t, "publish")
       \/ Fails(t, "unstage")
    /\ temporary' = "missing"
    /\ UNCHANGED <<file, backup, downloadRest>>

UnstageFile(t) ==
    /\ Fails(t, "unstage")
    /\ file' = [file EXCEPT ![Wanted(t)] = backup[Wanted(t)]]
    /\ backup' = [backup EXCEPT ![Wanted(t)] = "missing"]
    /\ temporary' = "missing"
    /\ UNCHANGED downloadRest

-----------------------------------------------------------------------------
(* The rest of select_impl() and rollback(). *)

\* The worker looks at the token once more.
Downloaded(t) ==
    /\ IF Cancelled(t) THEN Fails(t, "downloaded")
       ELSE /\ Goto(t, "downloaded", "verify")
            /\ state' = "verifying"
            /\ UNCHANGED <<locals, pending>>
    /\ UNCHANGED <<fileVars, downloadRest>>

Verify(t) ==
    /\ Goto(t, "verify", "activate")
    /\ file[Target(t)] = "good"
    /\ UNCHANGED <<locals, stateVars, fileVars, downloadRest>>

VerifyFails(t) ==
    /\ Fails(t, "verify")
    /\ UNCHANGED <<fileVars, downloadRest>>

Activate(t) ==
    /\ Goto(t, "activate", "commit")
    /\ loaded' = Target(t)
    /\ broken' = FALSE
    /\ UNCHANGED <<locals, asyncVars, recordVars, stateVars, fileVars, bounds>>

\* A runtime whose initialize() fails has no model.
ActivateFails(t) ==
    /\ Goto(t, "activate", "restore")
    /\ loaded' = NoModel
    /\ UNCHANGED <<locals, asyncVars, recordVars, stateVars, fileVars, broken, bounds>>

\* Mutant of RestoreRuntime: the failed activation is only reported.
RestoreRuntimeNever(t) ==
    /\ Fails(t, "restore")
    /\ UNCHANGED <<asyncVars, recordVars, fileVars, runtimeVars, bounds>>

RestoreRuntime(t) ==
    /\ Fails(t, "restore")
    /\ loaded' \in {active, NoModel}
    /\ broken' = (loaded' # active)
    /\ UNCHANGED <<asyncVars, recordVars, fileVars, bounds>>

Commit(t) ==
    /\ state' = "active" /\ pending' = NoModel
    /\ active' = Target(t)
    /\ previous' = IF KeepsOnly(t) THEN NoModel ELSE active
    /\ IF KeepsOnly(t) THEN Goto(t, "commit", "clean") /\ UNCHANGED locals
       ELSE Return(t, "commit")
    /\ UNCHANGED <<asyncVars, fileVars, runtimeVars, bounds>>

\* Mutant of Clean: the model that was just selected is not spared.
CleanAll(t) ==
    /\ Return(t, "clean")
    /\ file' = [m \in Models |-> IF m \in old THEN "missing" ELSE file[m]]
    /\ UNCHANGED <<asyncVars, recordVars, stateVars, backup, temporary, runtimeVars, bounds>>

\* cleanup_selected_only(): any of the files may refuse to go.
Clean(t) ==
    /\ Return(t, "clean")
    /\ \E gone \in SUBSET (old \ {Wanted(t), NoModel}) :
        file' = [m \in Models |-> IF m \in gone THEN "missing" ELSE file[m]]
    /\ UNCHANGED <<asyncVars, recordVars, stateVars, backup, temporary, runtimeVars, bounds>>

-----------------------------------------------------------------------------
Downloading(t) ==
    \/ DownloadFails(t) \/ FindFile(t) \/ Transfer(t) \/ CheckTemporary(t)
    \/ ClearBackup(t) \/ StageFile(t) \/ Publish(t) \/ DropBackup(t)
    \/ PublishFails(t) \/ GiveUpPublishing(t) \/ UnstageFile(t)

Selecting(t) ==
    \/ Refuse(t) \/ Enter(t) \/ AlreadyActive(t) \/ EnterRollback(t)
    \/ Downloading(t)
    \/ Downloaded(t) \/ Verify(t) \/ VerifyFails(t)
    \/ Activate(t) \/ ActivateFails(t) \/ RestoreRuntime(t) \/ Commit(t) \/ Clean(t)

Worker == WorkerTakes \/ WorkerWaits \/ WorkerAnswers
Calls == Select \/ CallRollback \/ AskRefused \/ AskWithoutThread \/ Ask \/ Destroy

Next ==
    \/ Calls \/ Notify \/ StopWorker \/ JoinWorker \/ Worker
    \/ \E t \in Threads : Selecting(t)
    \/ Restart

\* Threads that can go on do; downloads, initialize() and mutexes end.  Nobody owes a
\* call or a crash.
Fairness ==
    /\ WF_vars(Notify) /\ WF_vars(StopWorker) /\ WF_vars(JoinWorker)
    /\ WF_vars(Worker)
    /\ \A t \in Threads : WF_vars(Selecting(t))

Spec == Init /\ [][Next]_vars /\ Fairness

-----------------------------------------------------------------------------
Types ==
    /\ pc \in [Threads -> Pc]
    /\ request \in [Threads -> Request \cup {Rollback}]
    /\ old \subseteq Models \cup {NoModel} /\ replaces \in BOOLEAN
    /\ queue \in Seq(Request)
    /\ notices \in Nat /\ stopping \in BOOLEAN /\ cancel \in BOOLEAN
    /\ asked \in Nat /\ answered \in Nat
    /\ state \in State
    /\ {active, previous, pending, loaded} \subseteq Models \cup {NoModel}
    /\ file \in [Models -> File] /\ backup \in [Models -> File] /\ temporary \in File
    /\ broken \in BOOLEAN /\ calls \in Nat /\ restarts \in Nat

CarriedOut == IF pc["worker"] \in Inside \cup {"lock", "answer"} THEN 1 ELSE 0

\* Types of the members; one thread at a time selects or rolls back, and every future
\* given out is queued, carried out or fulfilled, never two of them.
TypeOK ==
    /\ Types
    /\ pc["caller"] \in Inside => pc["worker"] \notin Inside
    /\ asked = answered + Len(queue) + CarriedOut

\* Whatever failed and wherever the former process died, the active model's verified
\* file is in the cache under its name, and the one to roll back to is at least under
\* its name with .backup.  (select_impl(), download(), cleanup_selected_only().)
RecordsAreUsable ==
    /\ active # NoModel => file[active] = "good"
    /\ previous # NoModel => OnDisk(previous) /\ previous # active

\* Between two selections none is shown as pending, and the runtime has the active
\* model, or none if giving it back after a failed activation failed too.  (select_impl(),
\* rollback(), restore_runtime(), whose many exits each have to see to it.)
NothingHalfDone ==
    Free =>
        /\ pending = NoModel /\ state \notin {"downloading", "verifying"}
        /\ loaded = IF broken THEN NoModel ELSE active

\* Every future of select_async() is fulfilled, those queued when the manager is
\* destroyed too, and the destructor returns.  (worker_loop(), ~ModelManager().)
NobodyWaitsForEver ==
    /\ asked # answered ~> asked = answered
    /\ pc["caller"] \in {"dying", "joining"} ~> pc["caller"] \notin {"dying", "joining"}

-----------------------------------------------------------------------------
\* The manager is a store: its two records change as ModelStore says, and a verified
\* model stays, under its name or its backup's, until one is selected to be the only
\* one.  (docs/model-cache.md; download(), cleanup_selected_only().)
Spare == UNION {old \ {Wanted(t), NoModel} : t \in {u \in Threads : pc[u] = "clean"}}
Store == INSTANCE ModelStore WITH disk <- {m \in Models : OnDisk(m)}, spare <- Spare
StoreSpec == Store!Spec
====
