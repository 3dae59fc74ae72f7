---- MODULE ProcessRunner ----
(***************************************************************************)
(* The child process that transcribes: OpenAIWhisperRuntime                *)
(* (src/runtime/whisper_runtime.cpp) over PersistentWhisperProcessRunner   *)
(* (src/runtime/persistent_process_runner.cpp, POSIX branch), talking to   *)
(* the request loop of runtime/openai_whisper_bridge.py.                   *)
(*                                                                         *)
(* A runner here is one filter instance's runtime with its runner: one     *)
(* thread at a time, since request_mutex_ is held for all of run() and     *)
(* stop(), and BridgeThreads shows that initialize() and transcribe() do   *)
(* not overlap.  Several runners live in one OBS process and share its     *)
(* table of file descriptors: pipe() makes them inheritable, and           *)
(* start_locked() closes in the child only the six it made itself.         *)
(*                                                                         *)
(* A request is its serial number and the model to load, NoModel for a     *)
(* transcription.  An answer is a line that arrives in two pieces, since   *)
(* read_line_locked() takes what the pipe has.  What is written to stderr, *)
(* and a request larger than the pipe, are left out.                       *)
(***************************************************************************)
EXTENDS Integers, Sequences

CONSTANTS
    Runners, Models, NoModel,
    MaxCalls            \* by runner: calls of initialize() and transcribe()

ASSUME NoModelAssumption == NoModel \notin Models
ASSUME MaxCallsAssumption == MaxCalls \in [Runners -> Nat]

VARIABLES
    pc, request,            \* where the caller is, the request it makes
    initialized, wanted,    \* initialized_; history: the last model asked for
    started, open, drains,  \* started_, descriptors open in OBS, stderr_thread_
    buffer,                 \* stdout_buffer_
    child, task, loaded,    \* the child, what it answers, its model
    held,                   \* runners whose stderr the child can write to
    stdin, stdout           \* what the two pipes hold

runtimeVars == <<request, initialized, wanted>>
childVars == <<child, task, loaded, held>>
pipeVars == <<stdin, stdout>>
vars == <<pc, runtimeVars, started, open, drains, buffer, childVars, pipeVars>>

Ends == {"inR", "inW", "outR", "outW", "errR", "errW"}
Stopping == {"wait", "join"}
Pc == {"idle", "pipes", "spawn", "ends", "send", "read"} \cup Stopping
Child == {"none", "idle", "answering", "dead"}

Request == [of : Nat, model : Models \cup {NoModel}]
Answer == [of : Nat, ready : BOOLEAN, model : Models \cup {NoModel}]
NoAnswer == [of |-> 0, ready |-> FALSE, model |-> NoModel]
Piece == [of : Nat, ready : BOOLEAN, model : Models \cup {NoModel},
          last : BOOLEAN]
PieceOf(a, last) == [of |-> a.of, ready |-> a.ready, model |-> a.model, last |-> last]

Alive(r) == child[r] \in {"idle", "answering"}
\* Another runner's living child can write to r's stderr pipe.  What else it may
\* have inherited only delays what a deadline ends.
Inherited(r) == \E q \in Runners : Alive(q) /\ r \in held[q]

\* The next piece ends a line, and that line.
LineEnds(r) == stdout[r] # <<>> /\ Head(stdout[r]).last
Line(r) == Append(buffer[r], Head(stdout[r]))
\* parse_bridge_response() and bridge_ready(): half a line, or one glued to
\* another, is no JSON.
Whole(line) == Len(line) = 2 /\ line[1].of = line[2].of
Ready(line) == Whole(line) /\ line[1].ready

Init ==
    /\ pc = [r \in Runners |-> "idle"]
    /\ request = [r \in Runners |-> [of |-> 0, model |-> NoModel]]
    /\ initialized = [r \in Runners |-> FALSE]
    /\ wanted = [r \in Runners |-> NoModel]
    /\ started = [r \in Runners |-> FALSE]
    /\ open = [r \in Runners |-> {}]
    /\ drains = [r \in Runners |-> FALSE]
    /\ buffer = [r \in Runners |-> <<>>]
    /\ child = [r \in Runners |-> "none"]
    /\ task = [r \in Runners |-> NoAnswer]
    /\ loaded = [r \in Runners |-> NoModel]
    /\ held = [r \in Runners |-> {}]
    /\ stdin = [r \in Runners |-> <<>>]
    /\ stdout = [r \in Runners |-> <<>>]

Goto(r, from, to) == pc[r] = from /\ pc' = [pc EXCEPT ![r] = to]

-----------------------------------------------------------------------------
(* The runtime's calls. *)

\* run(): the child is started by the first request after a stop.
Ask(r, m) ==
    /\ request[r].of < MaxCalls[r]
    /\ request' = [request EXCEPT ![r] = [of |-> @.of + 1, model |-> m]]
    /\ Goto(r, "idle", IF started[r] THEN "send" ELSE "pipes")

\* Mutant of CallInitialize: a runtime that was ready stays so while another model
\* is asked for.
CallInitializeKeepsReady(r) ==
    \E m \in Models :
        /\ Ask(r, m)
        /\ wanted' = [wanted EXCEPT ![r] = m]
        /\ UNCHANGED <<initialized, started, open, drains, buffer, childVars, pipeVars>>

CallInitialize(r) ==
    \E m \in Models :
        /\ Ask(r, m)
        /\ wanted' = [wanted EXCEPT ![r] = m]
        /\ initialized' = [initialized EXCEPT ![r] = FALSE]
        /\ UNCHANGED <<started, open, drains, buffer, childVars, pipeVars>>

\* initialize() without a path, a language, a runner or a command.
RefuseInitialize(r) ==
    /\ pc[r] = "idle"
    /\ initialized' = [initialized EXCEPT ![r] = FALSE]
    /\ UNCHANGED <<pc, request, wanted, started, open, drains, buffer, childVars, pipeVars>>

\* A call that is refused changes nothing.
CallTranscribe(r) ==
    /\ initialized[r]
    /\ Ask(r, NoModel)
    /\ UNCHANGED <<initialized, wanted, started, open, drains, buffer, childVars, pipeVars>>

\* stop_locked() up to its wait: stdin is closed.
BeginStop(r, from) ==
    /\ Goto(r, from, "wait")
    /\ open' = [open EXCEPT ![r] = @ \ {"inW"}]
    /\ UNCHANGED <<runtimeVars, started, drains, buffer, childVars, pipeVars>>

CallStop(r) == started[r] /\ BeginStop(r, "idle")

-----------------------------------------------------------------------------
(* start_locked(). *)

\* The three pipes are made, one after the other with nothing between that another
\* runner's step could tell from all three.  What other children hold of r's former
\* pipes has nothing to do with these.
MakePipes(r) ==
    /\ Goto(r, "pipes", "spawn")
    /\ open' = [open EXCEPT ![r] = Ends]
    /\ held' = [q \in Runners |-> held[q] \ {r}]
    /\ UNCHANGED <<runtimeVars, started, drains, buffer, child, task, loaded, pipeVars>>

PipesFail(r) ==
    /\ Goto(r, "pipes", "idle")
    /\ UNCHANGED <<runtimeVars, started, open, drains, buffer, childVars, pipeVars>>

Inheritance(r) == {q \in Runners \ {r} : "errW" \in open[q]}

Spawn(r) ==
    /\ Goto(r, "spawn", "ends")
    /\ child' = [child EXCEPT ![r] = "idle"]
    /\ loaded' = [loaded EXCEPT ![r] = NoModel]
    /\ held' = [held EXCEPT ![r] = Inheritance(r)]
    /\ UNCHANGED <<runtimeVars, started, open, drains, buffer, task, pipeVars>>

\* Mutant of SpawnFails: the pipe made last is forgotten.
SpawnFailsWithoutStderr(r) ==
    /\ Goto(r, "spawn", "idle")
    /\ open' = [open EXCEPT ![r] = {"errR", "errW"}]
    /\ UNCHANGED <<runtimeVars, started, drains, buffer, childVars, pipeVars>>

SpawnFails(r) ==
    /\ Goto(r, "spawn", "idle")
    /\ open' = [open EXCEPT ![r] = {}]
    /\ UNCHANGED <<runtimeVars, started, drains, buffer, childVars, pipeVars>>

\* The child's ends are closed in OBS.  Without a thread the constructor throws to
\* the runtime, and the child is there for the next request.
CloseEnds(r) ==
    /\ open' = [open EXCEPT ![r] = {"inW", "outR", "errR"}]
    /\ started' = [started EXCEPT ![r] = TRUE]
    /\ buffer' = [buffer EXCEPT ![r] = <<>>]
    /\ \E thread \in BOOLEAN :
        /\ Goto(r, "ends", IF thread THEN "send" ELSE "idle")
        /\ drains' = [drains EXCEPT ![r] = thread]
    /\ UNCHANGED <<runtimeVars, childVars, pipeVars>>

-----------------------------------------------------------------------------
(* transact_locked(). *)

\* Mutant of GiveUp: a request that fails leaves the child to the next one.
GiveUpKeepsChild(r, from) ==
    /\ Goto(r, from, "idle")
    /\ UNCHANGED <<runtimeVars, started, open, drains, buffer, childVars, pipeVars>>

\* A request that fails stops the child before it returns.
GiveUp(r, from) == BeginStop(r, from)

Send(r) ==
    /\ Alive(r)
    /\ Goto(r, "send", "read")
    /\ stdin' = [stdin EXCEPT ![r] = Append(@, request[r])]
    /\ UNCHANGED <<runtimeVars, started, open, drains, buffer, childVars, stdout>>

\* The child has ended, the pipe is closed, or a signal interrupts write().
SendFails(r) == GiveUp(r, "send")

ReadPiece(r) ==
    /\ pc[r] = "read"
    /\ stdout[r] # <<>> /\ ~Head(stdout[r]).last
    /\ buffer' = [buffer EXCEPT ![r] = Append(@, Head(stdout[r]))]
    /\ stdout' = [stdout EXCEPT ![r] = Tail(@)]
    /\ UNCHANGED <<pc, runtimeVars, started, open, drains, childVars, stdin>>

\* The line is complete and goes to the runtime: initialize() remembers that it is
\* ready, transcribe() returns what it holds.
ReadLine(r) ==
    /\ LineEnds(r)
    /\ Goto(r, "read", "idle")
    /\ initialized' = [initialized EXCEPT ![r] =
                          @ \/ (request[r].model # NoModel /\ Ready(Line(r)))]
    /\ buffer' = [buffer EXCEPT ![r] = <<>>]
    /\ stdout' = [stdout EXCEPT ![r] = Tail(@)]
    /\ UNCHANGED <<request, wanted, started, open, drains, childVars, stdin>>

\* The deadline, the end of the file, or a line that is too long.
ReadFails(r) == GiveUp(r, "read")

-----------------------------------------------------------------------------
(* stop_locked(). *)

\* Its memory and its descriptors go with the child.
ChildGone(r, state) ==
    /\ child' = [child EXCEPT ![r] = state]
    /\ loaded' = [loaded EXCEPT ![r] = NoModel]
    /\ held' = [held EXCEPT ![r] = {}]
    /\ task' = [task EXCEPT ![r] = NoAnswer]

\* The child is reaped and stdout closed; what the two pipes still hold is lost.
CloseOut(r) ==
    /\ Goto(r, "wait", "join")
    /\ ChildGone(r, "none")
    /\ open' = [open EXCEPT ![r] = @ \ {"outR"}]
    /\ stdin' = [stdin EXCEPT ![r] = <<>>]
    /\ stdout' = [stdout EXCEPT ![r] = <<>>]
    /\ UNCHANGED <<runtimeVars, started, drains, buffer>>

\* waitpid() finds that the child has ended, by itself or of SIGTERM.
StopReap(r) == ~Alive(r) /\ CloseOut(r)

\* Mutant of StopKill: it waits for the child to heed SIGTERM.
StopKillNever(r) == FALSE /\ CloseOut(r)

\* Both deadlines have passed: SIGKILL and a wait without a deadline.
StopKill(r) == Alive(r) /\ CloseOut(r)

\* drain_stderr() ends when nobody can write to the pipe any more.
StopJoin(r) ==
    /\ drains[r] => ~Alive(r) /\ ~Inherited(r)
    /\ Goto(r, "join", "idle")
    /\ drains' = [drains EXCEPT ![r] = FALSE]
    /\ open' = [open EXCEPT ![r] = @ \ {"errR"}]
    /\ started' = [started EXCEPT ![r] = FALSE]
    /\ buffer' = [buffer EXCEPT ![r] = <<>>]
    /\ UNCHANGED <<runtimeVars, childVars, pipeVars>>

-----------------------------------------------------------------------------
(* The child: one line is read, one line is written.  A model that cannot  *)
(* be loaded leaves the former one in place, and without a model nothing   *)
(* is transcribed.                                                         *)

ChildAnswers(r) ==
    /\ child[r] = "idle" /\ stdin[r] # <<>>
    /\ LET asked == Head(stdin[r])
           initialize == asked.model # NoModel
       IN \E ready \in BOOLEAN :
            /\ (ready /\ ~initialize) => loaded[r] # NoModel
            /\ loaded' = [loaded EXCEPT ![r] = IF ready /\ initialize THEN asked.model ELSE @]
            /\ task' = [task EXCEPT ![r] = [of |-> asked.of, ready |-> ready,
                                            model |-> loaded'[r]]]
    /\ child' = [child EXCEPT ![r] = "answering"]
    /\ stdin' = [stdin EXCEPT ![r] = Tail(@)]
    /\ stdout' = [stdout EXCEPT ![r] = Append(@, PieceOf(task'[r], FALSE))]
    /\ UNCHANGED <<pc, runtimeVars, started, open, drains, buffer, held>>

ChildEndsLine(r) ==
    /\ child[r] = "answering"
    /\ stdout' = [stdout EXCEPT ![r] = Append(@, PieceOf(task[r], TRUE))]
    /\ child' = [child EXCEPT ![r] = "idle"]
    /\ task' = [task EXCEPT ![r] = NoAnswer]
    /\ UNCHANGED <<pc, runtimeVars, started, open, drains, buffer, loaded, held, stdin>>

\* It crashes, is terminated, or leaves its loop at the end of its input.
ChildEnds(r) ==
    /\ Alive(r)
    /\ ChildGone(r, "dead")
    /\ UNCHANGED <<pc, runtimeVars, started, open, drains, buffer, pipeVars>>

-----------------------------------------------------------------------------
Start(r) == MakePipes(r) \/ PipesFail(r) \/ Spawn(r) \/ SpawnFails(r) \/ CloseEnds(r)

Transact(r) ==
    \/ Send(r) \/ SendFails(r)
    \/ ReadPiece(r) \/ ReadLine(r) \/ ReadFails(r)

Stop(r) == StopReap(r) \/ StopKill(r) \/ StopJoin(r)

RunnerStep(r) == Start(r) \/ Transact(r) \/ Stop(r)
ChildStep(r) == ChildAnswers(r) \/ ChildEndsLine(r) \/ ChildEnds(r)
Call(r) ==
    \/ CallInitialize(r) \/ RefuseInitialize(r) \/ CallTranscribe(r)
    \/ CallStop(r)

Next == \E r \in Runners : Call(r) \/ RunnerStep(r) \/ ChildStep(r)

\* The thread that called goes on; nobody owes a call, and nothing is expected of the
\* child: deadlines and SIGKILL end every wait for it.
Fairness == \A r \in Runners : WF_vars(RunnerStep(r))

Spec == Init /\ [][Next]_vars /\ Fairness

-----------------------------------------------------------------------------
\* Types of the members; the pipes and the buffer never hold more than one request or
\* one answer.
TypeOK ==
    /\ pc \in [Runners -> Pc]
    /\ request \in [Runners -> Request]
    /\ initialized \in [Runners -> BOOLEAN]
    /\ wanted \in [Runners -> Models \cup {NoModel}]
    /\ started \in [Runners -> BOOLEAN]
    /\ open \in [Runners -> SUBSET Ends]
    /\ drains \in [Runners -> BOOLEAN]
    /\ buffer \in [Runners -> Seq(Piece)]
    /\ child \in [Runners -> Child]
    /\ task \in [Runners -> Answer]
    /\ loaded \in [Runners -> Models \cup {NoModel}]
    /\ held \in [Runners -> SUBSET Runners]
    /\ stdin \in [Runners -> Seq(Request)]
    /\ stdout \in [Runners -> Seq(Piece)]
    /\ \A r \in Runners : Len(stdin[r]) <= 1 /\ Len(stdout[r]) <= 2 /\ Len(buffer[r]) <= 1

\* A line that is about to be returned is the whole answer to this very request: no
\* late answer of a request that was given up, no two answers glued together.
\* (read_line_locked(), stop_locked(): lines carry no serial number in the code, so
\* a single one out of step would shift all that follow.)
AnswerBelongsToRequest ==
    \A r \in Runners :
        (pc[r] = "read" /\ LineEnds(r)) =>
            /\ Whole(Line(r))
            /\ Line(r)[1].of = request[r].of

\* A transcript is made with the model that initialize() was last called with, over
\* failed loads, crashes and restarts of the child.  (OpenAIWhisperRuntime.)
TranscriptFromWantedModel ==
    \A r \in Runners :
        (/\ pc[r] = "read" /\ LineEnds(r)
         /\ request[r].model = NoModel /\ Ready(Line(r))) =>
            Line(r)[1].model = wanted[r]

\* Between two calls a runner without a child has left none behind, nor a thread or
\* a descriptor, whichever step of its start failed.  (start_locked(), stop_locked().)
NothingLeftBehind ==
    \A r \in Runners :
        (pc[r] = "idle" /\ ~started[r]) =>
            child[r] = "none" /\ ~drains[r] /\ open[r] = {}

\* Every call returns, stop() among them, whatever the child does, as long as no other
\* runner's child holds on to the writing end of this one's stderr.
CallsReturnUnlessInherited ==
    \A r \in Runners :
        []<>(~Inherited(r)) => (pc[r] # "idle" ~> pc[r] = "idle")

\* stop() stops the child and releases all handles, and so the destructor returns.
\* (persistent_process_runner.hpp:54; stop_locked() joins the stderr thread.)
StopReturns ==
    \A r \in Runners : pc[r] \in Stopping ~> pc[r] = "idle"
====
