# Verification of OBS WhisperBleep

TLA+ models of the plugin's core, the TLC runs that check them on small
instances and the TLAPS proofs that hold for every instance. Paths are relative
to the repository (`src/core/...`, `include/obs_whisperbleep/...`).

The program is an OBS audio filter: it listens to the audio of a source, has a
child process transcribe it with Whisper, finds listed phrases and plays a beep
over them. Since recognition takes time, the audio is delayed by 1.5 s; a result
has to be back when its packet falls due.

## 1. Inventory

| Component | State | Operations | Hard because |
|---|---|---|---|
| `AudioFrameQueue` (`src/core/audio_frame_queue.cpp`) | slots, head, tail, dropped counter | try_push, try_pop, size | lock-free ring, one producer, one consumer |
| `AudioProcessingWorker` (`src/core/audio_processing_worker.cpp`) | running, accepting, stop requested, submissions in flight, thread | submit, run, start, stop | shutdown must drain what was accepted while submit() races with it; a throwing processor stops it from inside; restart |
| `AudioTimelineCoordinator` (`src/core/audio_timeline.cpp`) | anchored, requires-discontinuity, next frame, generation | accept, reset, to_absolute | epochs, gaps, integer limits, stale results |
| `EndToEndAudioPipeline` (`src/core/audio_pipeline.cpp`) | a worker, a timeline, a runtime | start, stop, submit, process | every failure must end in pass-through |
| `NativeAudioBridge` (`src/obs/native_audio_bridge.cpp`) | raw delay ring, ingress ring, result ring, stream position, five flags, two threads, a condition variable | filter_audio, submit_loop, on_result, initialize_runtime, start, stop, update | four threads and a callback that may never wait; late, lost and stale results; jumps of the host's clock; full rings |
| OBS glue (`src/obs/obs_module.cpp`) | by filter: settings, bridge, debug log; OBS's references to sources | create, update, destroy, filter | calls for different filters come from different threads; OBS may drop a filter that somebody still refers to |
| Missing-model prompt (`src/obs/missing_model_prompt.cpp`) | tasks queued for the UI thread | request, task | the task runs after the call that queued it |
| `DebugLog` (`src/diagnostics/debug_log.cpp`) | one file of the day's 999 | open, append, close | several filters look for a free number at once; half a log may have to be removed, and the removal may fail |
| `CensorScheduler`, `TimestampCoordinator`, `MatchPlanner`, `PhraseMatcher` | configuration only | plan, merge, find | rounding, overflow, overlapping intervals, word boundaries |
| `ReplacementRenderer`, `SyntheticReplacement` | configuration only | render, beep | index arithmetic, fades |
| `ReplacementCatalog`, custom audio | one sound of each kind | register, clear, select, build | a choice refers to a sound that may be gone |
| `WavAudioLoader` (`src/replacement/wav_audio_loader.cpp`) | none | load | three sizes a file claims against the bytes that are there |
| `PersistentWhisperProcessRunner` (`src/runtime/persistent_process_runner.cpp`) | child process, two pipes, buffered output | run, stop | deadlines, a dead or silent child, late answers |
| `OpenAIWhisperRuntime`, `openai_whisper_bridge.py` | initialised, model, language | initialize, transcribe; lines of JSON | the child may be restarted in between, and may die in the middle of a line |
| `BackendSelector`, `WhisperRuntimeFactory` | none | probe, select, create | evidence that contradicts itself; a request that names what is not there |
| `ModelManager` (`src/model/model_manager.cpp`) | active and previous model, pending request, state, worker thread | select_async, select, rollback, cancel, destruction | activation fails half way; cancellation; futures |
| `ModelDownloader` (`src/model/model_downloader.cpp`) | files | download, verify | crash between two renames |
| `UpdateChecker` (`src/updates/update_checker.cpp`), `PluginMenu` | menu open, item selected | check, compare; open, select, close | the order of versions; an answer that is anything |
| model catalog, localisation, latency figures, platform paths | tables | look-ups | no state |

How they interact: OBS calls `filter_audio` on its audio thread; that pushes a
packet to the ingress ring and pops a result. The ingress thread turns packets
into frames and calls `EndToEndAudioPipeline::submit`, which is
`AudioProcessingWorker::submit`, which is `AudioFrameQueue::try_push`. The
worker calls `process`, which asks the timeline for an anchor, the runtime for a
transcript (over the process runner), the planner for intervals and the renderer
for the output, and calls back `on_result`, which fills the result ring. A
lifecycle thread of OBS calls start, stop and update.

What makes each part correct:

- queue and worker: everything accepted is processed once, in order; stop drains
  and returns; a slot has one owner.
- timeline: a result is placed only in its own epoch and its own chunk; a gap is
  never bridged in silence.
- bridge: the runtime is used by one thread; nothing is submitted to a stopping
  pipeline; stop returns; a result is played for the packet it was made from; a
  dropped packet is announced to the timeline; audio is delayed by the same time
  whether it is censored or not.
- process runner and runtime: one answer per request, and the child that answers
  has the model loaded.
- model manager: what is active, persisted and reported agree after every
  failure; a verified file is never lost.
- planning and rendering: what was said is replaced, all of it and nothing else,
  and what is reported as replaced is what was replaced.
- OBS glue, prompt and log: a task's source is there when it runs, everything
  OBS drops is destroyed, no two filters write one log.
- libraries: no sound is read from outside its file; the runtime that is built is
  the one asked for or a safe one; only newer versions are offered; what is heard
  from the script is what it said.

## 2. Modules

| Module | Models | State | Actions |
|---|---|---|---|
| `FrameChannel` | what a bounded worker promises: an open channel accepts, delivers in order and closes only when empty | open, custody, delivered | Open, Accept, Deliver, Close |
| `AudioWorker` | queue and worker, one atomic access per action | the members of both classes, a program counter per thread, `hand` for the frame being moved | named after the access: `SubmitEnter` is the `fetch_add`, `CheckInFlight` the load in the exit condition |
| `Timeline` | the coordinator's pure functions over a record of its fields | none | operators |
| `AudioTimeline` | the coordinator driven by any caller | the record; which anchors were issued before and since the last break | Accept, Reset |
| `BridgeThreads` | the bridge's threads and flags | flags, ring indices, one program counter per thread, a coarse core pipeline | Callback..., Ingress..., Runtime..., Core..., Start..., Stop..., UpdateRebuild |
| `BridgeDelay` | the bridge's data path | the three rings and the pipeline's queue as sequences of packets, the stream position, the pipeline's timeline (from `Timeline`) | FilterAudio, SubmitPacket, TakeFrame, ProcessFrame, RuntimeReady, Stop, Start |
| `ProcessRunner` | runtime, process runner and bridge script, for several filters in one OBS process | by runner: the caller's place in `run()` or `stop()` and its request, the members of runtime and runner, open descriptors; the child and its model; what stdin and stdout hold; whose stderr the child inherited | Call..., those of `start_locked` (MakePipes to CloseEnds), of `transact_locked` (Send to ReadFails), of `stop_locked` (StopReap, StopKill, StopJoin), and the child's |
| `ModelStore` | what a manager promises: the active and the previous model are verified and on disk, and a verified model is lost only to a selection that keeps nothing else | active, previous, disk, spare | Download, Activate, Rollback, Forget, Evict, Restart |
| `ModelManager` | manager and downloader in one OBS process after another | the members; by thread its place in a call and its request; by model what is under its name and under that with `.backup`; the runtime's model | Select, CallRollback, Ask..., Destroy and the worker's; of a selection Enter to Clean, of its download FindFile to DropBackup, one per file operation |
| `CensorPlan` | scheduler, coordinator of time stamps, planner, matcher, merging, renderer, conversion of segments, list of phrases | none | operators |
| `CensorPipeline` | `EndToEndAudioPipeline::process` around them | configuration, the last result | Process (with each way to end), Complete, StartPipeline |
| `FilterHost` | what the plugin exports to OBS, prompt and debug log, for several filters | by filter: phase, place in a call, settings, log, bridge, references; queued tasks, log files, cache | Create, Update, Destroy, the steps of `DebugLog::open` (OpenFails to RemoveFile), RequestModelSelection, BuildBridge, Release, OpenPropertiesTask |
| `Sounds` | WAV loader and replacement catalog | assets, what was returned last | Load, ValidateChoice, RegisterAsset, ClearAsset, BuildReplacement, DropResult |
| `RuntimeChoice` | backend selector, language policy, factory | a request and its result | Request |
| `Updates` | menu, version comparison, a check with each way to end | menu, what was returned last | OpenMenu, CloseMenu, SelectItem, Activate, Check, DropUpdate |
| `BridgeLines` | requests as the runtime writes them, answers as it reads them | the line written or heard | WriteRequest, HearAnswer, ForgetLine |
| `Plugin` | composition of the last five | theirs | FilterStep, SoundStep, ChoiceStep, UpdateStep, LineStep |

`MC...` modules give the constants of the runs that are not plain values;
`...Proofs` hold the theorems: `PluginProofs` those of `FilterHost`, `Sounds`,
`RuntimeChoice` and `Updates`, `CensorPipelineProofs` those of `AudioTimeline`, `CensorPlan`
and `CensorPipeline`, `RuntimeProofs` those of `ProcessRunner` and `BridgeLines`, the others
those of the module they are named after. `FoldFacts`, which models nothing, has what can be proved of any left fold. `AudioWorker` is composed with `FrameChannel` by
refinement and `ModelManager` with `ModelStore`, `BridgeDelay` uses `Timeline`'s `AcceptChunk` for the timeline its
worker owns, and both bridge modules use the core worker in the form that
`FrameChannel` states. `ProcessRunner` stands for the runtime that `BridgeThreads`
and `BridgeDelay` only call: there initialize() and transcribe() are single steps
that end; here it is shown when they do. `CensorPipeline` extends `AudioTimeline` and
`CensorPlan`: it is what `ProcessFrame` of `BridgeDelay` does with one chunk, in
full. `BridgeLines` is what is inside an exchange of `ProcessRunner`. `FilterHost` has
of the bridge only whether it runs; `Plugin` puts it beside the libraries, with
which it shares nothing, so one behaviour explores the filters or one library.

### Abstractions

- Samples, transcripts and rendered audio are left out: a packet is a number.
  `finite` is the one thing about samples the control depends on.
- `AudioWorker`: `lifecycle_mutex_` is held for all of start() and stop(), so one
  controller stands for all callers. `submit` has one caller (the contract of the
  single-producer queue). Loads that only one thread can change the outcome of
  (both indices in `size()` as seen by the worker) are one action.
- `LateStores` in `AudioWorker` is the memory the code runs on. FALSE is a
  sequentially consistent one. TRUE lets the two release stores of `run`'s catch
  block stay in the worker's store buffer while it goes on to its acquire loads,
  which C++ and x86 both allow. The other stores of the worker are followed by
  nothing it reads before it ends; the producer's and controller's are followed
  by read-modify-writes or by operations that order them.
- `BridgeThreads`: `std::condition_variable` is its wait set: a notification
  wakes a waiter and is lost on everyone else; a waiter may wake for no reason.
  The pipeline is what `AudioWorker` shows: it owes a number of frames, takes
  one at a time, and stops when it owes none.
- `BridgeDelay`: the callback, the ingress step and a worker step are atomic. The
  rings have one producer and one consumer, and a callback touches each of the
  two shared flags once, so another thread's step in the middle of a callback has
  the effect it would have before or after it.
- `ProcessRunner` is the POSIX branch. A runner has one thread, since
  `request_mutex_` is held for all of run() and stop(). A request is a serial
  number (which the code does not send, so that nothing can be matched by it)
  and a model; an answer is a line in two pieces. The check that the child lives
  and the write are one step, and so are the waits before and after SIGTERM. The
  three pipes are made in one step: the runner of another filter can spawn
  before or after. Of the descriptors a child inherits by accident only the
  writing end of another's stderr matters, because that thread is joined without a
  deadline; the others delay what a deadline ends. What is written to stderr,
  requests larger than the pipe, JSON and the Windows branch are left out.
- `ModelManager` has one caller's thread and the worker; select_async() may be
  called by anybody while the object exists. A file is missing, what the
  catalog's checksum says (good) or anything else (bad); reading a good one may
  fail, and every file operation the code allows to fail may. A temporary file has
  a name of its own, so the leftovers of a crash are never read. Between a check
  and its use nobody else touches the cache. select_impl() makes its own
  `DownloadOptions`, without a transport (`src/model/model_manager.cpp:190`): as
  the model says, a model without a `file://` source is found in the cache or not
  at all, whatever transport the downloader was made with. A runtime is always
  given; texts of errors are left out.
- `CensorPlan`: a text has one character of each kind that the matcher and the list of
  phrases tell apart: a tabulator is like a space, and a line feed and a carriage return
  are both `"newline"`, a space that also ends a phrase of the list, as the comma and the
  semicolon do (`EndsPhrase`).
  Seconds are ticks, a fixed number to the frame, and arithmetic is exact; the refusal of
  frames outside `std::int64_t` is left out of it, since they are relative to a chunk
  and the timeline has refused such chunks. A gain is a fraction; channels, the
  sine and mixing to mono are left out.
- `CensorPipeline`: a configuration keeps the text of the settings it was made from,
  as history. The plugin has one kind of configuration (`MakePipelineConfig`); the
  others stand for other users of the core, which its tests are.
- `FilterHost`: OBS calls one filter's functions one after the other and runs every
  task it has queued; that is how the code uses it. The header of a log is written in
  one step. A failed attempt removes its blank file or leaves it, since the error of
  std::filesystem::remove() is not looked at (`debug_log.cpp:241`, `:251`); what is left
  takes its number for the day. `candidate` is a local of DebugLog::open() and has no
  value between two calls; the model sets it back when a call ends.
- `Sounds`: a file is its size, its header and its chunks. `RuntimeChoice`: adapter
  and probe are the host's and may do anything. `Updates`: numbers up to 99 stand
  for `std::uint64_t`; a command of the menu is dealt with before the next.
- `BridgeLines`: a character that JSON treats specially goes by its name; a word, a
  number or four hexadecimal digits is one character of a line. Further characters there may be
  any (`Characters`): both sides leave them alone. Samples and the literals `true` and `false`,
  which nobody looks at, are left out. Python's `json.dumps` is external. The parser's recursion
  is one function, from a rule and a place to what is read there (`Read`): a turn of a loop is
  what it reads itself, together with what is read behind it. An answer is as deep as the
  script makes it, a dictionary with a list of dictionaries (`IsAnswer`).
- Overflow of `next_frame_` (a signed 64-bit count of frames, millions of years of
  audio) is not modelled in the bridge; the timeline's limits are.

## 3. Runs

| Run | Instance | Shows |
|---|---|---|
| `audio_worker` | ring of 2, 4 submissions, 3 starts | order, exactly once, draining on every exit, slot ownership, stop() leaves no submission behind, refinement of `FrameChannel`; stop returns; accepted frames are processed |
| `audio_worker_late_stores` | ring of 2, 2 submissions, 1 start, `LateStores` | **violation**: stop() leaves an accepted frame behind |
| `censor` | frames 0..3, generations 0..2, 3 breaks, 4 configurations, 20 answers | anchors, epochs and gaps of the timeline; what is replaced and what is reported |
| `host` | two filters, one model, two log files; 200 sound files, 30 versions and their spellings, all requests over all evidence, 34 texts | logs, prompts, destruction of filters; sounds, choice of runtimes, versions, lines |
| `bridge_threads` | ingress ring of 3, core of 2 | thread ownership and shutdown order; stop and captured packets wait only for a missed notification |
| `bridge_stop_hangs` | the same | **violation**: stop() does not return |
| `bridge_delay` | delay 3, 6 packets, 2 starts, raw ring 3, ingress 2, core 1, results 2 | matching of results to packets, epochs, announcements of gaps |
| `bridge_raw_fallback` | the same | **violation**: without a result the packet played is not the delayed one |
| `bridge_faulty_packet` | the same with samples that are not finite | **violation**: the timeline rejects for good |
| `process_runner` | two runners, two models, 3 and 1 calls | one answer per request, transcripts by the wanted model, nothing left behind by a failed start or a stop; calls return unless stderr is inherited |
| `process_runner_stop_hangs` | two runners, one model, one call each | **violation**: stop() does not return while another filter's child lives |
| `model_manager` | three models, two calls and one of select_async(), one restart | records stay usable, nothing half done after any exit, futures are fulfilled and destruction returns, refinement of `ModelStore` |

Why the bounds are enough. The ring of two frames has three slots, so every
relation of head and tail occurs, with wrapping; four submissions fill it, drop
one and wrap; three starts give a restart after stop, after a throwing processor
and after a failed thread. Three breaks of the timeline saturate its
generations, and four frames hold a chain of chunks and a gap; in four
frames of two ticks two segments touch, overlap, contain each other, round to nothing
and reach over the chunk, and the configurations delay them either way and fade them in
as many frames as there are or more. Two filters and two log files are what it
takes to compete for a number, and to find none free, since each file may be there
before; a reference too many or too few shows with one task. The sound files are right or wrong
in one or two places, with each of the three sizes off by one either way; the
largest one allowed and the next are among them. The versions include neighbours in every
rule of their order, and the largest number and the next; the texts of lines are the characters
that JSON treats specially, and all pairs of those that an escape is made of. `BridgeThreads` counts nothing, so
its runs are unbounded in time. In `BridgeDelay` contiguous packets overflow the
raw ring of three before the delay of three is over, while a tolerated hole in the
clock lets them fall due, so both happen; the first packet falls due with the
third or fourth, which leaves a break and two more packets in front of, between
and behind them. In `ProcessRunner` three calls are what a wrong transcript takes: a
model is loaded, loading another one fails, and somebody transcribes; between them
the child may crash, be stopped and be started anew any number of times, stop()
not being counted. The second runner is there to inherit and to be inherited from,
for which one call is enough. A late answer needs one request given up and one
after it. In `ModelManager` three selections load two models and keep a third only,
or fetch one of the two again; a rollback needs two before it. The cache
begins with a file that does not match and can be replaced, one that is missing
and can be fetched, and one that is good and cannot be fetched; the crash may
come at any step and leaves each of them in any state a second process can find.

Fairness. `AudioWorker`: the three threads' steps and the store buffer are weakly
fair, the calls are not: the operating system runs a runnable thread, nobody owes
a submit() or a stop(). `BridgeThreads`: the same; transcribe() and initialize()
are assumed to end, which `CallsReturnUnlessInherited` shows of the process runner,
with the exception it names. Spurious wakes are possible and never owed.
`ProcessRunner`: the calling threads are weakly fair. Nobody owes a call and nothing
is expected of a child, which may be silent for ever: deadlines end the waits for
an answer, and SIGKILL the wait for its death. What a thread waits for with no
deadline is the end of its stderr.
`FilterHost`: a call that has begun comes to its end, OBS runs a queued task and destroys a
source nobody refers to. Nobody owes a call, nor that OBS lets go of a filter. Destruction
stops the bridge and is one fair step here, which leaves one exception out:
NativeAudioBridge::stop() may miss its notification and hang, as `bridge_stop_hangs` shows,
and with it the call that destroys, or updates, the filter. `EverySourceIsFreed` says of the
references that nothing else keeps a filter alive.
`ModelManager`: both threads and pending notifications are weakly fair; a
download, initialize() and whoever holds a mutex come to an end. Nobody owes a
call, a destruction or a crash.

`CHECK_DEADLOCK FALSE` stands where the run may end: the bound on packets or
breaks is used up, the filters are destroyed or a library has answered.

## 4. Proofs

`AudioWorkerProofs`. `TypeCorrect`, `StopQuiesces` and `SlotsAreHandedOver` hold
for every capacity and both memories; `DrainedOnEveryExit` for every capacity
when stores are visible at once. `DrainedWhenStopped` is not inductive: that the
worker may leave depends on what it saw two loads earlier. The strengthening
`DrainInv` says so at each program counter: `CountInv` (the count is the producer
between enter and leave), `StopInv` (stop_requested_ is never up while
submissions are accepted), `ExitInv` (past the check of the count nobody can
publish any more, past the check of the size the ring stays empty), `StartInv`
and `QuietInv` (start() touches the flags with no thread alive; while stop()
waits nobody is let in). `RingInv` carries each side's last look at the other's
index. `WorkerImplementsChannel` takes each step to one of `FrameChannel` or to none,
when stores are visible at once: publishing is an Accept, calling the processor a
Deliver, the end of the worker a Close. What the ring contains is a function of its
slots and of two indices that wrap; lemmas about those say that a publication appends
to it and that an advance takes its head, and `FilledInv` that what is about to be
published is in its slot. Order and delivery exactly once are the channel's. Assumed:
`Capacity` is a natural number and `None` is no frame.

`CensorPipelineProofs`, the timeline. From `Inv` (types, `EpochInv`, `EpochIsContiguous`): every
anchor since the last break carries the current generation, every older one a
smaller generation unless it has saturated. The proofs are for chunks anywhere,
the ones included that the pipeline refuses before it asks the timeline. One lemma per answer of accept()
says what the answer is, one per answer that it keeps `Inv`. `PipelineDrivesTheTimeline`
takes each step of the pipeline to one of `AudioTimeline` or to none, so all of this holds
of the pipeline's timeline.

`CensorPipelineProofs`, what is heard and what is reported, for lists, texts, answers and
chunks of any size. Neither property needs more of an invariant than the timeline's: what
a chunk becomes is decided in one step, and the work is in what its functions compute.

- Folds. `FoldLeft` is a recursive function inside `MapThenFoldSet`, chosen by its
  equation. `FoldFacts` proves that one exists for every sequence and reads off it
  that nothing folded is the base, that one element more is one step more, and
  induction over numbers and sequences for a property given as a set. The library's own
  induction theorems take the property as an operator; that a set of numbers that is not
  empty has a least element (`WFMin`) needs none. An algorithm is connected by
  an INSTANCE of the module with its own step.
- Intervals. `OrderedIsSorted`: a finite set of intervals has one order. `MergeCovers`:
  merged intervals are apart and cover the same frames as the given ones. `PlanCovers`:
  the plan covers the segments with a phrase, as rounding and delay move them.
  `RenderReplaces`: exactly the frames of the chunk that the plan covers are replaced,
  each by one of the sound's frames with a gain above 0 and not above 1.
- Texts. The reference reads a text as words, normalize() as words joined by single
  spaces. `NormalizeKeepsWords` says that these are the same words and `NormalizeWhole`
  that with separators dropped nothing else is left, so that a phrase is found between
  two boundaries where its words follow each other (`FindsWords`). With the plugin's own
  options a phrase that is spoken as it is listed stays in the text when both are
  normalised (`FindsLiterally`): case is lowered one by one, and a run of spaces inside
  the phrase is a run in the text. That set_phrases() drops duplicates loses nothing,
  because what it compares them by is what they are found by (`OneIsKept`).
- The list. `PartsAreRead`: split_phrases() sees exactly the parts between two ends of
  phrases (commas, semicolons, line ends) with none between; `SplitsIntoEntries`: what it
  keeps of them is what stands between those without the spaces at either end.

Assumed: an answer is a finite set of segments with whole ticks and a text; a
configuration has the phrases of the list it was made from, a fade and a sound that are
not negative; a chunk's marker `NoAnchor` is no interval. Phrases are of the characters
of `CensorPlan`, one for each kind that the matcher tells apart.

`BridgeThreadsProofs`, for every ingress ring and core queue. `ThreadsInv` says
which threads may be alive at each point of start() and stop(), `ReadyInv` that
from the reset of runtime_ready_ to the end of initialize() nothing is submitted,
and so nothing transcribed; `RuntimeUsedByOneThread`, `NoSubmitIntoStoppingCore`
and `JoinableIsNeverOverwritten` follow. `SlotInv` has the two cases of a callback
that fills a slot: it is the one behind the last packet, or the ring was reset
meanwhile and is empty, and then nothing is taken out of it.

`BridgeDelayProofs`, for all capacities, delays, packet lengths and clock offsets.
`NumberInv` looks at everything on its way between the callback and itself, raw
packets included: a frame number names one packet, all numbers are below
next_frame_, the delay ring holds nothing from before the last break, and a
stopped bridge has an empty ingress ring (without which a restart, where the
numbers begin again at 0, would confuse two sessions). One lemma per step says what
the step knows afterwards; a result that is played has the frame number of a packet
of the ring, hence is of that packet and of this epoch. Assumed: packets are not
empty.

The same module, on flow. That a result which is there is played rests on
order, `OrderInv`: results, the frame in hand, the pipeline's queue and the ingress
ring follow each other in frame numbers, whatever was dropped between them, so the
results that consume_ready() drops are those before the one looked for
(`ReadyIsFound`). That a gap is announced rests on the packets on their way:
`FlowInv` says that, unless the next packet is to be marked, those behind the last mark
lie end to end up to next_frame_, and that the timeline, if no mark is on its way,
expects the first of them. Every drop breaks the chain and sets submit_gap_pending_ in
the same step. Assumed: samples are finite (`Faulty` is FALSE: finding 4 is what
happens otherwise) and `[](nextFrame <= MaxFrame)`, frame numbers within
`std::int64_t`, past which the timeline refuses frames for good.

`RuntimeProofs`, the runners, for any set of runners and models and any number of calls.
That the line about to be returned answers this request is not inductive: the
line comes from pipes that outlive requests. `PlaceInv` says what there is at each
point of a call: between calls both pipes, the buffer and the child's hands are
empty (`Quiet`), and while a call reads or stops, all of them together hold one
`Exchange`: the request unread, its answer half written, or all of it, cut between
pipe and buffer in either way. A request that is given up keeps its exchange until
stop has reaped the child and dropped the pipes, so no later call meets it. The same
invariant lists the descriptors, which gives `NothingLeftBehind`. `ModelInv` adds
that a runtime that is ready wants the model its child has, unless the child is
new and has none, in which case it cannot transcribe. Assumed: `NoModel` is no model.

`RuntimeProofs`, the lines, for any characters, paths, languages and answers, texts and lists
of any length. The variable only remembers a line and what was made of it (`LinesInv`); the work
is in the parser and in what writes for it.

- The parser. `Read` is chosen by its equation. `ReadingExists` builds such a function from the
  end of the line to its beginning, since a step looks only behind its place; `ReadIsFine`
  says that what is read ends further on, in the line. By the same induction a line reads,
  where it succeeds, as every line does that begins with it (`ReadFollows`, `ParseExtends`).
- The writers. `TextsAreSpelledWell`, by induction over the text: an escaped text has no control
  character, and in front of whatever the parser reads behind it, it is read as that text. `Readable`
  says the same of a value, wherever it stands. Lists are read by `JoinedAreParts`, by
  induction over the parts written so far: parts are read right whether the list ends behind them
  (`Closes`) or another follows (`GoesOn`), which needs that putting lists together is associative,
  keys that come again included (`TogetherAgain`). `DumpsIsReadable` puts the levels
  of an answer together, `RequestIsRead` does a request.
- What is heard. White space around an answer changes nothing (`IntactIsHeard`). A part of an
  answer or two in a line are not heard (`DamagedIsNotHeard`): a beginning that could be
  parsed would be what the whole line is read as and would end before it does, by
  `ParseExtends`; without its opening brace it is a text at most (`QuoteIsText`); behind the first of two
  answers something follows. `TranscribedIsMeaning`: of a value that is read, the
  runtime makes what it means.

Assumed: `Characters` has those that the texts here are made of, and not the mark of a line's end;
paths and languages are sequences of them; `Said` pairs an answer of that depth with its
meaning (`Meaning`, which is written without the parser or the runtime).

`ModelManagerProofs`, for any models and any number of calls and restarts. That
the active model's file is good is not inductive, because a download moves
files about, the previous model's too when reading it failed. `At` says for
the one thread inside what each step of a selection rests on (it never fetches the
active model, what it publishes is good, what it cleans away is neither active nor
previous); `BackupInv` that a backup beside a
bad file is never the good one, so that clearing a backup loses nothing.
`NothingHalfDone` is a part of the same invariant. `ManagerIsStore` takes each step
to one of `ModelStore`: Publish is a Download or a stutter, Commit an
Activate or Rollback, Clean an Evict, and the file operations in between leave the
set of models that are on disk as it is. Assumed: `NoModel` is no model, `Found`
are states of the cache.

`PluginProofs`, the filters, for any filters and models and any number of log files.
Neither property is inductive. For the logs: that two attempts never finish with one file
needs to know whose a blank file is. `Stages` says at which step a call of a
filter in each phase can be, `Asked` that a log is open or failed if the settings ask for
it, `Owned` that a filter between the creation of its file and its header, or its removal,
is at a blank file and has the number to itself, `Written` that open logs have a header and
a number of their own. Nothing is assumed of the removal: a blank file that stays is one
that nobody creates again. For the
prompts: `Counted` has the references of a filter in creation, which OBS cannot drop.
`Bystander` states once what a step of one filter leaves of the others. Assumed:
`MaxSequence` is not 0.

`PluginProofs`, the choice of a runtime, for any requests and any evidence of the type that
a caller may put together by hand. The variable only remembers a request and its result, so the proof is one
lemma per stage: a probe leaves evidence like any other (`ProbeGivesEvidence`), of which the
selector believes exactly the backends that are supported (`EffectiveIsSupported`) and takes the
requested one if it is among them (`SelectionIsSupported`), and `CreatedAsRequested` adds
the language policy and the factory.

`PluginProofs`, versions. `OlderIsAStrictOrder` is the rule that everything else
rests on: three numbers and then identifiers one by one, where the first difference
decides and the shorter one is older. `ParsedIsVersion` says that what is parsed is a version: digits are folded to
natural numbers, and the text is cut at its dots by another fold. `OffersFollowTheLadder` then needs of the
published texts only `IsLadder`: the spellings of a rung are parsed to one version, each
rung is older than the next, and the malformed ones are not parsed. This is no
assumption on the code, and the ladder of the run `host` satisfies it: the run checks the
property for all pairs of rungs, which is more than neighbours.

`PluginProofs`, sounds, for any set of files and both limits. The parser walks over
the chunks by the sizes they claim. `WalkInv` says after each chunk what it has:
the one format chunk and the one data chunk so far, or that it has given up on a file that no
walk could finish. The reference says which files are playable without walking; both meet in
`WellFormed`, one format chunk and one data chunk among the first ones, which end where the
file says that it does. `SoundInv`
carries this to the catalog: every asset was decoded, and the sound built is the one chosen
or the beep. Assumed: files are records with a natural size and a sequence of chunks, limits are
natural numbers.

Types of `AudioWorker` and `BridgeThreads` are proved (`TypeCorrect`,
`ThreadsTypeCorrect`) and no longer part of a run, as the types of the other modules that
have a proof and no run of their own for it.

Only model-checked: everything temporal beyond invariance, since fairness is out of the
prover's reach.

## 5. Findings

1. `audio_worker_late_stores`: stop() can leave an accepted frame behind after a
   throwing processor, because release stores do not order later loads.
2. `bridge_stop_hangs`: stop() can join a sleeping ingress thread, because the
   flag and the notification are not under the mutex.
3. `bridge_raw_fallback`: a packet without a result is copied to the output and
   the current packet is returned, so uncensored audio is not delayed.
4. `bridge_faulty_packet`: after one frame with a sample that is not finite the
   timeline rejects every frame until something else breaks the stream.
5. `process_runner_stop_hangs`: `pipe()` makes descriptors that every child of the
   process inherits, and a child closes only those of its own runner. The child of
   another filter, started while this one's writing end of stderr is open, keeps it
   open; stop() reaps its own child and then joins the stderr thread, which waits
   for an end of file that comes when the other child ends.

A remark that is no finding, since nothing in the repository says otherwise: select()
of the model that is active reports success without a look at file or runtime
(`src/model/model_manager.cpp:144`). After an activation that failed and could not
be taken back the runtime has no model, the state is `error`, and selecting the
active model turns it to `active` all the same; `NothingHalfDone` therefore speaks
of the runtime with that exception (`broken`).

## 6. Left

Every invariant and action property of the passing runs has its theorem. Worth doing
besides: the refinement of `FrameChannel` with late stores up to the frame left behind, and the
Windows branch of the process runner.

Not modelled, and why: localisation and the model catalog's addresses are tables;
latency figures are subtractions and platform paths the operating system's. The Windows
branch of the process runner has the same protocol with other calls and would be a module of
its own. Redaction and wording of the log, texts of errors, SHA-256 and the reading
of URLs are data no property speaks of. `ObsFilter::process` is called by no part of the
plugin. Sample values and channels are floating point and loops over what the models
count in frames. Installers, packaging scripts and CI are not part of the running program.
