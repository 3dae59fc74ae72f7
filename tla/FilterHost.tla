---- MODULE FilterHost ----
(***************************************************************************)
(* What the module exports to OBS (src/obs/obs_module.cpp): the creation,  *)
(* update and destruction of filters, with the debug log that each may     *)
(* open (src/diagnostics/debug_log.cpp) and the task that asks the UI      *)
(* thread for a model (src/obs/missing_model_prompt.cpp).                  *)
(*                                                                         *)
(* OBS calls one filter's functions one after the other, and different     *)
(* filters' from different threads: what filters share, the log files, the *)
(* model cache and the queue of the UI thread, changes between the steps   *)
(* of a call.  NativeAudioBridge is here as far as it runs or not; see     *)
(* BridgeThreads.                                                          *)
(***************************************************************************)
EXTENDS Integers

CONSTANTS
    Filters,            \* the filters that may be created
    Models,             \* the models a filter may be set to
    MaxSequence         \* log files of a day: 999 in the code

ASSUME MaxSequenceAssumption == MaxSequence \in Nat \ {0}

Settings == [enabled : BOOLEAN, debug : BOOLEAN, model : Models]

Sequences == 1 .. MaxSequence
Disabled == [status |-> "disabled", file |-> 0]
Failed == [status |-> "failed", file |-> 0]
Ready(n) == [status |-> "ready", file |-> n]

VARIABLES
    phase,              \* of each filter: none, creating, live or destroyed
    step,               \* what is next in the call of it that is under way, or idle
    settings,           \* ObsFilter::settings_
    loaded,             \* ObsFilter::loaded_
    log,                \* NativeFilterData::debug_log
    candidate,          \* the sequence number DebugLog::open() is at, or begins with
    bridge,             \* NativeFilterData::audio_bridge: none, stopped or running
    held,               \* references to the source that OBS itself holds
    refs,               \* all references to the source
    tasks,              \* filters whose source a queued task of the UI thread retains
    files,              \* today's logs: absent, old (of before), blank (created, not known
                        \* to have a first line) or headed
    cache               \* models with a file that is not empty in the cache

filterVars == <<phase, step, settings, loaded, log, candidate, bridge>>
sourceVars == <<held, refs, tasks>>
vars == <<filterVars, sourceVars, files, cache>>

Init ==
    /\ phase = [f \in Filters |-> "none"]
    /\ step = [f \in Filters |-> "idle"]
    /\ settings \in [Filters -> {[enabled |-> TRUE, debug |-> FALSE, model |-> m] :
                                    m \in Models}]
    /\ loaded = [f \in Filters |-> FALSE]
    /\ log = [f \in Filters |-> Disabled]
    /\ candidate = [f \in Filters |-> 1]
    /\ bridge = [f \in Filters |-> "none"]
    /\ held = [f \in Filters |-> 0]
    /\ refs = [f \in Filters |-> 0]
    /\ tasks = {}
    /\ files \in [Sequences -> {"absent", "old"}]
    /\ cache \in SUBSET Models

-----------------------------------------------------------------------------
(* configure_debug_log() and DebugLog::open(), as part of a call that goes on *)
(* with `next`.                                                               *)

ConfigureDebugLog(f, debug, next) ==
    IF debug
    THEN /\ step' = [step EXCEPT ![f] = "open"]
         /\ UNCHANGED log
    ELSE /\ step' = [step EXCEPT ![f] = next]
         /\ log' = [log EXCEPT ![f] = Disabled]

\* The log that was opened, or was not, becomes the filter's; the next attempt begins with
\* the first number again.
Configured(f, opened) ==
    /\ log' = [log EXCEPT ![f] = opened]
    /\ candidate' = [candidate EXCEPT ![f] = 1]
    /\ step' = [step EXCEPT ![f] = IF phase[f] = "creating" THEN "prompt" ELSE "idle"]

\* Mutant of Exclusive: the file is opened whether it exists or not.
ExclusiveNever(n) == TRUE

\* open_exclusive() creates the file, and a file that exists is left alone.
Exclusive(n) == files[n] = "absent"

\* No home directory, no date, or an error other than that the file exists.
OpenFails(f) ==
    /\ step[f] = "open"
    /\ Configured(f, Failed)
    /\ UNCHANGED <<phase, settings, loaded, bridge, sourceVars, files, cache>>

CreateFile(f) ==
    /\ step[f] = "open"
    /\ Exclusive(candidate[f])
    /\ files' = [files EXCEPT ![candidate[f]] = "blank"]
    /\ step' = [step EXCEPT ![f] = "header"]
    /\ UNCHANGED <<phase, settings, loaded, log, candidate, bridge, sourceVars, cache>>

NextSequence(f) ==
    /\ step[f] = "open"
    /\ ~Exclusive(candidate[f])
    /\ candidate[f] < MaxSequence
    /\ candidate' = [candidate EXCEPT ![f] = @ + 1]
    /\ UNCHANGED <<phase, step, settings, loaded, log, bridge, sourceVars, files, cache>>

NoSequence(f) ==
    /\ step[f] = "open"
    /\ ~Exclusive(candidate[f])
    /\ candidate[f] = MaxSequence
    /\ Configured(f, Failed)
    /\ UNCHANGED <<phase, settings, loaded, bridge, sourceVars, files, cache>>

WriteHeader(f) ==
    /\ step[f] = "header"
    /\ files' = [files EXCEPT ![candidate[f]] = "headed"]
    /\ Configured(f, Ready(candidate[f]))
    /\ UNCHANGED <<phase, settings, loaded, bridge, sourceVars, cache>>

\* No stream for the descriptor, or no first line in it: it is closed.
HeaderFails(f) ==
    /\ step[f] = "header"
    /\ step' = [step EXCEPT ![f] = "remove"]
    /\ UNCHANGED <<phase, settings, loaded, log, candidate, bridge, sourceVars, files, cache>>

\* The error of std::filesystem::remove() is not looked at: the file may stay.
RemoveFile(f) ==
    /\ step[f] = "remove"
    /\ files' \in {files, [files EXCEPT ![candidate[f]] = "absent"]}
    /\ Configured(f, Failed)
    /\ UNCHANGED <<phase, settings, loaded, bridge, sourceVars, cache>>

OpenLog(f) ==
    \/ OpenFails(f)
    \/ CreateFile(f)
    \/ NextSequence(f)
    \/ NoSequence(f)
    \/ WriteHeader(f)
    \/ HeaderFails(f)
    \/ RemoveFile(f)

-----------------------------------------------------------------------------
(* filter_create(), filter_update(), filter_destroy(). *)

\* A filter that is enabled is started, which may fail.
Started(s) == IF s.enabled THEN {"running", "stopped"} ELSE {"stopped"}

Create(f, s) ==
    /\ phase[f] = "none"
    /\ phase' = [phase EXCEPT ![f] = "creating"]
    /\ held' = [held EXCEPT ![f] = 1]
    /\ refs' = [refs EXCEPT ![f] = 1]
    /\ settings' = [settings EXCEPT ![f] = s]
    /\ ConfigureDebugLog(f, s.debug, "prompt")
    /\ UNCHANGED <<loaded, candidate, bridge, tasks, files, cache>>

\* The mutant of Retain: the source is queued as it is.
RetainNot(f) ==
    /\ tasks' = tasks \cup {f}
    /\ UNCHANGED refs

\* obs_source_get_ref() for a task; a task that cannot be allocated gives it back.
Retain(f) ==
    \/ /\ refs[f] > 0
       /\ tasks' = tasks \cup {f}
       /\ refs' = [refs EXCEPT ![f] = @ + 1]
    \/ UNCHANGED <<tasks, refs>>

ModelCacheFilePresent(model) == model \in cache

RequestModelSelection(f) ==
    /\ step[f] = "prompt"
    /\ loaded' = [loaded EXCEPT ![f] = TRUE]
    /\ IF ModelCacheFilePresent(settings[f].model) THEN UNCHANGED <<tasks, refs>>
       ELSE Retain(f)
    /\ step' = [step EXCEPT ![f] = "bridge"]
    /\ UNCHANGED <<phase, settings, log, candidate, bridge, held, files, cache>>

BuildBridge(f) ==
    /\ step[f] = "bridge"
    /\ bridge' \in {[bridge EXCEPT ![f] = b] : b \in Started(settings[f])}
    /\ phase' = [phase EXCEPT ![f] = "live"]
    /\ step' = [step EXCEPT ![f] = "idle"]
    /\ UNCHANGED <<settings, loaded, log, candidate, sourceVars, files, cache>>

DebugChanged(f, s) == s.debug # settings[f].debug

Update(f, s) ==
    /\ phase[f] = "live" /\ step[f] = "idle" /\ held[f] = 1
    /\ settings' = [settings EXCEPT ![f] = s]
    /\ bridge' \in {[bridge EXCEPT ![f] = b] : b \in Started(s)}
    /\ IF DebugChanged(f, s) THEN ConfigureDebugLog(f, s.debug, "idle")
       ELSE UNCHANGED <<step, log>>
    /\ UNCHANGED <<phase, loaded, candidate, sourceVars, files, cache>>

Destroy(f) ==
    /\ phase[f] = "live" /\ step[f] = "idle" /\ refs[f] = 0
    /\ phase' = [phase EXCEPT ![f] = "destroyed"]
    /\ log' = [log EXCEPT ![f] = Disabled]
    /\ bridge' = [bridge EXCEPT ![f] = "none"]
    /\ loaded' = [loaded EXCEPT ![f] = FALSE]
    /\ UNCHANGED <<step, settings, candidate, sourceVars, files, cache>>

-----------------------------------------------------------------------------
(* The host and the user. *)

\* OBS lets go of the source; it is destroyed with its last reference.
Release(f) ==
    /\ phase[f] = "live" /\ step[f] = "idle" /\ held[f] = 1
    /\ held' = [held EXCEPT ![f] = 0]
    /\ refs' = [refs EXCEPT ![f] = @ - 1]
    /\ UNCHANGED <<filterVars, tasks, files, cache>>

\* Mutant of OpenPropertiesTask: nothing is released when there is no frontend.
OpenPropertiesTaskLeaks(f) ==
    /\ f \in tasks
    /\ tasks' = tasks \ {f}
    /\ \/ refs' = [refs EXCEPT ![f] = @ - 1]
       \/ UNCHANGED refs
    /\ UNCHANGED <<filterVars, held, files, cache>>

\* open_properties_task(): with or without a frontend, the source is released.
OpenPropertiesTask(f) ==
    /\ f \in tasks
    /\ tasks' = tasks \ {f}
    /\ refs' = [refs EXCEPT ![f] = @ - 1]
    /\ UNCHANGED <<filterVars, held, files, cache>>

\* Models are downloaded and deleted.
CacheChanges ==
    /\ cache' \in SUBSET Models
    /\ UNCHANGED <<filterVars, sourceVars, files>>

Calls(f) == OpenLog(f) \/ RequestModelSelection(f) \/ BuildBridge(f)

Next ==
    \/ \E f \in Filters :
         \/ \E s \in Settings : Create(f, s) \/ Update(f, s)
         \/ Calls(f)
         \/ Destroy(f)
         \/ Release(f)
         \/ OpenPropertiesTask(f)
    \/ CacheChanges

\* Calls come to their end, and OBS runs the tasks it queued and destroys what nobody
\* refers to.
Fairness ==
    \A f \in Filters : /\ WF_vars(Calls(f))
                       /\ WF_vars(OpenPropertiesTask(f))
                       /\ WF_vars(Destroy(f))

Spec == Init /\ [][Next]_vars /\ Fairness

-----------------------------------------------------------------------------
TypeOK ==
    /\ phase \in [Filters -> {"none", "creating", "live", "destroyed"}]
    /\ step \in [Filters -> {"idle", "open", "header", "remove", "prompt", "bridge"}]
    /\ settings \in [Filters -> Settings]
    /\ loaded \in [Filters -> BOOLEAN]
    /\ log \in [Filters -> {Disabled, Failed} \cup {Ready(n) : n \in Sequences}]
    /\ candidate \in [Filters -> Sequences]
    /\ bridge \in [Filters -> {"none", "stopped", "running"}]
    /\ held \in [Filters -> {0, 1}]
    /\ refs \in [Filters -> 0 .. 2]
    /\ tasks \in SUBSET Filters
    /\ files \in [Sequences -> {"absent", "old", "blank", "headed"}]
    /\ cache \in SUBSET Models

\* DebugLog::open() has created its candidate, and writes to it or removes it.
AtFile(f) == step[f] \in {"header", "remove"}

\* Debug logs of filters that are opened at the same time (docs/m6-workflow.md:38; the
\* exclusive creation in DebugLog::open()): no two filters write to one file, whoever has a
\* log has written its header, an attempt writes to or removes only a file that it created
\* itself and nobody else is at, never a log in use or one of before, and a filter between
\* two calls has a log, or a failed one, exactly if its settings ask for it.
LogsAreExclusive ==
    /\ \A f, g \in Filters :
         f # g /\ log[f].status = "ready" /\ log[g].status = "ready"
           => log[f].file # log[g].file
    /\ \A f \in Filters : log[f].status = "ready" => files[log[f].file] = "headed"
    /\ \A f \in Filters : AtFile(f) =>
         /\ files[candidate[f]] = "blank"
         /\ \A g \in Filters \ {f} : AtFile(g) => candidate[g] # candidate[f]
    /\ \A f \in Filters : phase[f] = "live" /\ step[f] = "idle"
         => (settings[f].debug <=> log[f].status # "disabled")

\* The task of the UI thread outlives the call that queued it, and OBS may drop the filter
\* meanwhile (missing_model_prompt.cpp): a queued task's source is there, references are
\* counted as they are held, and a source with none left is used by nobody.
PromptsHoldTheirSource ==
    /\ \A f \in tasks : phase[f] \in {"creating", "live"}
    /\ \A f \in Filters : refs[f] = held[f] + IF f \in tasks THEN 1 ELSE 0
    /\ \A f \in Filters : phase[f] \in {"none", "destroyed"}
         => refs[f] = 0 /\ step[f] = "idle" /\ bridge[f] = "none" /\ log[f] = Disabled

\* No prompt keeps a filter alive for good: what OBS has let go of is destroyed, its
\* bridge stopped and its log closed.
EverySourceIsFreed ==
    \A f \in Filters : (phase[f] = "live" /\ held[f] = 0)
                          ~> (phase[f] = "destroyed" /\ bridge[f] = "none")

====
