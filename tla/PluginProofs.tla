---- MODULE PluginProofs ----
(***************************************************************************)
(* Theorems about the parts of Plugin, each for every value of its         *)
(* constants: the filters (FilterHost), the choice of a runtime            *)
(* (RuntimeChoice), the update check (Updates) and the sounds (Sounds).    *)
(*                                                                         *)
(* Filters: neither property is inductive.  What makes the logs exclusive  *)
(* is who owns a file before it has a header: the call that created it,    *)
(* alone (Owned).  What keeps the sources is that a filter queues one task *)
(* at most, while it is created and OBS still holds its reference (Stages).*)
(* The other three are about what an operation computes: their invariants  *)
(* say what the caller holds, and the work is in the lemmas about the      *)
(* operators, by induction over the text or the chunks (FoldFacts).        *)
(***************************************************************************)
EXTENDS FilterHost, Sounds, RuntimeChoice, Updates, SequenceTheorems, FiniteSetTheorems,
        TLAPS

-----------------------------------------------------------------------------
(* The filters: who owns a log, and who a reference.                         *)

\* Which steps belong to which phase, and what holds at them.
Stages ==
    \A f \in Filters :
        /\ phase[f] \in {"none", "destroyed"} => step[f] = "idle"
        /\ phase[f] = "creating" => step[f] # "idle" /\ held[f] = 1
        /\ step[f] \in {"prompt", "bridge"} => phase[f] = "creating"
        /\ step[f] = "prompt" => f \notin tasks
        /\ step[f] \in {"open", "header", "remove"} => settings[f].debug
        /\ phase[f] = "creating" /\ step[f] # "bridge" => f \notin tasks
        /\ phase[f] = "none" => held[f] = 0

\* A filter has the log that its settings ask for, except while it is being opened.
Asked ==
    \A f \in Filters :
        /\ step[f] \in {"prompt", "bridge"} \/ (phase[f] = "live" /\ step[f] = "idle")
             => (settings[f].debug <=> log[f].status # "disabled")
        /\ phase[f] \in {"none", "destroyed"} => log[f] = Disabled

\* The files that calls are at have no header, and are one call's each.
Owned ==
    /\ \A f \in Filters : AtFile(f) => files[candidate[f]] = "blank"
    /\ \A f, g \in Filters : f # g /\ AtFile(f) /\ AtFile(g) => candidate[f] # candidate[g]

\* Files with one to one log each.
Written ==
    /\ \A f, g \in Filters :
         f # g /\ log[f].status = "ready" /\ log[g].status = "ready"
           => log[f].file # log[g].file
    /\ \A f \in Filters : log[f].status = "ready" => files[log[f].file] = "headed"

Counted ==
    /\ \A f \in tasks : phase[f] \in {"creating", "live"}
    /\ \A f \in Filters : refs[f] = held[f] + IF f \in tasks THEN 1 ELSE 0
    /\ \A f \in Filters : phase[f] \in {"none", "destroyed"}
         => refs[f] = 0 /\ bridge[f] = "none"

LogInv == TypeOK /\ Stages /\ Asked /\ Owned /\ Written
HostInv == LogInv /\ Counted

-----------------------------------------------------------------------------
\* Disabled, Failed and Ready are told apart by their status.
LEMMA LogStatus ==
    /\ Disabled.status = "disabled" /\ Failed.status = "failed"
    /\ \A n \in Sequences : Ready(n).status = "ready" /\ Ready(n).file = n
BY DEF Disabled, Failed, Ready

\* At first no filter is there and no file is blank.
LEMMA InitHostInv == Init => HostInv
<1> SUFFICES ASSUME Init PROVE HostInv
    OBVIOUS
<1> USE DEF Init
<1>1. TypeOK
  <2>1. settings \in [Filters -> Settings]
    <3>1. \A m \in Models : [enabled |-> TRUE, debug |-> FALSE, model |-> m] \in Settings
      BY Zenon DEF Settings
    <3>. QED  BY <3>1
  <2>2. candidate \in [Filters -> Sequences]
    BY MaxSequenceAssumption DEF Sequences
  <2>3. files \in [Sequences -> {"absent", "old", "blank", "headed"}]
    OBVIOUS
  <2>4. refs \in [Filters -> 0 .. 2]
    OBVIOUS
  <2>. QED  BY <2>1, <2>2, <2>3, <2>4 DEF TypeOK
<1>2. Stages
  BY DEF Stages
<1>3. Asked
  BY DEF Asked
<1>4. Owned
  BY DEF Owned, AtFile
<1>5. Written
  BY LogStatus DEF Written
<1>6. Counted
  BY DEF Counted
<1>. QED  BY <1>1, <1>2, <1>3, <1>4, <1>5, <1>6 DEF HostInv, LogInv

-----------------------------------------------------------------------------
(* A step of one filter, action by action. *)

\* All that a step of filter f changes, but for the files and references, is about f.
LEMMA OpenLogIs ==
    ASSUME TypeOK, NEW f \in Filters, OpenLog(f)
    PROVE  /\ step[f] \in {"open", "header", "remove"}
           /\ UNCHANGED <<phase, settings, loaded, bridge, held, refs, tasks, cache>>
           /\ \A g \in Filters \ {f} : step'[g] = step[g] /\ log'[g] = log[g]
                                       /\ candidate'[g] = candidate[g]
<1> USE DEF TypeOK, Configured, sourceVars
<1>1. CASE OpenFails(f)
  BY <1>1 DEF OpenFails
<1>2. CASE CreateFile(f)
  BY <1>2 DEF CreateFile
<1>3. CASE NextSequence(f)
  BY <1>3 DEF NextSequence
<1>4. CASE NoSequence(f)
  BY <1>4 DEF NoSequence
<1>5. CASE WriteHeader(f)
  BY <1>5 DEF WriteHeader
<1>6. CASE HeaderFails(f)
  BY <1>6 DEF HeaderFails
<1>7. CASE RemoveFile(f)
  BY <1>7 DEF RemoveFile
<1>. QED  BY <1>1, <1>2, <1>3, <1>4, <1>5, <1>6, <1>7 DEF OpenLog

\* Types of what the calls of a filter change.
LEMMA OpenLogType ==
    ASSUME TypeOK, NEW f \in Filters, OpenLog(f)
    PROVE  TypeOK'
<1>1. /\ log[f] \in {Disabled, Failed} \cup {Ready(n) : n \in Sequences}
      /\ candidate[f] \in Sequences
      /\ Ready(candidate[f]) \in {Ready(n) : n \in Sequences}
  BY DEF TypeOK
<1>2. UNCHANGED <<phase, settings, loaded, bridge, held, refs, tasks, cache>>
  BY OpenLogIs
<1>3. step' \in [Filters -> {"idle", "open", "header", "remove", "prompt", "bridge"}]
  BY DEF TypeOK, OpenLog, OpenFails, CreateFile, NextSequence, NoSequence, WriteHeader,
         HeaderFails, RemoveFile, Configured
<1>4. log' \in [Filters -> {Disabled, Failed} \cup {Ready(n) : n \in Sequences}]
  BY <1>1 DEF TypeOK, OpenLog, OpenFails, CreateFile, NextSequence, NoSequence, WriteHeader,
         HeaderFails, RemoveFile, Configured
<1>5. candidate' \in [Filters -> Sequences]
  <2>1. CASE NextSequence(f)
    <3>1. candidate[f] + 1 \in Sequences
      BY <1>1, <2>1, MaxSequenceAssumption DEF NextSequence, Sequences
    <3>. QED  BY <2>1, <3>1 DEF TypeOK, NextSequence
  <2>2. CASE ~NextSequence(f)
    <3>1. 1 \in Sequences
      BY MaxSequenceAssumption DEF Sequences
    <3>2. candidate' \in {candidate, [candidate EXCEPT ![f] = 1]}
      BY <2>2 DEF OpenLog, OpenFails, CreateFile, NoSequence, WriteHeader, HeaderFails,
           RemoveFile, Configured
    <3>. QED  BY <3>1, <3>2 DEF TypeOK
  <2>. QED  BY <2>1, <2>2
<1>6. files' \in [Sequences -> {"absent", "old", "blank", "headed"}]
  BY DEF TypeOK, OpenLog, OpenFails, CreateFile, NextSequence, NoSequence, WriteHeader,
         HeaderFails, RemoveFile, Configured
<1>. QED  BY <1>2, <1>3, <1>4, <1>5, <1>6 DEF TypeOK

\* Configuring the log keeps the types.
LEMMA ConfigureType ==
    ASSUME TypeOK, NEW f \in Filters, NEW debug \in BOOLEAN,
           NEW next \in {"prompt", "idle"}, ConfigureDebugLog(f, debug, next)
    PROVE  /\ step' \in [Filters -> {"idle", "open", "header", "remove", "prompt", "bridge"}]
           /\ log' \in [Filters -> {Disabled, Failed} \cup {Ready(n) : n \in Sequences}]
<1>1. CASE debug
  BY <1>1 DEF TypeOK, ConfigureDebugLog
<1>2. CASE ~debug
  BY <1>2 DEF TypeOK, ConfigureDebugLog
<1>. QED  BY <1>1, <1>2

\* Whoever is enabled runs or not; types of the references follow from their count.
LEMMA StepType ==
    ASSUME TypeOK, Counted, Stages, Next
    PROVE  TypeOK'
<1> USE DEF filterVars, sourceVars
<1>1. ASSUME NEW f \in Filters, NEW s \in Settings, Create(f, s) PROVE TypeOK'
  <2>1. s.debug \in BOOLEAN
    BY Zenon DEF Settings
  <2>2. /\ step' \in [Filters -> {"idle", "open", "header", "remove", "prompt", "bridge"}]
        /\ log' \in [Filters -> {Disabled, Failed} \cup {Ready(n) : n \in Sequences}]
    BY <1>1, <2>1, ConfigureType DEF Create
  <2>3. phase' \in [Filters -> {"none", "creating", "live", "destroyed"}]
        /\ settings' \in [Filters -> Settings]
        /\ held' \in [Filters -> {0, 1}] /\ refs' \in [Filters -> 0 .. 2]
    BY <1>1 DEF TypeOK, Create
  <2>4. UNCHANGED <<loaded, candidate, bridge, tasks, files, cache>>
    BY <1>1 DEF Create
  <2>. QED  BY <2>2, <2>3, <2>4 DEF TypeOK
<1>2. ASSUME NEW f \in Filters, NEW s \in Settings, Update(f, s) PROVE TypeOK'
  <2>1. s.debug \in BOOLEAN
    BY Zenon DEF Settings
  <2>2. /\ step' \in [Filters -> {"idle", "open", "header", "remove", "prompt", "bridge"}]
        /\ log' \in [Filters -> {Disabled, Failed} \cup {Ready(n) : n \in Sequences}]
    <3>1. CASE DebugChanged(f, s)
      BY <1>2, <2>1, <3>1, ConfigureType DEF Update
    <3>2. CASE ~DebugChanged(f, s)
      BY <1>2, <3>2 DEF TypeOK, Update
    <3>. QED  BY <3>1, <3>2
  <2>3. settings' \in [Filters -> Settings]
    BY <1>2 DEF TypeOK, Update
  <2>4. bridge' \in [Filters -> {"none", "stopped", "running"}]
    BY <1>2 DEF TypeOK, Update, Started
  <2>5. UNCHANGED <<phase, loaded, candidate, held, refs, tasks, files, cache>>
    BY <1>2 DEF Update
  <2>. QED  BY <2>2, <2>3, <2>4, <2>5 DEF TypeOK
<1>3. ASSUME NEW f \in Filters, OpenLog(f) PROVE TypeOK'
  BY <1>3, OpenLogType
<1>4. ASSUME NEW f \in Filters, RequestModelSelection(f) PROVE TypeOK'
  <2>1. refs' \in [Filters -> 0 .. 2] /\ tasks' \in SUBSET Filters
    <3>1. refs[f] \in 0 .. 1
      BY <1>4 DEF TypeOK, Counted, Stages, RequestModelSelection
    <3>. QED  BY <1>4, <3>1 DEF TypeOK, RequestModelSelection, Retain
  <2>2. /\ loaded' \in [Filters -> BOOLEAN]
        /\ step' \in [Filters -> {"idle", "open", "header", "remove", "prompt", "bridge"}]
    BY <1>4 DEF TypeOK, RequestModelSelection
  <2>3. UNCHANGED <<phase, settings, log, candidate, bridge, held, files, cache>>
    BY <1>4 DEF RequestModelSelection
  <2>. QED  BY <2>1, <2>2, <2>3 DEF TypeOK
<1>5. ASSUME NEW f \in Filters, BuildBridge(f) PROVE TypeOK'
  <2>1. /\ bridge' \in [Filters -> {"none", "stopped", "running"}]
        /\ phase' \in [Filters -> {"none", "creating", "live", "destroyed"}]
        /\ step' \in [Filters -> {"idle", "open", "header", "remove", "prompt", "bridge"}]
    BY <1>5 DEF TypeOK, BuildBridge, Started
  <2>2. UNCHANGED <<settings, loaded, log, candidate, held, refs, tasks, files, cache>>
    BY <1>5 DEF BuildBridge
  <2>. QED  BY <2>1, <2>2 DEF TypeOK
<1>6. ASSUME NEW f \in Filters, Destroy(f) PROVE TypeOK'
  BY <1>6 DEF TypeOK, Destroy
<1>7. ASSUME NEW f \in Filters, Release(f) PROVE TypeOK'
  <2>1. held' \in [Filters -> {0, 1}] /\ refs' \in [Filters -> 0 .. 2]
    BY <1>7 DEF TypeOK, Release, Counted
  <2>2. UNCHANGED <<filterVars, tasks, files, cache>>
    BY <1>7 DEF Release
  <2>. QED  BY <2>1, <2>2 DEF TypeOK
<1>8. ASSUME NEW f \in Filters, OpenPropertiesTask(f) PROVE TypeOK'
  <2>1. tasks' \in SUBSET Filters /\ refs' \in [Filters -> 0 .. 2]
    BY <1>8 DEF TypeOK, OpenPropertiesTask, Counted
  <2>2. UNCHANGED <<filterVars, held, files, cache>>
    BY <1>8 DEF OpenPropertiesTask
  <2>. QED  BY <2>1, <2>2 DEF TypeOK
<1>9. CASE CacheChanges
  BY <1>9 DEF TypeOK, CacheChanges
<1>. QED
  BY <1>1, <1>2, <1>3, <1>4, <1>5, <1>6, <1>7, <1>8, <1>9 DEF Next, Calls

-----------------------------------------------------------------------------
(* What a step does to the parts of the invariant. *)

\* Opening a log keeps a call in its stages.
LEMMA OpenLogStages ==
    ASSUME TypeOK, Stages, NEW f \in Filters, OpenLog(f)
    PROVE  Stages'
<1>1. UNCHANGED <<phase, settings, held, tasks>>
  BY OpenLogIs
<1>2. \A g \in Filters \ {f} : step'[g] = step[g]
  BY OpenLogIs
<1>3. step[f] \in {"open", "header", "remove"}
  BY OpenLogIs
<1>4. \/ step'[f] \in {"open", "header", "remove"}
      \/ step'[f] = IF phase[f] = "creating" THEN "prompt" ELSE "idle"
  BY DEF TypeOK, OpenLog, OpenFails, CreateFile, NextSequence, NoSequence, WriteHeader,
         HeaderFails, RemoveFile, Configured
<1>. QED  BY <1>1, <1>2, <1>3, <1>4 DEF Stages, TypeOK

\* So does any step.
LEMMA StepStages ==
    ASSUME TypeOK, Stages, Counted, Next
    PROVE  Stages'
<1> USE DEF filterVars, sourceVars
<1>1. ASSUME NEW f \in Filters, NEW s \in Settings, Create(f, s) PROVE Stages'
  <2>1. f \notin tasks
    BY <1>1 DEF Create, Counted
  <2>2. CASE s.debug
    BY <1>1, <2>1, <2>2 DEF TypeOK, Stages, Create, ConfigureDebugLog
  <2>3. CASE ~s.debug
    BY <1>1, <2>1, <2>3 DEF TypeOK, Stages, Create, ConfigureDebugLog
  <2>. QED  BY <2>2, <2>3
<1>2. ASSUME NEW f \in Filters, NEW s \in Settings, Update(f, s) PROVE Stages'
  <2>1. CASE DebugChanged(f, s) /\ s.debug
    BY <1>2, <2>1 DEF TypeOK, Stages, Update, ConfigureDebugLog
  <2>2. CASE DebugChanged(f, s) /\ ~s.debug
    BY <1>2, <2>2 DEF TypeOK, Stages, Update, ConfigureDebugLog
  <2>3. CASE ~DebugChanged(f, s)
    BY <1>2, <2>3 DEF TypeOK, Stages, Update
  <2>. QED  BY <2>1, <2>2, <2>3
<1>3. ASSUME NEW f \in Filters, OpenLog(f) PROVE Stages'
  BY <1>3, OpenLogStages
<1>4. ASSUME NEW f \in Filters, RequestModelSelection(f) PROVE Stages'
  BY <1>4 DEF TypeOK, Stages, RequestModelSelection, Retain
<1>5. ASSUME NEW f \in Filters, BuildBridge(f) PROVE Stages'
  BY <1>5 DEF TypeOK, Stages, BuildBridge
<1>6. ASSUME NEW f \in Filters, Destroy(f) PROVE Stages'
  BY <1>6 DEF TypeOK, Stages, Destroy
<1>7. ASSUME NEW f \in Filters, Release(f) PROVE Stages'
  BY <1>7 DEF TypeOK, Stages, Release
<1>8. ASSUME NEW f \in Filters, OpenPropertiesTask(f) PROVE Stages'
  BY <1>8 DEF TypeOK, Stages, OpenPropertiesTask
<1>9. CASE CacheChanges
  BY <1>9 DEF Stages, CacheChanges
<1>. QED
  BY <1>1, <1>2, <1>3, <1>4, <1>5, <1>6, <1>7, <1>8, <1>9 DEF Next, Calls

\* Opening a log leaves it open or failed if it was asked for.
LEMMA OpenLogAsked ==
    ASSUME TypeOK, Stages, Asked, NEW f \in Filters, OpenLog(f)
    PROVE  Asked'
<1>1. UNCHANGED <<phase, settings>>
  BY OpenLogIs
<1>2. \A g \in Filters \ {f} : step'[g] = step[g] /\ log'[g] = log[g]
  BY OpenLogIs
<1>3. settings[f].debug /\ phase[f] \notin {"none", "destroyed"}
  BY OpenLogIs DEF Stages
<1>4. candidate[f] \in Sequences
  BY DEF TypeOK
<1>5. step'[f] \in {"open", "header", "remove"} \/ log'[f].status # "disabled"
  BY <1>4, LogStatus DEF TypeOK, OpenLog, OpenFails, CreateFile, NextSequence, NoSequence,
         WriteHeader, HeaderFails, RemoveFile, Configured
<1>. QED  BY <1>1, <1>2, <1>3, <1>5 DEF Asked

\* After any step a filter has the log its settings ask for.
LEMMA StepAsked ==
    ASSUME TypeOK, Stages, Asked, Next
    PROVE  Asked'
<1> USE DEF filterVars, sourceVars
<1>1. ASSUME NEW f \in Filters, NEW s \in Settings, Create(f, s) PROVE Asked'
  <2>1. CASE s.debug
    BY <1>1, <2>1 DEF TypeOK, Asked, Create, ConfigureDebugLog
  <2>2. CASE ~s.debug
    BY <1>1, <2>2, LogStatus DEF TypeOK, Asked, Create, ConfigureDebugLog
  <2>. QED  BY <2>1, <2>2
<1>2. ASSUME NEW f \in Filters, NEW s \in Settings, Update(f, s) PROVE Asked'
  <2>1. CASE DebugChanged(f, s) /\ s.debug
    BY <1>2, <2>1 DEF TypeOK, Asked, Update, ConfigureDebugLog
  <2>2. CASE DebugChanged(f, s) /\ ~s.debug
    BY <1>2, <2>2, LogStatus DEF TypeOK, Asked, Update, ConfigureDebugLog
  <2>3. CASE ~DebugChanged(f, s)
    <3>1. s.debug <=> settings[f].debug
      BY <2>3, Zenon DEF DebugChanged
    <3>. QED  BY <1>2, <2>3, <3>1 DEF TypeOK, Asked, Update
  <2>. QED  BY <2>1, <2>2, <2>3
<1>3. ASSUME NEW f \in Filters, OpenLog(f) PROVE Asked'
  BY <1>3, OpenLogAsked
<1>4. ASSUME NEW f \in Filters, RequestModelSelection(f) PROVE Asked'
  BY <1>4 DEF TypeOK, Asked, RequestModelSelection
<1>5. ASSUME NEW f \in Filters, BuildBridge(f) PROVE Asked'
  BY <1>5 DEF TypeOK, Asked, BuildBridge
<1>6. ASSUME NEW f \in Filters, Destroy(f) PROVE Asked'
  BY <1>6 DEF TypeOK, Asked, Destroy
<1>7. ASSUME NEW f \in Filters, Release(f) PROVE Asked'
  BY <1>7 DEF Asked, Release
<1>8. ASSUME NEW f \in Filters, OpenPropertiesTask(f) PROVE Asked'
  BY <1>8 DEF Asked, OpenPropertiesTask
<1>9. CASE CacheChanges
  BY <1>9 DEF Asked, CacheChanges
<1>. QED
  BY <1>1, <1>2, <1>3, <1>4, <1>5, <1>6, <1>7, <1>8, <1>9 DEF Next, Calls

\* Steps other than those of DebugLog::open() neither take nor finish a file.
Bystander ==
    /\ files' = files
    /\ \A f \in Filters : /\ (AtFile(f))' <=> AtFile(f)
                          /\ AtFile(f) => candidate'[f] = candidate[f]
                          /\ log'[f] \in {log[f], Disabled}

\* Every step but those of opening a log is a bystander's.
LEMMA OtherSteps ==
    ASSUME TypeOK, Stages, Next, \A f \in Filters : ~OpenLog(f)
    PROVE  Bystander
<1> USE DEF filterVars, sourceVars, AtFile
<1>1. ASSUME NEW f \in Filters, NEW s \in Settings, Create(f, s) PROVE Bystander
  <2>1. ~AtFile(f)
    BY <1>1 DEF Stages, Create
  <2>2. CASE s.debug
    BY <1>1, <2>1, <2>2 DEF TypeOK, Create, ConfigureDebugLog, Bystander
  <2>3. CASE ~s.debug
    BY <1>1, <2>1, <2>3 DEF TypeOK, Create, ConfigureDebugLog, Bystander
  <2>. QED  BY <2>2, <2>3
<1>2. ASSUME NEW f \in Filters, NEW s \in Settings, Update(f, s) PROVE Bystander
  <2>1. CASE DebugChanged(f, s) /\ s.debug
    BY <1>2, <2>1 DEF TypeOK, Update, ConfigureDebugLog, Bystander
  <2>2. CASE DebugChanged(f, s) /\ ~s.debug
    BY <1>2, <2>2 DEF TypeOK, Update, ConfigureDebugLog, Bystander
  <2>3. CASE ~DebugChanged(f, s)
    BY <1>2, <2>3 DEF Update, Bystander
  <2>. QED  BY <2>1, <2>2, <2>3
<1>3. ASSUME NEW f \in Filters, RequestModelSelection(f) PROVE Bystander
  BY <1>3 DEF TypeOK, RequestModelSelection, Bystander
<1>4. ASSUME NEW f \in Filters, BuildBridge(f) PROVE Bystander
  BY <1>4 DEF TypeOK, BuildBridge, Bystander
<1>5. ASSUME NEW f \in Filters, Destroy(f) PROVE Bystander
  BY <1>5 DEF TypeOK, Destroy, Bystander
<1>6. ASSUME NEW f \in Filters, Release(f) PROVE Bystander
  BY <1>6 DEF Release, Bystander
<1>7. ASSUME NEW f \in Filters, OpenPropertiesTask(f) PROVE Bystander
  BY <1>7 DEF OpenPropertiesTask, Bystander
<1>8. CASE CacheChanges
  BY <1>8 DEF CacheChanges, Bystander
<1>. QED
  BY <1>1, <1>2, <1>3, <1>4, <1>5, <1>6, <1>7, <1>8 DEF Next, Calls

\* Which leaves files and logs to their owners.
LEMMA BystanderKeeps ==
    ASSUME TypeOK, Owned, Written, Bystander
    PROVE  Owned' /\ Written'
<1>1. Owned'
  <2>1. \A f \in Filters : (AtFile(f))' => files'[candidate'[f]] = "blank"
    BY DEF Owned, Bystander
  <2>2. \A f, g \in Filters :
          f # g /\ (AtFile(f))' /\ (AtFile(g))' => candidate'[f] # candidate'[g]
    BY DEF Owned, Bystander
  <2>. QED  BY <2>1, <2>2 DEF Owned
<1>2. Written'
  BY LogStatus DEF Written, Bystander
<1>. QED  BY <1>1, <1>2

\* DebugLog::open(): a file is taken when there is none, and finished, removed or left by
\* whoever has taken it.
LEMMA OpenLogKeeps ==
    ASSUME TypeOK, Owned, Written, NEW f \in Filters, OpenLog(f)
    PROVE  Owned' /\ Written'
<1>1. \A g \in Filters \ {f} : /\ step'[g] = step[g]
                               /\ log'[g] = log[g]
                               /\ candidate'[g] = candidate[g]
  BY OpenLogIs
<1>2. \A g \in Filters : candidate[g] \in Sequences
  BY DEF TypeOK
<1>3. \A g \in Filters : log[g].status = "ready" => log[g].file \in Sequences
  BY LogStatus DEF TypeOK
<1>4. \A g \in Filters \ {f} : (AtFile(g))' <=> AtFile(g)
  BY <1>1 DEF AtFile
<1>5. ASSUME files' = files, ~AtFile(f), ~(AtFile(f))', log'[f] \in {log[f], Failed}
      PROVE  Owned' /\ Written'
  <2>1. Owned'
    BY <1>1, <1>4, <1>5 DEF Owned
  <2>2. Written'
    BY <1>1, <1>5, LogStatus DEF Written
  <2>. QED  BY <2>1, <2>2
<1>6. CASE OpenFails(f)
  <2>1. files' = files /\ ~AtFile(f) /\ ~(AtFile(f))' /\ log'[f] \in {log[f], Failed}
    BY <1>6 DEF TypeOK, OpenFails, Configured, AtFile
  <2>. QED  BY <1>5, <2>1
<1>7. CASE NextSequence(f)
  <2>1. files' = files /\ ~AtFile(f) /\ ~(AtFile(f))' /\ log'[f] \in {log[f], Failed}
    BY <1>7 DEF TypeOK, NextSequence, AtFile
  <2>. QED  BY <1>5, <2>1
<1>8. CASE NoSequence(f)
  <2>1. files' = files /\ ~AtFile(f) /\ ~(AtFile(f))' /\ log'[f] \in {log[f], Failed}
    BY <1>8 DEF TypeOK, NoSequence, Configured, AtFile
  <2>. QED  BY <1>5, <2>1
<1>9. CASE CreateFile(f)
  <2>1. /\ files[candidate[f]] = "absent" /\ files'[candidate[f]] = "blank"
        /\ \A n \in Sequences \ {candidate[f]} : files'[n] = files[n]
        /\ (AtFile(f))' /\ log'[f] = log[f] /\ candidate'[f] = candidate[f]
    BY <1>9, <1>2 DEF TypeOK, CreateFile, Exclusive, AtFile
  <2>2. Owned'
    BY <1>1, <1>2, <1>4, <2>1 DEF Owned
  <2>3. Written'
    BY <1>1, <1>3, <2>1 DEF Written
  <2>. QED  BY <2>2, <2>3
<1>10. CASE WriteHeader(f)
  <2>1. /\ AtFile(f) /\ ~(AtFile(f))' /\ files[candidate[f]] = "blank"
        /\ files'[candidate[f]] = "headed"
        /\ \A n \in Sequences \ {candidate[f]} : files'[n] = files[n]
        /\ log'[f] = Ready(candidate[f])
    BY <1>10, <1>2 DEF TypeOK, WriteHeader, Configured, AtFile, Owned
  <2>2. Owned'
    BY <1>1, <1>2, <1>4, <2>1 DEF Owned
  <2>3. Written'
    BY <1>1, <1>2, <1>3, <2>1, LogStatus DEF Written
  <2>. QED  BY <2>2, <2>3
<1>11. CASE HeaderFails(f)
  <2>1. files' = files /\ AtFile(f) /\ (AtFile(f))' /\ log'[f] = log[f]
        /\ candidate'[f] = candidate[f]
    BY <1>11 DEF TypeOK, HeaderFails, AtFile
  <2>2. Owned'
    BY <1>1, <1>4, <2>1 DEF Owned
  <2>3. Written'
    BY <1>1, <2>1 DEF Written
  <2>. QED  BY <2>2, <2>3
<1>12. CASE RemoveFile(f)
  <2>1. /\ AtFile(f) /\ ~(AtFile(f))' /\ files[candidate[f]] = "blank"
        /\ files'[candidate[f]] \in {"absent", "blank"}
        /\ \A n \in Sequences \ {candidate[f]} : files'[n] = files[n]
        /\ log'[f] = Failed
    BY <1>12, <1>2 DEF TypeOK, RemoveFile, Configured, AtFile, Owned
  <2>2. Owned'
    BY <1>1, <1>2, <1>4, <2>1 DEF Owned
  <2>3. Written'
    BY <1>1, <1>3, <2>1, LogStatus DEF Written
  <2>. QED  BY <2>2, <2>3
<1>. QED
  BY <1>6, <1>7, <1>8, <1>9, <1>10, <1>11, <1>12 DEF OpenLog

\* References are counted right after any step.
LEMMA StepCounted ==
    ASSUME TypeOK, Stages, Counted, Next
    PROVE  Counted'
<1> USE DEF filterVars, sourceVars
<1>1. ASSUME NEW f \in Filters, NEW s \in Settings, Create(f, s) PROVE Counted'
  BY <1>1 DEF TypeOK, Counted, Create
<1>2. ASSUME NEW f \in Filters, NEW s \in Settings, Update(f, s) PROVE Counted'
  BY <1>2 DEF TypeOK, Counted, Update
<1>3. ASSUME NEW f \in Filters, OpenLog(f) PROVE Counted'
  <2>1. UNCHANGED <<phase, bridge, held, refs, tasks>>
    BY <1>3, OpenLogIs
  <2>. QED  BY <2>1 DEF Counted
<1>4. ASSUME NEW f \in Filters, RequestModelSelection(f) PROVE Counted'
  <2>1. f \notin tasks /\ phase[f] = "creating" /\ phase' = phase
        /\ bridge' = bridge /\ held' = held
    BY <1>4 DEF Stages, RequestModelSelection
  <2>2. CASE UNCHANGED <<tasks, refs>>
    BY <2>1, <2>2 DEF Counted
  <2>3. CASE tasks' = tasks \cup {f} /\ refs' = [refs EXCEPT ![f] = @ + 1]
    BY <2>1, <2>3 DEF TypeOK, Counted
  <2>. QED  BY <1>4, <2>2, <2>3 DEF RequestModelSelection, Retain
<1>5. ASSUME NEW f \in Filters, BuildBridge(f) PROVE Counted'
  <2>1. phase[f] = "creating"
    BY <1>5 DEF Stages, BuildBridge
  <2>. QED  BY <1>5, <2>1 DEF TypeOK, Counted, BuildBridge
<1>6. ASSUME NEW f \in Filters, Destroy(f) PROVE Counted'
  BY <1>6 DEF TypeOK, Counted, Destroy
<1>7. ASSUME NEW f \in Filters, Release(f) PROVE Counted'
  BY <1>7 DEF TypeOK, Counted, Release
<1>8. ASSUME NEW f \in Filters, OpenPropertiesTask(f) PROVE Counted'
  BY <1>8 DEF TypeOK, Counted, OpenPropertiesTask
<1>9. CASE CacheChanges
  BY <1>9 DEF Counted, CacheChanges
<1>. QED
  BY <1>1, <1>2, <1>3, <1>4, <1>5, <1>6, <1>7, <1>8, <1>9 DEF Next, Calls

\* All of this, after any step.
LEMMA StepHostInv == HostInv /\ [Next]_vars => HostInv'
<1> SUFFICES ASSUME HostInv, [Next]_vars PROVE HostInv'
    OBVIOUS
<1> USE DEF HostInv, LogInv
<1>1. CASE Next
  <2>1. Owned' /\ Written'
    <3>1. CASE \E f \in Filters : OpenLog(f)
      BY <3>1, OpenLogKeeps
    <3>2. CASE \A f \in Filters : ~OpenLog(f)
      BY <1>1, <3>2, OtherSteps, BystanderKeeps
    <3>. QED  BY <3>1, <3>2
  <2>. QED  BY <1>1, <2>1, StepType, StepStages, StepAsked, StepCounted
<1>2. CASE UNCHANGED vars
  <2>1. TypeOK'
    BY <1>2 DEF vars, filterVars, sourceVars, TypeOK
  <2>2. Stages' /\ Counted'
    BY <1>2 DEF vars, filterVars, sourceVars, Stages, Counted
  <2>3. Asked' /\ Owned' /\ Written'
    BY <1>2 DEF vars, filterVars, sourceVars, Asked, Owned, AtFile, Written
  <2>. QED  BY <2>1, <2>2, <2>3
<1>. QED  BY <1>1, <1>2

\* And so always: the functions the plugin exports keep it.
THEOREM HostInvariant == Spec => []HostInv
BY InitHostInv, StepHostInv, PTL DEF Spec

-----------------------------------------------------------------------------
\* What the module's functions leave behind is of the types of TypeOK, whatever the calls
\* of different filters come in between (obs_module.cpp).
THEOREM HostTypeCorrect == Spec => []TypeOK
<1>1. HostInv => TypeOK
  BY DEF HostInv, LogInv
<1>. QED  BY <1>1, HostInvariant, PTL

\* LogsAreExclusive for any number of filters that open logs at once and of files: two
\* filters never share a log, and no attempt writes to or removes a file of somebody else's,
\* be it that files cannot be written or cannot be removed (DebugLog::open()).
THEOREM LogsExclude == Spec => []LogsAreExclusive
<1>1. HostInv => LogsAreExclusive
  <2> SUFFICES ASSUME HostInv PROVE LogsAreExclusive
      OBVIOUS
  <2> USE DEF HostInv, LogInv
  <2>1. \A f \in Filters : AtFile(f) =>
          /\ files[candidate[f]] = "blank"
          /\ \A g \in Filters \ {f} : AtFile(g) => candidate[g] # candidate[f]
    BY DEF Owned, AtFile
  <2>2. \A f \in Filters : phase[f] = "live" /\ step[f] = "idle"
          => (settings[f].debug <=> log[f].status # "disabled")
    BY DEF Asked
  <2>3. Written
    OBVIOUS
  <2>. QED  BY <2>1, <2>2, <2>3 DEF LogsAreExclusive, Written
<1>. QED  BY <1>1, HostInvariant, PTL

\* PromptsHoldTheirSource for any filters: the task that asks for a model never finds its
\* source gone (request_model_selection()).
THEOREM PromptsKeepSources == Spec => []PromptsHoldTheirSource
<1>1. HostInv => PromptsHoldTheirSource
  BY DEF HostInv, LogInv, Counted, Stages, Asked, PromptsHoldTheirSource
<1>. QED  BY <1>1, HostInvariant, PTL

-----------------------------------------------------------------------------
(* The choice of a runtime. *)

\* What a probe leaves behind is evidence like any other.
LEMMA ProbeGivesEvidence ==
    ASSUME NEW probe \in Probes, NEW platform \in Platforms
    PROVE  ProbeBackendCapabilities(probe, platform) \in EvidenceType
<1> DEFINE found(b) == IF probe[b] = "throws" THEN "unavailable" ELSE probe[b]
           none == [b \in Backends |-> IF b = "cpu" THEN "available" ELSE "not_probed"]
           details == IF probe = <<>> THEN none ELSE [b \in Backends |-> found(b)]
           result == [flags |-> {b \in Backends : details[b] = "available"},
                      details |-> details, platform |-> platform]
<1>1. details \in [Backends -> ProbeStatus]
  <2>1. none \in [Backends -> ProbeStatus]
    BY DEF ProbeStatus
  <2>2. probe # <<>> => probe \in [Backends -> ProbeStatus \cup {"throws"}]
    BY DEF Probes
  <2>3. probe # <<>> => \A b \in Backends : found(b) \in ProbeStatus
    BY <2>2 DEF ProbeStatus
  <2> HIDE DEF found, none
  <2> QED BY <2>1, <2>3
<1>2. [Backends -> ProbeStatus] \subseteq Details
  BY DEF Details
<1> HIDE DEF details
<1>3. result \in EvidenceType
  BY <1>1, <1>2 DEF EvidenceType
<1>4. DenyCuda(result) \in EvidenceType
  <2> DEFINE denied == [b \in Backends |-> IF b = "cuda" THEN "unavailable" ELSE details[b]]
  <2>1. DOMAIN details = Backends
    BY <1>1
  <2>2. denied \in [Backends -> ProbeStatus]
    BY <1>1 DEF ProbeStatus
  <2> DEFINE overruled == [b \in DOMAIN result.details |->
                              IF b = "cuda" THEN "unavailable" ELSE result.details[b]]
             flags == result.flags \ {"cuda"}
  <2>3. overruled = denied
    <3>1. result.details = details
      OBVIOUS
    <3> HIDE DEF result
    <3> QED BY <2>1, <3>1
  <2>4. overruled \in Details /\ flags \in SUBSET Backends
    BY <1>3, <2>2, <2>3, <1>2 DEF EvidenceType
  <2>5. DenyCuda(result) = IF PlatformAllowsCuda(result.platform) THEN result
                           ELSE [result EXCEPT !.flags = flags, !.details = overruled]
    BY Zenon DEF DenyCuda
  <2> HIDE DEF overruled, flags, result
  <2> QED BY <1>3, <2>4, <2>5 DEF EvidenceType
<1>5. ProbeBackendCapabilities(probe, platform) = IF probe = <<>> THEN result ELSE DenyCuda(result)
  BY Zenon DEF ProbeBackendCapabilities, details
<1> QED BY <1>3, <1>4, <1>5, Zenon

\* Whatever flags and details say together, the selector takes the backends for which there
\* is evidence.
LEMMA EffectiveIsSupported ==
    ASSUME NEW e \in EvidenceType
    PROVE  Effective(e).flags = Supported(e)
<1> DEFINE flags == {b \in Backends : IF b \in DOMAIN e.details
                                      THEN e.details[b] = "available" ELSE b \in e.flags}
           merged == [e EXCEPT !.flags = flags]
<1>1. e.platform \in Platforms
  BY DEF EvidenceType
<1>2. merged.platform = e.platform /\ merged.flags = flags
  BY DEF EvidenceType
<1>3. Effective(e) = DenyCuda(merged)
  BY Zenon DEF Effective
<1>4. merged \in [flags : SUBSET Backends, details : Details, platform : Platforms]
  BY DEF EvidenceType
<1> HIDE DEF merged
<1>5. DenyCuda(merged).flags
        = IF PlatformAllowsCuda(e.platform) THEN flags ELSE flags \ {"cuda"}
  BY <1>2, <1>4 DEF DenyCuda
<1>6. PlatformAllowsCuda(e.platform) <=> e.platform # "macOS arm64"
  BY <1>1 DEF PlatformAllowsCuda, Platforms
<1>7. Supported(e) = {b \in flags : b = "cuda" => e.platform # "macOS arm64"}
  BY DEF Supported
<1> HIDE DEF flags
<1> QED BY <1>3, <1>5, <1>6, <1>7

\* The rule of selection: the requested backend if there is evidence for it.
LEMMA SelectionIsSupported ==
    ASSUME NEW requested \in {"auto"} \cup Backends, NEW e \in EvidenceType
    PROVE  LET s == SelectBackendWithProbe(requested, e)
           IN  /\ s.selected \in Backends
               /\ s.available <=> s.selected \in Supported(e)
               /\ Supported(e) # {} => s.available
               /\ requested \in Supported(e) => s.selected = requested
               /\ s.selected = "cuda" /\ s.available
                    => requested \in {"cuda", "auto"} \/ "cpu" \notin Supported(e)
<1> DEFINE there == Supported(e)
<1>1. Effective(e).flags = there
  BY EffectiveIsSupported
<1>2. there \subseteq Backends
  BY DEF Supported
<1> HIDE DEF there
<1>3. "auto" \notin there /\ requested \in {"auto", "cpu", "cuda"} /\ Backends = {"cpu", "cuda"}
  BY <1>2 DEF Backends
<1>4. SelectBackendWithProbe(requested, e)
        = IF requested = "auto"
          THEN IF "cuda" \in there
               THEN [selected |-> "cuda", available |-> "cuda" \in there, fallback |-> FALSE]
               ELSE [selected |-> "cpu", available |-> "cpu" \in there,
                     fallback |-> "cpu" \notin there]
          ELSE IF requested \in there
          THEN [selected |-> requested, available |-> requested \in there, fallback |-> FALSE]
          ELSE IF "cpu" \notin there /\ "cuda" \in there
          THEN [selected |-> "cuda", available |-> "cuda" \in there, fallback |-> TRUE]
          ELSE [selected |-> "cpu", available |-> "cpu" \in there, fallback |-> TRUE]
  BY <1>1 DEF SelectBackendWithProbe
<1> DEFINE s == SelectBackendWithProbe(requested, e)
<1>5. s.selected = IF requested = "auto" THEN IF "cuda" \in there THEN "cuda" ELSE "cpu"
                   ELSE IF requested \in there THEN requested
                   ELSE IF "cpu" \notin there /\ "cuda" \in there THEN "cuda" ELSE "cpu"
  BY <1>4
<1>6. s.available = (s.selected \in there)
  BY <1>4, <1>5
<1> HIDE DEF s
<1>7. /\ s.selected \in Backends
      /\ s.available <=> s.selected \in there
      /\ there # {} => s.available
      /\ requested \in there => s.selected = requested
      /\ s.selected = "cuda" /\ s.available
           => requested \in {"cuda", "auto"} \/ "cpu" \notin there
  BY <1>2, <1>3, <1>5, <1>6
<1> QED BY <1>7 DEF s, there

\* What create() answers to one request.
Served(r, there) ==
    /\ r.model # "huge" /\ r.language \notin {"", "en us"}
    /\ r.model = "tiny.en" => r.language = "en-GB"
    /\ there # {}

\* The factory makes the runtime that is asked for, or a safe one, or says why not.
LEMMA CreatedAsRequested ==
    ASSUME NEW r \in [backend : {"auto"} \cup Backends, model : ModelIds,
                      language : Languages],
           NEW e \in EvidenceType, NEW adapter \in Adapters
    PROVE  LET made == CreateRuntime(r, e, adapter)
               there == Supported(e)
           IN  /\ made.status = "ready" <=> made.runtime # {}
               /\ made.status = "ready" <=> adapter = "ready" /\ Served(r, there)
               /\ \A m \in made.runtime :
                    /\ m.backend \in there
                    /\ r.backend \in there => m.backend = r.backend
                    /\ m.backend = "cuda"
                         => r.backend \in {"cuda", "auto"} \/ "cpu" \notin there
                    /\ m.model = r.model
                    /\ m.model = "tiny.en" => m.language = "en"
<1> DEFINE there == Supported(e)
           s == SelectBackendWithProbe(r.backend, e)
           found == [id |-> r.model, englishOnly |-> r.model = "tiny.en"]
           result == CreateRuntime(r, e, adapter)
<1>1. r.backend \in {"auto"} \cup Backends /\ r.model \in ModelIds /\ r.language \in Languages
  OBVIOUS
<1>2. /\ s.available <=> s.selected \in there
      /\ there # {} => s.available
      /\ r.backend \in there => s.selected = r.backend
      /\ s.selected = "cuda" /\ s.available
           => r.backend \in {"cuda", "auto"} \/ "cpu" \notin there
  BY <1>1, SelectionIsSupported, Zenon
<1>3. CatalogFind(r.model) = IF r.model = "huge" THEN {} ELSE {found}
  BY <1>1 DEF CatalogFind, ModelIds
<1>4. r.model # "huge" => (CHOOSE m \in CatalogFind(r.model) : TRUE) = found
  BY <1>3
<1>5. AdapterStatus(adapter) = "ready" <=> adapter = "ready"
  BY DEF AdapterStatus, Adapters
<1> DEFINE runtime == [model |-> r.model, backend |-> s.selected,
                       language |-> NormalizedLanguage(found, r.language)]
           accepted == ValidateLanguagePolicy(found, r.language) = "accepted"
<1>6. result = IF r.model = "huge" THEN [status |-> "error", runtime |-> {}]
               ELSE IF ~accepted THEN [status |-> "error", runtime |-> {}]
               ELSE IF ~s.available THEN [status |-> "unavailable", runtime |-> {}]
               ELSE [status |-> AdapterStatus(adapter),
                     runtime |-> IF adapter # "ready" THEN {} ELSE {runtime}]
  <2>1. found.id = r.model
    OBVIOUS
  <2>2. CASE r.model = "huge"
    BY <1>3, <2>2, Zenon DEF CreateRuntime
  <2>3. CASE r.model # "huge"
    <3>1. CatalogFind(r.model) # {}
      BY <1>3, <2>3
    <3> HIDE DEF found
    <3> QED BY <1>4, <2>1, <2>3, <3>1, Zenon DEF CreateRuntime
  <2> QED BY <2>2, <2>3
<1>7. accepted <=> /\ r.language \notin {"", "en us"}
                   /\ r.model = "tiny.en" => r.language = "en-GB"
  BY DEF ValidateLanguagePolicy, IsEnglishLanguage
<1>8. accepted /\ r.model = "tiny.en" => NormalizedLanguage(found, r.language) = "en"
  BY <1>7 DEF NormalizedLanguage
<1>9. s.available <=> there # {}
  BY <1>2
<1> DEFINE good == r.model # "huge" /\ accepted /\ s.available /\ adapter = "ready"
<1>10. good <=> adapter = "ready" /\ Served(r, there)
  BY <1>7, <1>9 DEF Served
<1> HIDE DEF there, s, accepted, result, found
<1>11. CASE good
  <2>1. result.status = "ready" /\ result.runtime = {runtime}
    BY <1>5, <1>6, <1>11
  <2>2. runtime.backend = s.selected /\ runtime.model = r.model
        /\ runtime.language = NormalizedLanguage(found, r.language)
    OBVIOUS
  <2>3. r.model = "tiny.en" => runtime.language = "en"
    BY <1>8, <1>11, <2>2
  <2> HIDE DEF runtime
  <2>4. \A m \in result.runtime :
             /\ m.backend \in there
             /\ r.backend \in there => m.backend = r.backend
             /\ m.backend = "cuda"
                  => r.backend \in {"cuda", "auto"} \/ "cpu" \notin there
             /\ m.model = r.model
             /\ m.model = "tiny.en" => m.language = "en"
    BY <1>2, <1>11, <2>1, <2>2, <2>3
  <2> HIDE DEF good
  <2> QED BY <1>10, <1>11, <2>1, <2>4, Zenon DEF there, result
<1>12. CASE ~good
  <2>1. result.runtime = {} /\ result.status # "ready"
    BY <1>5, <1>6, <1>12
  <2> HIDE DEF good
  <2> QED BY <1>10, <1>12, <2>1, Zenon DEF there, result
<1> QED BY <1>11, <1>12

\* RuntimeIsAsRequested, for any requests and any evidence: hand-made probe results in which
\* flags, details and platform contradict each other, and each outcome of the probes.
THEOREM RuntimesAreAsRequested == ChoiceSpec => []RuntimeIsAsRequested
<1>1. ChoiceInit => RuntimeIsAsRequested
  <2>1. ChoiceInit => ~choice.made
    BY DEF ChoiceInit
  <2> QED BY <2>1, Zenon DEF RuntimeIsAsRequested
<1>2. ASSUME NEW r \in Requests, NEW e \in EvidenceType, NEW adapter \in Adapters,
             Request(r, e, adapter)
      PROVE  RuntimeIsAsRequested'
  <2>1. r \in [backend : {"auto"} \cup Backends, model : ModelIds, language : Languages]
    BY RequestsAssumption
  <2>2. /\ choice'.request = r /\ choice'.evidence = e /\ choice'.adapter = adapter
        /\ choice'.result = CreateRuntime(r, e, adapter)
    BY <1>2 DEF Request
  <2> DEFINE made == CreateRuntime(r, e, adapter)
             there == Supported(e)
  <2>3. /\ made.status = "ready" <=> made.runtime # {}
        /\ made.status = "ready" <=> adapter = "ready" /\ Served(r, there)
        /\ \A m \in made.runtime :
             /\ m.backend \in there
             /\ r.backend \in there => m.backend = r.backend
             /\ m.backend = "cuda"
                  => r.backend \in {"cuda", "auto"} \/ "cpu" \notin there
             /\ m.model = r.model
             /\ m.model = "tiny.en" => m.language = "en"
    BY <2>1, CreatedAsRequested
  <2> QED BY <2>2, <2>3, Zenon DEF RuntimeIsAsRequested, Served
<1>3. RuntimeIsAsRequested /\ [ChoiceNext]_choice => RuntimeIsAsRequested'
  <2> SUFFICES ASSUME RuntimeIsAsRequested, [ChoiceNext]_choice PROVE RuntimeIsAsRequested'
    OBVIOUS
  <2>1. CASE UNCHANGED choice
    BY <2>1 DEF RuntimeIsAsRequested
  <2>2. ASSUME NEW e \in Evidence, NEW r \in Requests, NEW adapter \in Adapters,
               Request(r, e, adapter)
        PROVE  RuntimeIsAsRequested'
    BY <1>2, <2>2, EvidenceAssumption
  <2>3. ASSUME NEW p \in Probes, NEW platform \in Platforms, NEW r \in Requests,
               NEW adapter \in Adapters,
               Request(r, ProbeBackendCapabilities(p, platform), adapter)
        PROVE  RuntimeIsAsRequested'
    BY <1>2, <2>3, ProbeGivesEvidence
  <2> QED BY <2>1, <2>2, <2>3 DEF ChoiceNext
<1> QED BY <1>1, <1>3, PTL DEF ChoiceSpec

-----------------------------------------------------------------------------
(* The order of versions. *)

\* Sequences compared at the first place where they differ, a shorter one being before those
\* that go on; R is a strict order of their elements.
StrictOn(R, E) ==
    /\ \A x \in E : <<x, x>> \notin R
    /\ \A x, y, z \in E : <<x, y>> \in R /\ <<y, z>> \in R => <<x, z>> \in R

Before(R, s, t) == \E k \in Divergence(s, t) : k \in DOMAIN s => <<s[k], t[k]>> \in R

\* Comparing at the first difference is a strict order if that of the elements is.
LEMMA BeforeIsStrict ==
    ASSUME NEW E, NEW R, StrictOn(R, E)
    PROVE  /\ \A s \in Seq(E) : ~Before(R, s, s)
           /\ \A s, t, u \in Seq(E) : Before(R, s, t) /\ Before(R, t, u) => Before(R, s, u)
<1>1. ASSUME NEW s \in Seq(E) PROVE ~Before(R, s, s)
  BY DEF Before, Divergence
<1>2. ASSUME NEW s \in Seq(E), NEW t \in Seq(E), NEW u \in Seq(E),
             Before(R, s, t), Before(R, t, u)
      PROVE  Before(R, s, u)
  <2>1. PICK k \in Divergence(s, t) : k \in DOMAIN s => <<s[k], t[k]>> \in R
    BY <1>2 DEF Before
  <2>2. PICK l \in Divergence(t, u) : l \in DOMAIN t => <<t[l], u[l]>> \in R
    BY <1>2 DEF Before
  <2>3. /\ DOMAIN s = 1 .. Len(s) /\ DOMAIN t = 1 .. Len(t) /\ DOMAIN u = 1 .. Len(u)
        /\ Len(s) \in Nat /\ Len(t) \in Nat /\ Len(u) \in Nat
        /\ \A i \in 1 .. Len(s) : s[i] \in E
        /\ \A i \in 1 .. Len(t) : t[i] \in E
        /\ \A i \in 1 .. Len(u) : u[i] \in E
    BY LenProperties, ElementOfSeq
  <2>4. /\ k \in DOMAIN t /\ (k \in DOMAIN s => s[k] # t[k])
        /\ \A i \in 1 .. k - 1 : i \in DOMAIN s /\ s[i] = t[i]
    BY <2>1 DEF Divergence
  <2>5. /\ l \in DOMAIN u /\ (l \in DOMAIN t => t[l] # u[l])
        /\ \A i \in 1 .. l - 1 : i \in DOMAIN t /\ t[i] = u[i]
    BY <2>2 DEF Divergence
  <2>6. k \in Nat /\ l \in Nat /\ 1 <= k /\ 1 <= l /\ k <= Len(t) /\ l <= Len(u)
    BY <2>3, <2>4, <2>5
  <2>7. ASSUME k < l PROVE Before(R, s, u)
    <3>1. k \in 1 .. l - 1
      BY <2>6, <2>7
    <3>2. t[k] = u[k] /\ k \in DOMAIN u
      BY <2>3, <2>5, <2>6, <2>7, <3>1
    <3>3. \A i \in 1 .. k - 1 : i \in 1 .. l - 1
      BY <2>6, <2>7
    <3>4. \A i \in 1 .. k - 1 : i \in DOMAIN s /\ s[i] = u[i]
      BY <2>4, <2>5, <3>3
    <3>5. k \in Divergence(s, u)
      BY <2>4, <3>2, <3>4 DEF Divergence
    <3> QED BY <2>1, <3>2, <3>5 DEF Before
  <2>8. ASSUME k = l PROVE Before(R, s, u)
    <3>1. <<t[k], u[k]>> \in R /\ t[k] \in E /\ u[k] \in E
      BY <2>2, <2>3, <2>4, <2>5, <2>8
    <3>2. k \in DOMAIN s => s[k] \in E /\ <<s[k], t[k]>> \in R
      BY <2>1, <2>3
    <3>3. k \in DOMAIN s => <<s[k], u[k]>> \in R /\ s[k] # u[k]
      BY <3>1, <3>2 DEF StrictOn
    <3>4. \A i \in 1 .. k - 1 : i \in DOMAIN s /\ s[i] = u[i]
      BY <2>4, <2>5, <2>8
    <3>5. k \in Divergence(s, u)
      BY <2>5, <2>8, <3>3, <3>4 DEF Divergence
    <3> QED BY <3>3, <3>5 DEF Before
  <2>9. ASSUME l < k PROVE Before(R, s, u)
    <3>1. l \in 1 .. k - 1 /\ l \in DOMAIN t
      BY <2>3, <2>6, <2>9
    <3>2. l \in DOMAIN s /\ s[l] = t[l]
      BY <2>4, <3>1
    <3>3. \A i \in 1 .. l - 1 : i \in 1 .. k - 1
      BY <2>6, <2>9
    <3>4. \A i \in 1 .. l - 1 : i \in DOMAIN s /\ s[i] = u[i]
      BY <2>4, <2>5, <3>3
    <3>5. s[l] # u[l] /\ <<s[l], u[l]>> \in R
      BY <2>2, <2>5, <3>1, <3>2
    <3>6. l \in Divergence(s, u)
      BY <2>5, <3>4, <3>5 DEF Divergence
    <3> QED BY <3>5, <3>6 DEF Before
  <2> QED BY <2>6, <2>7, <2>8, <2>9
<1> QED BY <1>1, <1>2

Identifiers == [numeric : BOOLEAN, number : Nat, text : Seq(ToSet(Alphabet))]
Versions == [core : [1 .. 3 -> Nat], prerelease : Seq(Identifiers)]

\* So texts are ordered strictly.
LEMMA TextOrder ==
    /\ \A s \in Seq(ToSet(Alphabet)) : ~TextBefore(s, s)
    /\ \A s, t, u \in Seq(ToSet(Alphabet)) :
         TextBefore(s, t) /\ TextBefore(t, u) => TextBefore(s, u)
<1> DEFINE code(c) == CHOOSE i \in DOMAIN Alphabet : Alphabet[i] = c
           E == ToSet(Alphabet)
           R == {p \in E \X E : code(p[1]) < code(p[2])}
<1>1. \A c \in E : code(c) \in 1 .. 8
  <2>1. DOMAIN Alphabet = 1 .. 8
    BY DEF Alphabet
  <2> QED BY <2>1 DEF ToSet
<1> HIDE DEF code
<1>2. StrictOn(R, E)
  <2>1. \A x, y \in E : <<x, y>> \in R <=> code(x) < code(y)
    OBVIOUS
  <2> HIDE DEF R, E
  <2> QED BY <1>1, <2>1 DEF StrictOn
<1>3. ASSUME NEW s \in Seq(E), NEW t \in Seq(E) PROVE TextBefore(s, t) <=> Before(R, s, t)
  <2>1. ASSUME NEW k \in Divergence(s, t), k \in DOMAIN s
        PROVE  <<s[k], t[k]>> \in R <=> code(s[k]) < code(t[k])
    <3>1. k \in DOMAIN t
      BY DEF Divergence
    <3>2. s[k] \in E /\ t[k] \in E
      BY <2>1, <3>1, ElementOfSeq, LenProperties
    <3> QED BY <3>2
  <2>2. TextBefore(s, t) <=> \E k \in Divergence(s, t) : k \in DOMAIN s => code(s[k]) < code(t[k])
    BY Zenon DEF TextBefore, code
  <2> HIDE DEF R, E
  <2> QED BY <2>1, <2>2, Zenon DEF Before
<1> HIDE DEF R
<1> QED BY <1>2, <1>3, BeforeIsStrict

\* Identifiers, too: numbers before texts.
LEMMA IdentifierOrder ==
    /\ \A i \in Identifiers : ~IdentifierBefore(i, i)
    /\ \A i, j, k \in Identifiers :
         IdentifierBefore(i, j) /\ IdentifierBefore(j, k) => IdentifierBefore(i, k)
<1>1. ASSUME NEW i \in Identifiers, NEW j \in Identifiers
      PROVE  /\ i.number \in Nat /\ j.number \in Nat
             /\ i.text \in Seq(ToSet(Alphabet)) /\ j.text \in Seq(ToSet(Alphabet))
             /\ i.numeric \in BOOLEAN /\ j.numeric \in BOOLEAN
             /\ IdentifierBefore(i, j)
                  <=> \/ i.numeric /\ j.numeric /\ i.number < j.number
                      \/ i.numeric /\ ~j.numeric
                      \/ ~i.numeric /\ ~j.numeric /\ TextBefore(i.text, j.text)
  <2>1. /\ i.number \in Nat /\ j.number \in Nat
        /\ i.text \in Seq(ToSet(Alphabet)) /\ j.text \in Seq(ToSet(Alphabet))
        /\ i.numeric \in BOOLEAN /\ j.numeric \in BOOLEAN
    BY Zenon DEF Identifiers
  <2> QED BY <2>1, Zenon DEF IdentifierBefore
<1>2. ASSUME NEW i \in Identifiers PROVE ~IdentifierBefore(i, i)
  <2>1. ~(i.number < i.number)
    BY <1>1
  <2> QED BY <1>1, <2>1, TextOrder, Zenon
<1>3. ASSUME NEW i \in Identifiers, NEW j \in Identifiers, NEW k \in Identifiers,
             IdentifierBefore(i, j), IdentifierBefore(j, k)
      PROVE  IdentifierBefore(i, k)
  <2>1. i.number < j.number /\ j.number < k.number => i.number < k.number
    BY <1>1
  <2> QED BY <1>1, <1>3, <2>1, TextOrder, Zenon
<1> QED BY <1>2, <1>3, Zenon

\* And the three numbers.
LEMMA CoreOrder ==
    /\ \A m \in [1 .. 3 -> Nat] : ~CoreBefore(m, m)
    /\ \A m, n, o \in [1 .. 3 -> Nat] :
         CoreBefore(m, n) /\ CoreBefore(n, o) => CoreBefore(m, o)
<1> DEFINE R == {p \in Nat \X Nat : p[1] < p[2]}
<1>1. StrictOn(R, Nat)
  <2>1. \A x, y \in Nat : <<x, y>> \in R <=> x < y
    OBVIOUS
  <2> HIDE DEF R
  <2> QED BY <2>1 DEF StrictOn
<1>2. ASSUME NEW m \in [1 .. 3 -> Nat], NEW n \in [1 .. 3 -> Nat]
      PROVE  CoreBefore(m, n) <=> Before(R, m, n)
  BY DEF CoreBefore, Before, Divergence
<1>3. [1 .. 3 -> Nat] \subseteq Seq(Nat)
  BY SeqDef
<1> HIDE DEF R
<1> QED BY <1>1, <1>2, <1>3, BeforeIsStrict

\* And lists of identifiers; a version without any comes last.
LEMMA PrereleaseOrder ==
    /\ \A p \in Seq(Identifiers) : ~PrereleaseBefore(p, p)
    /\ \A p, q, r \in Seq(Identifiers) :
         PrereleaseBefore(p, q) /\ PrereleaseBefore(q, r) => PrereleaseBefore(p, r)
<1> DEFINE R == {p \in Identifiers \X Identifiers : IdentifierBefore(p[1], p[2])}
<1>1. StrictOn(R, Identifiers)
  <2>1. \A x, y \in Identifiers : <<x, y>> \in R <=> IdentifierBefore(x, y)
    OBVIOUS
  <2> HIDE DEF R
  <2> QED BY <2>1, IdentifierOrder, Zenon DEF StrictOn
<1>2. ASSUME NEW p \in Seq(Identifiers), NEW q \in Seq(Identifiers)
      PROVE  PrereleaseBefore(p, q) <=> Before(R, p, q)
  <2>1. ASSUME NEW k \in Divergence(p, q), k \in DOMAIN p
        PROVE  <<p[k], q[k]>> \in R <=> IdentifierBefore(p[k], q[k])
    <3>1. k \in DOMAIN q
      BY DEF Divergence
    <3>2. p[k] \in Identifiers /\ q[k] \in Identifiers
      BY <2>1, <3>1, ElementOfSeq, LenProperties
    <3> QED BY <3>2
  <2> HIDE DEF R
  <2> QED BY <2>1, Zenon DEF PrereleaseBefore, Before
<1> HIDE DEF R
<1> QED BY <1>1, <1>2, BeforeIsStrict

\* compare_versions() is a strict order: nothing is older than itself, and what is older than
\* something older is older, pre-releases of any number of identifiers included.  So who
\* follows the offers never comes back to a version.
THEOREM OlderIsAStrictOrder ==
    /\ \A v \in Versions : ~Older(v, v)
    /\ \A u, v, w \in Versions : Older(u, v) /\ Older(v, w) => Older(u, w)
<1>1. \A v \in Versions : v.core \in [1 .. 3 -> Nat] /\ v.prerelease \in Seq(Identifiers)
  BY DEF Versions
<1>2. \A v \in Versions : ~Older(v, v)
  BY <1>1, CoreOrder, PrereleaseOrder, Zenon DEF Older
<1>3. ASSUME NEW u \in Versions, NEW v \in Versions, NEW w \in Versions,
             Older(u, v), Older(v, w)
      PROVE  Older(u, w)
  <2>1. CASE CoreBefore(u.core, v.core)
    <3>1. CoreBefore(v.core, w.core) \/ v.core = w.core
      BY <1>3, Zenon DEF Older
    <3>2. CoreBefore(u.core, w.core)
      BY <1>1, <2>1, <3>1, CoreOrder, Zenon
    <3> QED BY <3>2, Zenon DEF Older
  <2>2. CASE ~CoreBefore(u.core, v.core)
    <3>1. u.core = v.core /\ u.prerelease # <<>>
          /\ (v.prerelease = <<>> \/ PrereleaseBefore(u.prerelease, v.prerelease))
      BY <1>3, <2>2, Zenon DEF Older
    <3>2. CASE CoreBefore(v.core, w.core)
      BY <3>1, <3>2, Zenon DEF Older
    <3>3. CASE ~CoreBefore(v.core, w.core)
      <4>1. v.core = w.core /\ v.prerelease # <<>>
            /\ (w.prerelease = <<>> \/ PrereleaseBefore(v.prerelease, w.prerelease))
        BY <1>3, <3>3, Zenon DEF Older
      <4>2. w.prerelease = <<>> \/ PrereleaseBefore(u.prerelease, w.prerelease)
        BY <1>1, <3>1, <4>1, PrereleaseOrder, Zenon
      <4> QED BY <3>1, <4>1, <4>2, Zenon DEF Older
    <3> QED BY <3>2, <3>3
  <2> QED BY <2>1, <2>2
<1> QED BY <1>2, <1>3, Zenon

NumberStep(base, n, c) == base * n + DigitValue[c]
Digits == INSTANCE FoldFacts WITH Step <- NumberStep, Base <- 0

DotStep(dot, parts, c) ==
    IF c = dot THEN Append(parts, <<>>)
    ELSE [parts EXCEPT ![Len(parts)] = Append(@, c)]
Dots == INSTANCE FoldFacts WITH Step <- DotStep, Base <- <<(<<>>)>>

\* What is read as a number is one, however many digits it has.
LEMMA NumbersAreNatural ==
    ASSUME NEW text \in Seq(DOMAIN DigitValue)
    PROVE  NumberValue(text) \in Nat
<1> DEFINE D == DOMAIN DigitValue
           P == {s \in Seq(D) : Digits!Fold(10, s) \in Nat}
<1>1. \A d \in D : DigitValue[d] \in Nat
  BY DEF DigitValue
<1> HIDE DEF D
<1>2. <<>> \in P
  <2>1. <<>> \in Seq(D)
    BY EmptySeq
  <2> QED BY <2>1, Digits!FoldEmpty
<1>3. ASSUME NEW s \in Seq(D), NEW d \in D, s \in P PROVE Append(s, d) \in P
  <2>1. Digits!Fold(10, Append(s, d)) = NumberStep(10, Digits!Fold(10, s), d)
    BY Digits!FoldAppend
  <2>2. NumberStep(10, Digits!Fold(10, s), d) \in Nat
    <3>1. Digits!Fold(10, s) \in Nat /\ DigitValue[d] \in Nat
      BY <1>1, <1>3
    <3> QED BY <3>1 DEF NumberStep
  <2>3. Append(s, d) \in Seq(D)
    BY AppendProperties
  <2> QED BY <2>1, <2>2, <2>3
<1> HIDE DEF P
<1>4. Seq(D) \subseteq P
  BY <1>2, <1>3, Digits!SequenceInduction
<1>5. Digits!Fold(10, text) \in Nat
  BY <1>4 DEF P, D
<1>6. NumberValue(text) = Digits!Fold(10, text)
  BY Zenon DEF NumberValue, FoldLeft, MapThenFoldSet, Max, NumberStep, Digits!Fold,
     Digits!FoldLeft, Digits!MapThenFoldSet, Digits!Max
<1> QED BY <1>5, <1>6

\* Digits are a natural number.
LEMMA IsNumberIsNatural ==
    ASSUME NEW C, NEW text \in Seq(C), IsNumber(text)
    PROVE  NumberValue(text) \in Nat
<1>1. \A i \in 1 .. Len(text) : text[i] \in DOMAIN DigitValue
  BY LenProperties DEF IsNumber, ToSet, IsDigit
<1>2. text \in [1 .. Len(text) -> DOMAIN DigitValue] /\ Len(text) \in Nat
  BY <1>1, LenProperties
<1>3. text \in Seq(DOMAIN DigitValue)
  BY <1>2, SeqDef
<1> QED BY <1>3, NumbersAreNatural

\* The parts between dots are made of the text's other characters, and there is one.
LEMMA PartsOfText ==
    ASSUME NEW C, NEW text \in Seq(C)
    PROVE  SplitAtDots(text) \in Seq(Seq(C \ {"."}))
<1> DEFINE T == Seq(Seq(C \ {"."})) \ {<<>>}
           P == {s \in Seq(C) : Dots!Fold(".", s) \in T}
<1>1. <<>> \in P
  <2>1. <<>> \in Seq(C) /\ <<>> \in Seq(C \ {"."})
    BY EmptySeq
  <2>2. <<(<<>>)>> \in Seq(Seq(C \ {"."})) /\ <<(<<>>)>> # <<>>
    <3>1. \A S : \A e \in S : <<e>> \in Seq(S) /\ <<e>> # <<>>
      OBVIOUS
    <3> QED BY <2>1, <3>1
  <2> QED BY <2>1, <2>2, Dots!FoldEmpty
<1>2. ASSUME NEW s \in Seq(C), NEW c \in C, s \in P PROVE Append(s, c) \in P
  <2> DEFINE parts == Dots!Fold(".", s)
             n == Len(parts)
  <2>1. Dots!Fold(".", Append(s, c)) = DotStep(".", parts, c)
    BY Dots!FoldAppend
  <2>2. parts \in Seq(Seq(C \ {"."})) /\ parts # <<>>
    BY <1>2
  <2> HIDE DEF T, parts
  <2>3. n \in Nat \ {0} /\ n \in 1 .. n
    BY <2>2, EmptySeq
  <2>4. CASE c = "."
    <3>1. <<>> \in Seq(C \ {"."})
      BY EmptySeq
    <3>2. Append(parts, <<>>) \in T
      BY <2>2, <3>1, AppendProperties DEF T
    <3> QED BY <2>1, <2>4, <3>2, AppendProperties DEF DotStep
  <2>5. CASE c # "."
    <3>1. parts[n] \in Seq(C \ {"."})
      BY <2>2, <2>3, ElementOfSeq
    <3>2. Append(parts[n], c) \in Seq(C \ {"."})
      BY <2>5, <3>1, AppendProperties
    <3>3. [parts EXCEPT ![n] = Append(parts[n], c)] \in Seq(Seq(C \ {"."}))
          /\ Len([parts EXCEPT ![n] = Append(parts[n], c)]) = n
      BY <2>2, <2>3, <3>2, ExceptSeq
    <3>4. [parts EXCEPT ![n] = Append(parts[n], c)] # <<>>
      BY <3>3, <2>3, EmptySeq
    <3>5. DotStep(".", parts, c) = [parts EXCEPT ![n] = Append(parts[n], c)]
      BY <2>5, Zenon DEF DotStep, n
    <3> QED BY <2>1, <3>3, <3>4, <3>5, AppendProperties DEF T
  <2> QED BY <2>4, <2>5
<1> HIDE DEF P
<1>3. Seq(C) \subseteq P
  BY <1>1, <1>2, Dots!SequenceInduction
<1>4. Dots!Fold(".", text) \in T
  BY <1>3 DEF P
<1>5. SplitAtDots(text) = Dots!Fold(".", text)
  BY Zenon DEF SplitAtDots, FoldLeft, MapThenFoldSet, Max, DotStep, Dots!Fold,
     Dots!FoldLeft, Dots!MapThenFoldSet, Dots!Max
<1> QED BY <1>4, <1>5

\* A part of a sequence is one of the same elements.
LEMMA SubSeqInSeq ==
    ASSUME NEW C, NEW s \in Seq(C), NEW m \in Int, NEW n \in Int, 1 <= m, n <= Len(s)
    PROVE  SubSeq(s, m, n) \in Seq(C)
<1>1. \A i \in m .. n : s[i] \in C
  BY ElementOfSeq, LenProperties
<1> QED BY <1>1, SubSeqProperties

\* A set of some places has a first and a last one.
LEMMA EndsOfSome ==
    ASSUME NEW n \in Nat, NEW S \in SUBSET (1 .. n), S # {}
    PROVE  Min(S) \in S /\ Max(S) \in S
<1>1. 1 \in Int /\ n \in Int
  OBVIOUS
<1>2. \E m \in S : \A x \in S : m <= x
  BY <1>1, Dots!LeastOfInterval, Zenon
<1>3. \E m \in S : \A x \in S : m >= x
  BY <1>1, Dots!GreatestOfInterval, Zenon
<1> QED BY <1>2, <1>3, Zenon DEF Min, Max

\* A trimmed text is one.
LEMMA TrimInSeq ==
    ASSUME NEW C, NEW text \in Seq(C)
    PROVE  Trim(text) \in Seq(C)
<1> DEFINE inner == {i \in DOMAIN text : text[i] # " "}
<1>1. inner \in SUBSET (1 .. Len(text)) /\ Len(text) \in Nat
  BY LenProperties
<1>2. CASE inner = {}
  BY <1>2, EmptySeq DEF Trim
<1>3. CASE inner # {}
  <2>1. Min(inner) \in inner /\ Max(inner) \in inner
    <3> HIDE DEF inner
    <3> QED BY <1>1, <1>3, EndsOfSome
  <2>2. Min(inner) \in 1 .. Len(text) /\ Max(inner) \in 1 .. Len(text)
    BY <1>1, <2>1, Zenon
  <2>3. SubSeq(text, Min(inner), Max(inner)) \in Seq(C)
    <3> HIDE DEF inner
    <3>1. Min(inner) \in Int /\ Max(inner) \in Int /\ 1 <= Min(inner) /\ Max(inner) <= Len(text)
      BY <1>1, <2>2
    <3> QED BY <3>1, SubSeqInSeq
  <2> QED BY <1>3, <2>3, Zenon DEF Trim
<1> QED BY <1>2, <1>3

\* parse() answers with at most one version.
LEMMA ParsedIsVersion ==
    ASSUME NEW input \in Seq(STRING)
    PROVE  ParseVersion(input) = {} \/ \E v \in Versions : ParseVersion(input) = {v}
<1> DEFINE trimmed == Trim(input)
           value == IF trimmed # <<>> /\ Head(trimmed) = "v" THEN Tail(trimmed) ELSE trimmed
           marks == {i \in DOMAIN value : value[i] \in {"-", "+"}}
           mark == IF marks = {} THEN Len(value) + 1 ELSE Min(marks)
           core == SplitAtDots(SubSeq(value, 1, mark - 1))
           metadata == SubSeq(value, mark + 1, Len(value))
           pre == IF marks # {} /\ value[mark] = "-" THEN SplitAtDots(metadata) ELSE <<>>
           version == [core |-> [i \in 1 .. 3 |-> NumberValue(core[i])],
                       prerelease |-> [i \in DOMAIN pre |-> ParseIdentifier(pre[i])]]
           readable == /\ Len(core) = 3 /\ \A n \in ToSet(core) : IsNumber(n)
                       /\ marks # {} => ValidMetadata(metadata)
                       /\ \A i \in ToSet(pre) : ValidIdentifier(i)
<1>1. ParseVersion(input) = IF readable THEN {version} ELSE {}
  BY Zenon DEF ParseVersion
<1>2. value \in Seq(STRING) /\ Len(value) \in Nat
  <2>1. trimmed \in Seq(STRING)
    BY TrimInSeq
  <2> HIDE DEF trimmed
  <2>2. trimmed # <<>> => Tail(trimmed) \in Seq(STRING)
    BY <2>1, HeadTailProperties
  <2>3. value \in Seq(STRING)
    BY <2>1, <2>2
  <2> QED BY <2>3, LenProperties
<1> HIDE DEF value
<1>3. mark \in 1 .. Len(value) + 1
  <2>1. marks \in SUBSET (1 .. Len(value))
    BY <1>2, LenProperties
  <2>2. marks # {} => Min(marks) \in 1 .. Len(value)
    <3> HIDE DEF marks
    <3> QED BY <1>2, <2>1, EndsOfSome
  <2> HIDE DEF marks
  <2> QED BY <1>2, <2>2
<1> HIDE DEF mark
<1>4. core \in Seq(Seq(STRING \ {"."})) /\ metadata \in Seq(STRING)
  <2>1. SubSeq(value, 1, mark - 1) \in Seq(STRING) /\ SubSeq(value, mark + 1, Len(value)) \in Seq(STRING)
    BY <1>2, <1>3, SubSeqInSeq
  <2> QED BY <2>1, PartsOfText
<1> HIDE DEF core, metadata
<1>5. ASSUME readable PROVE version.core \in [1 .. 3 -> Nat]
  <2>1. \A i \in 1 .. 3 : core[i] \in Seq(STRING \ {"."}) /\ IsNumber(core[i])
    BY <1>4, <1>5, LenProperties, ElementOfSeq DEF ToSet
  <2>2. \A i \in 1 .. 3 : NumberValue(core[i]) \in Nat
    BY <2>1, IsNumberIsNatural
  <2> QED BY <2>2
<1>6. ASSUME readable PROVE pre \in Seq(Seq(ToSet(Alphabet)))
  <2>1. CASE marks # {} /\ value[mark] = "-"
    <3>1. ToSet(metadata) \subseteq ToSet(Alphabet) \cup {"."}
      BY <1>6, <2>1 DEF ValidMetadata
    <3>2. \A i \in 1 .. Len(metadata) : metadata[i] \in ToSet(Alphabet) \cup {"."}
      BY <1>4, <3>1, LenProperties DEF ToSet
    <3>3. metadata \in Seq(ToSet(Alphabet) \cup {"."})
      <4>1. metadata \in [1 .. Len(metadata) -> ToSet(Alphabet) \cup {"."}]
            /\ Len(metadata) \in Nat
        BY <1>4, <3>2, LenProperties
      <4> QED BY <4>1, SeqDef
    <3>4. pre \in Seq(Seq((ToSet(Alphabet) \cup {"."}) \ {"."}))
      BY <2>1, <3>3, PartsOfText
    <3>5. (ToSet(Alphabet) \cup {"."}) \ {"."} = ToSet(Alphabet)
      <4>1. "." \notin ToSet(Alphabet)
        <5>1. DOMAIN Alphabet = 1 .. 8
          BY DEF Alphabet
        <5>2. \A i \in 1 .. 8 : Alphabet[i] # "."
          BY DEF Alphabet
        <5> QED BY <5>1, <5>2 DEF ToSet
      <4> QED BY <4>1
    <3> QED BY <3>4, <3>5
  <2>2. CASE ~(marks # {} /\ value[mark] = "-")
    <3>1. pre = <<>>
      BY <2>2
    <3> HIDE DEF pre
    <3> QED BY <3>1, EmptySeq
  <2> QED BY <2>1, <2>2
<1> HIDE DEF pre
<1>7. ASSUME readable PROVE version.prerelease \in Seq(Identifiers)
  <2>1. pre \in Seq(Seq(ToSet(Alphabet))) /\ Len(pre) \in Nat /\ DOMAIN pre = 1 .. Len(pre)
    BY <1>6, <1>7, LenProperties
  <2>2. ASSUME NEW i \in 1 .. Len(pre) PROVE ParseIdentifier(pre[i]) \in Identifiers
    <3>1. pre[i] \in Seq(ToSet(Alphabet))
      BY <2>1, ElementOfSeq
    <3>2. IsNumber(pre[i]) => NumberValue(pre[i]) \in Nat
      BY <3>1, IsNumberIsNatural
    <3>3. IsNumber(pre[i]) \in BOOLEAN
      BY DEF IsNumber
    <3>4. (IF IsNumber(pre[i]) THEN NumberValue(pre[i]) ELSE 0) \in Nat
      BY <3>2
    <3> QED BY <3>1, <3>3, <3>4, Zenon DEF ParseIdentifier, Identifiers
  <2>3. [i \in 1 .. Len(pre) |-> ParseIdentifier(pre[i])] \in [1 .. Len(pre) -> Identifiers]
    BY <2>2
  <2>4. [i \in 1 .. Len(pre) |-> ParseIdentifier(pre[i])] \in Seq(Identifiers)
    BY <2>1, <2>3, SeqDef
  <2> QED BY <2>1, <2>4
<1>8. readable => version \in Versions
  BY <1>5, <1>7 DEF Versions
<1> HIDE DEF version, readable
<1> QED BY <1>1, <1>8

\* The ladder is one: the spellings of a rung are one version, every rung is older than the
\* next, and what is malformed is no version.
IsLadder ==
    /\ \A i \in DOMAIN Ladder : /\ Ladder[i] # {}
                                /\ \A s, t \in Ladder[i] : ParseVersion(s) = ParseVersion(t)
                                /\ \A s \in Ladder[i] : ParseVersion(s) # {}
    /\ \A i \in 1 .. Len(Ladder) - 1 :
         \E s \in Ladder[i], t \in Ladder[i + 1] :
            \E l \in ParseVersion(s), r \in ParseVersion(t) : Older(l, r)
    /\ \A text \in Malformed : ParseVersion(text) = {}

\* Versions of two rungs of a ladder are ordered as the rungs are.
LEMMA RungsAreOrdered ==
    ASSUME IsLadder, NEW i \in DOMAIN Ladder, NEW j \in DOMAIN Ladder,
           NEW s \in Ladder[i], NEW t \in Ladder[j], NEW l \in ParseVersion(s),
           NEW r \in ParseVersion(t)
    PROVE  Older(l, r) <=> i < j
<1>1. DOMAIN Ladder = 1 .. Len(Ladder) /\ Len(Ladder) \in Nat
  BY TextsAssumption, LenProperties
<1>2. ASSUME NEW k \in DOMAIN Ladder, NEW u \in Ladder[k]
      PROVE  \E v \in Versions : ParseVersion(u) = {v}
  <2>1. Ladder[k] \in SUBSET Seq(STRING)
    BY <1>1, TextsAssumption, ElementOfSeq
  <2>2. u \in Seq(STRING) /\ ParseVersion(u) # {}
    BY <2>1 DEF IsLadder
  <2> QED BY <2>2, ParsedIsVersion
<1> DEFINE of(k) == CHOOSE v : \A u \in Ladder[k] : ParseVersion(u) = {v}
<1>3. ASSUME NEW k \in DOMAIN Ladder
      PROVE  of(k) \in Versions /\ \A u \in Ladder[k] : ParseVersion(u) = {of(k)}
  <2>1. PICK u \in Ladder[k] : TRUE
    BY DEF IsLadder
  <2>2. PICK v \in Versions : ParseVersion(u) = {v}
    BY <1>2
  <2>3. \A w \in Ladder[k] : ParseVersion(w) = {v}
    BY <2>2 DEF IsLadder
  <2>4. \A w \in Ladder[k] : ParseVersion(w) = {of(k)}
    BY <2>3
  <2>5. {of(k)} = {v}
    BY <2>3, <2>4, <2>1
  <2> QED BY <2>4, <2>5
<1> HIDE DEF of
<1>4. ASSUME NEW k \in DOMAIN Ladder, k + 1 \in DOMAIN Ladder PROVE Older(of(k), of(k + 1))
  <2>1. k \in 1 .. Len(Ladder) - 1
    BY <1>1, <1>4
  <2>2. PICK u \in Ladder[k], w \in Ladder[k + 1] :
          \E a \in ParseVersion(u), b \in ParseVersion(w) : Older(a, b)
    BY <2>1 DEF IsLadder
  <2> QED BY <1>3, <1>4, <2>2
<1>5. ASSUME NEW a \in DOMAIN Ladder, NEW b \in DOMAIN Ladder, a < b
      PROVE  Older(of(a), of(b))
  <2> DEFINE P == {n \in Nat : a + 1 + n \in DOMAIN Ladder => Older(of(a), of(a + 1 + n))}
  <2>1. 0 \in P
    <3>1. a + 1 + 0 = a + 1
      BY <1>1
    <3> QED BY <1>4, <3>1
  <2>2. ASSUME NEW n \in Nat, n \in P PROVE n + 1 \in P
    <3> SUFFICES ASSUME a + 1 + (n + 1) \in DOMAIN Ladder
                 PROVE  Older(of(a), of(a + 1 + (n + 1)))
      OBVIOUS
    <3> DEFINE m == a + 1 + n
    <3>1. a + 1 + (n + 1) = m + 1 /\ m \in DOMAIN Ladder
      BY <1>1
    <3>2. Older(of(a), of(m))
      BY <2>2, <3>1
    <3> HIDE DEF m
    <3>3. Older(of(m), of(m + 1))
      BY <1>4, <3>1
    <3>4. of(a) \in Versions /\ of(m) \in Versions /\ of(m + 1) \in Versions
      BY <1>3, <3>1
    <3>5. Older(of(a), of(m + 1))
      BY <3>2, <3>3, <3>4, OlderIsAStrictOrder, Zenon
    <3> QED BY <3>1, <3>5
  <2> HIDE DEF P
  <2>3. Nat \subseteq P
    BY <2>1, <2>2, Dots!NaturalInduction
  <2>4. b - a - 1 \in Nat /\ a + 1 + (b - a - 1) = b
    BY <1>1, <1>5
  <2>5. b - a - 1 \in P
    BY <2>3, <2>4
  <2> QED BY <2>4, <2>5 DEF P
<1>6. l = of(i) /\ r = of(j) /\ of(i) \in Versions /\ of(j) \in Versions
  BY <1>3
<1>7. CASE i < j
  BY <1>5, <1>6, <1>7
<1>8. CASE i = j
  <2>1. ~Older(l, r)
    BY <1>6, <1>8, OlderIsAStrictOrder
  <2> QED BY <1>1, <1>8, <2>1
<1>9. CASE j < i
  <2>1. Older(r, l)
    BY <1>5, <1>6, <1>9
  <2>2. ~Older(l, r)
    BY <1>6, <2>1, OlderIsAStrictOrder, Zenon
  <2> QED BY <1>1, <1>9, <2>2
<1> QED BY <1>1, <1>7, <1>8, <1>9

\* What is checked is a tag that was answered, of the texts there are.
LEMMA TagsAreTexts ==
    ASSUME NEW answer \in Answers
    PROVE  TagName(answer.body) = {} \/ \E tag \in Texts : TagName(answer.body) = {tag}
<1> DEFINE body == answer.body
           named == {i \in DOMAIN body : body[i].key = "tag_name"}
<1>1. \/ body = <<>> \/ body = <<Member("tag_name", {})>>
      \/ \E tag \in Texts : \/ body = <<Member("tag_name", {tag})>>
                            \/ body = <<Member("name", {tag}), Member("tag_name", {})>>
  <2> DEFINE failed == {[transport |-> t, body |-> <<>>] :
                          t \in {"none", "fails", "throws", "completed"}}
             of(tag) == {<<Member("tag_name", {tag})>>,
                         <<Member("name", {tag}), Member("tag_name", {})>>}
             bodies == {<<Member("tag_name", {})>>} \cup UNION {of(tag) : tag \in Texts}
  <2>1. Answers = failed \cup {[transport |-> "completed", body |-> b] : b \in bodies}
    BY Zenon DEF Answers
  <2>2. answer \in failed => body = <<>>
    OBVIOUS
  <2> HIDE DEF bodies, failed
  <2>3. answer \notin failed => body \in bodies
    BY <2>1
  <2> HIDE DEF body
  <2>4. body \in bodies => \/ body = <<Member("tag_name", {})>>
                           \/ \E tag \in Texts : body \in of(tag)
    BY Zenon DEF bodies
  <2> QED BY <2>2, <2>3, <2>4, Zenon
<1>2. TagName(body) = IF named = {} THEN {} ELSE body[Min(named)].string
  BY Zenon DEF TagName
<1> HIDE DEF body
<1>3. ASSUME body = <<>> PROVE TagName(body) = {}
  <2>1. named = {}
    BY <1>3
  <2> QED BY <1>2, <2>1, Zenon
<1>4. ASSUME NEW string, body = <<Member("tag_name", string)>> PROVE TagName(body) = string
  <2>1. DOMAIN body = {1} /\ body[1].key = "tag_name" /\ body[1].string = string
    BY <1>4 DEF Member
  <2>2. named = {1}
    BY <2>1
  <2>3. Min(named) = 1
    BY <2>2 DEF Min
  <2> QED BY <1>2, <2>1, <2>2, <2>3
<1>5. ASSUME NEW tag \in Texts, body = <<Member("name", {tag}), Member("tag_name", {})>>
      PROVE  TagName(body) = {}
  <2>1. DOMAIN body = {1, 2} /\ body[1].key = "name" /\ body[2].key = "tag_name"
        /\ body[2].string = {}
    BY <1>5 DEF Member
  <2>2. named = {2}
    BY <2>1
  <2>3. Min(named) = 2
    BY <2>2 DEF Min
  <2> QED BY <1>2, <2>1, <2>2, <2>3
<1> QED BY <1>1, <1>3, <1>4, <1>5 DEF body

\* OffersGoForward, on a ladder of any length: it is enough that each rung is older than the
\* next.
THEOREM OffersFollowTheLadder ==
    ASSUME IsLadder
    PROVE  UpdateSpec => []OffersGoForward
<1> DEFINE Inv == /\ update.op = "command" => update.installed \in Texts
                  /\ OffersGoForward
<1>1. UpdateInit => Inv
  <2>1. UpdateInit => update.op = "none"
    BY DEF UpdateInit
  <2> QED BY <2>1, Zenon DEF OffersGoForward
<1>2. ASSUME NEW installed \in Texts, NEW answer \in Answers,
             update' = [op |-> "checked", installed |-> installed, answer |-> answer,
                        status |-> CheckStatus(installed, answer)]
      PROVE  OffersGoForward'
  <2> DEFINE from == Rungs(installed)
             to == UNION {Rungs(tag) : tag \in TagName(answer.body)}
             latest == UNION {ParseVersion(tag) : tag \in TagName(answer.body)}
             status == CheckStatus(installed, answer)
  <2>1. ASSUME NEW text \in Texts
        PROVE  /\ Rungs(text) \subseteq DOMAIN Ladder
               /\ \A i \in Rungs(text) : text \in Ladder[i]
               /\ ParseVersion(text) = {} <=> Rungs(text) = {}
    <3>1. Rungs(text) \subseteq DOMAIN Ladder /\ \A i \in Rungs(text) : text \in Ladder[i]
      BY DEF Rungs
    <3>2. Rungs(text) # {} => ParseVersion(text) # {}
      BY <3>1 DEF IsLadder
    <3>3. Rungs(text) = {} => text \in Malformed
      <4>1. ToSet(Ladder) = {Ladder[i] : i \in DOMAIN Ladder}
        BY DEF ToSet
      <4> QED BY <4>1 DEF Texts, Rungs
    <3> QED BY <3>1, <3>2, <3>3 DEF IsLadder
  <2>2. ASSUME NEW i \in from, NEW j \in to, NEW l \in ParseVersion(installed), NEW r \in latest
        PROVE  Older(l, r) <=> i < j
    <3>1. PICK tag \in Texts : TagName(answer.body) = {tag}
      BY TagsAreTexts
    <3>2. to = Rungs(tag) /\ latest = ParseVersion(tag)
      BY <3>1
    <3> HIDE DEF from, to, latest
    <3>3. i \in DOMAIN Ladder /\ installed \in Ladder[i]
      BY <2>1 DEF from
    <3>4. j \in DOMAIN Ladder /\ tag \in Ladder[j] /\ r \in ParseVersion(tag)
      BY <2>1, <3>2
    <3> QED BY <3>3, <3>4, RungsAreOrdered
  <2>3. ParseVersion(installed) = {} <=> from = {}
    BY <2>1
  <2>4. latest = {} <=> to = {}
    <3>1. CASE TagName(answer.body) = {}
      BY <3>1
    <3>2. ASSUME NEW tag \in Texts, TagName(answer.body) = {tag}
          PROVE  latest = {} <=> to = {}
      <4>1. to = Rungs(tag) /\ latest = ParseVersion(tag)
        BY <3>2
      <4> HIDE DEF to, latest
      <4> QED BY <2>1, <4>1
    <3> HIDE DEF to, latest
    <3> QED BY <3>1, <3>2, TagsAreTexts
  <2>5. answer.transport # "completed" => to = {}
    <3>1. answer.transport # "completed" => answer.body = <<>>
      BY DEF Answers
    <3>2. TagName(<<>>) = {}
      BY DEF TagName
    <3>3. TagName(answer.body) = {} => to = {}
      OBVIOUS
    <3> HIDE DEF to
    <3> QED BY <3>1, <3>2, <3>3
  <2>6. status = IF ParseVersion(installed) = {} THEN "invalid_response"
                 ELSE IF answer.transport # "completed" THEN "network_error"
                 ELSE IF latest = {} THEN "invalid_response"
                 ELSE IF \E l \in ParseVersion(installed), r \in latest : Older(l, r)
                 THEN "update_available" ELSE "up_to_date"
    BY Zenon DEF CheckStatus
  <2>7. from \subseteq Int /\ to \subseteq Int
    <3>1. DOMAIN Ladder \subseteq Int
      BY TextsAssumption, LenProperties
    <3> QED BY <3>1 DEF Rungs
  <2> HIDE DEF from, to, latest, status
  <2>8. \A i \in from, j \in to : i >= j <=> ~(i < j)
    BY <2>7
  <2>9. /\ status = "update_available" <=> \E i \in from, j \in to : i < j
        /\ status = "up_to_date" <=> \E i \in from, j \in to : i >= j
    <3>1. CASE from = {} \/ to = {}
      <4>1. status \in {"invalid_response", "network_error"}
        BY <2>3, <2>4, <2>6, <3>1
      <4> QED BY <3>1, <4>1
    <3>2. CASE from # {} /\ to # {}
      <4>2. ParseVersion(installed) # {} /\ answer.transport = "completed" /\ latest # {}
        BY <2>3, <2>4, <2>5, <3>2
      <4>1. PICK l \in ParseVersion(installed), r \in latest : TRUE
        BY <4>2
      <4>3. (\E k \in ParseVersion(installed), m \in latest : Older(k, m))
              <=> \E a \in from, b \in to : a < b
        BY <2>2, <3>2, <4>2, Zenon
      <4>4. (\E a \in from, b \in to : a < b) <=> ~ \E a \in from, b \in to : a >= b
        <5>1. \A a \in from, b \in to : a < b <=> Older(l, r)
          BY <2>2, <4>1
        <5>2. \A a \in from, b \in to : a >= b <=> ~Older(l, r)
          BY <2>8, <5>1, Zenon
        <5>3. PICK i \in from, j \in to : TRUE
          BY <3>2
        <5> QED BY <5>1, <5>2, <5>3, Zenon
      <4> QED BY <2>6, <4>2, <4>3, <4>4, Zenon
    <3> QED BY <3>1, <3>2
  <2>10. update'.installed = installed /\ update'.answer = answer /\ update'.status = status
    BY <1>2 DEF status
  <2> QED BY <2>9, <2>10, Zenon DEF OffersGoForward, from, to
<1>3. Inv /\ [UpdateNext]_updateVars => Inv'
  <2> SUFFICES ASSUME Inv, [UpdateNext]_updateVars PROVE Inv'
    OBVIOUS
  <2>1. CASE UNCHANGED update
    BY <2>1 DEF OffersGoForward
  <2>2. CASE Activate
    <3>1. update'.op = "command" /\ update'.installed \in Texts
      BY <2>2 DEF Activate
    <3> QED BY <3>1, Zenon DEF OffersGoForward
  <2>3. CASE Check
    <3>1. update'.op = "checked"
      BY <2>3 DEF Check
    <3> QED BY <1>2, <2>3, <3>1 DEF Check
  <2>4. CASE DropUpdate
    <3>1. update'.op = "none"
      BY <2>4 DEF DropUpdate
    <3> QED BY <3>1, Zenon DEF OffersGoForward
  <2>5. [UpdateNext]_updateVars => UNCHANGED update \/ Activate \/ Check \/ DropUpdate
    BY DEF UpdateNext, OpenMenu, CloseMenu, SelectItem, updateVars
  <2> QED BY <2>1, <2>2, <2>3, <2>4, <2>5
<1>4. Inv => OffersGoForward
  OBVIOUS
<1> QED BY <1>1, <1>3, <1>4, PTL DEF UpdateSpec

-----------------------------------------------------------------------------
(* The sounds: where the chunks of a file start, and the parser as a fold.    *)

ChunkStep(file, at, c) == at + Padded(c)
Chunks == INSTANCE FoldFacts WITH Step <- ChunkStep, Base <- 12

StopAt(s, status) == [s EXCEPT !.status = status]
FormatStep(s, c) ==
    IF s.format # <<>> \/ c.size < 16 THEN StopAt(s, "invalid_header")
    ELSE [s EXCEPT !.format = <<c.format>>, !.at = @ + Padded(c)]
DataStep(s, c) ==
    IF s.data # <<>> THEN StopAt(s, "invalid_header")
    ELSE IF c.size = 0 THEN StopAt(s, "empty_data")
    ELSE [s EXCEPT !.data = <<[offset |-> s.at + 8, bytes |-> c.size]>>,
                   !.at = @ + Padded(c)]
WalkStep(end, s, c) ==
    IF s.status # "success" \/ s.at >= end THEN s
    ELSE IF end - s.at < 8 THEN StopAt(s, "truncated_header")
    ELSE IF s.at + Padded(c) > end
    THEN StopAt(s, IF c.id = "data" THEN "truncated_data" ELSE "truncated_header")
    ELSE IF c.id = "fmt" THEN FormatStep(s, c)
    ELSE IF c.id = "data" THEN DataStep(s, c)
    ELSE [s EXCEPT !.at = @ + Padded(c)]
WalkBase == [at |-> 12, format |-> <<>>, data |-> <<>>, status |-> "success"]
Walks == INSTANCE FoldFacts WITH Step <- WalkStep, Base <- WalkBase

\* The walk over the chunks is a fold.
LEMMA WalkIsFold ==
    ASSUME NEW chunks, NEW end
    PROVE  Walk(chunks, end)
             = LET w == Walks!Fold(end, chunks)
               IN  IF w.status = "success" /\ w.at < end
                   THEN StopAt(w, "truncated_header") ELSE w
BY Zenon DEF Walk, FoldLeft, MapThenFoldSet, Max, WalkStep, FormatStep, DataStep, StopAt, WalkBase, Walks!Fold, Walks!FoldLeft,
   Walks!MapThenFoldSet, Walks!Max

\* A chunk takes at least its header and its size.
LEMMA PaddedIsNatural ==
    ASSUME NEW c \in WavChunk
    PROVE  c.size \in Nat /\ Padded(c) \in Nat /\ Padded(c) >= 8 + c.size
<1>1. c.size \in Nat
  BY DEF WavChunk
<1> QED BY <1>1 DEF Padded

\* Where the chunks start.
LEMMA ChunkStarts ==
    ASSUME NEW file \in WavFile
    PROVE  /\ ChunkStart(file, 1) = 12
           /\ \A i \in 1 .. Len(file.chunks) + 1 : ChunkStart(file, i) \in Nat
           /\ \A i \in 1 .. Len(file.chunks) :
                ChunkStart(file, i + 1) = ChunkStart(file, i) + Padded(file.chunks[i])
           /\ \A i, j \in 1 .. Len(file.chunks) + 1 :
                i < j => ChunkStart(file, i) + 8 <= ChunkStart(file, j)
<1> DEFINE cs == file.chunks
           n == Len(cs)
           at(i) == ChunkStart(file, i)
<1>1. cs \in Seq(WavChunk) /\ n \in Nat /\ \A i \in 1 .. n : cs[i] \in WavChunk
  <2>1. cs \in Seq(WavChunk)
    BY DEF WavFile
  <2> QED BY <2>1, LenProperties, ElementOfSeq
<1>2. \A i : at(i) = Chunks!Fold(file, SubSeq(cs, 1, i - 1))
  BY Zenon DEF ChunkStart, FoldLeft, MapThenFoldSet, Max, ChunkStep, Chunks!Fold,
     Chunks!FoldLeft, Chunks!MapThenFoldSet, Chunks!Max
<1> HIDE DEF cs, at
<1>3. /\ Chunks!Fold(file, SubSeq(cs, 1, 0)) = 12
      /\ \A k \in 0 .. n - 1 : Chunks!Fold(file, SubSeq(cs, 1, k + 1))
                                = ChunkStep(file, Chunks!Fold(file, SubSeq(cs, 1, k)), cs[k + 1])
  BY <1>1, Chunks!FoldPrefix
<1>4. at(1) = 12
  BY <1>2, <1>3
<1>5. ASSUME NEW i \in 1 .. n PROVE at(i + 1) = at(i) + Padded(cs[i])
  <2>1. i - 1 \in 0 .. n - 1 /\ (i - 1) + 1 = i /\ (i + 1) - 1 = i
    BY <1>1
  <2>2. at(i + 1) = Chunks!Fold(file, SubSeq(cs, 1, i))
    BY <1>2, <2>1
  <2>3. Chunks!Fold(file, SubSeq(cs, 1, i))
          = ChunkStep(file, Chunks!Fold(file, SubSeq(cs, 1, i - 1)), cs[i])
    BY <1>3, <2>1
  <2> QED BY <1>2, <2>2, <2>3, Zenon DEF ChunkStep
<1>6. ASSUME NEW i \in 1 .. n PROVE Padded(cs[i]) \in Nat /\ Padded(cs[i]) >= 8
  <2>1. cs[i] \in WavChunk
    BY <1>1
  <2> QED BY <2>1, PaddedIsNatural
<1> DEFINE P == {k \in Nat : k + 1 <= n + 1 => /\ at(k + 1) \in Nat
                              /\ \A i \in 1 .. k : at(i) \in Nat /\ at(i) + 8 <= at(k + 1)}
<1>7. 0 \in P
  BY <1>4
<1>8. ASSUME NEW k \in Nat, k \in P PROVE k + 1 \in P
  <2> SUFFICES ASSUME k + 2 <= n + 1
               PROVE  /\ at(k + 2) \in Nat
                      /\ \A i \in 1 .. k + 1 : at(i) \in Nat /\ at(i) + 8 <= at(k + 2)
    BY <1>1
  <2>1. k + 1 \in 1 .. n /\ (k + 1) + 1 = k + 2
    BY <1>1
  <2>2. at(k + 1) \in Nat /\ \A i \in 1 .. k : at(i) \in Nat /\ at(i) + 8 <= at(k + 1)
    BY <1>1, <1>8
  <2>3. at(k + 2) = at(k + 1) + Padded(cs[k + 1])
    BY <1>5, <2>1
  <2>4. Padded(cs[k + 1]) \in Nat /\ Padded(cs[k + 1]) >= 8
    BY <1>6, <2>1
  <2>5. ASSUME NEW i \in 1 .. k + 1 PROVE at(i) \in Nat /\ at(i) + 8 <= at(k + 2)
    <3>1. CASE i \in 1 .. k
      <4>1. at(i) \in Nat /\ at(i) + 8 <= at(k + 1)
        BY <2>2, <3>1
      <4> QED BY <2>2, <2>3, <2>4, <4>1
    <3>2. CASE i = k + 1
      BY <2>2, <2>3, <2>4, <3>2
    <3> QED BY <3>1, <3>2
  <2> QED BY <2>2, <2>3, <2>4, <2>5
<1> HIDE DEF P
<1>9. Nat \subseteq P
  BY <1>7, <1>8, Chunks!NaturalInduction
<1>10. ASSUME NEW i \in 1 .. n + 1 PROVE at(i) \in Nat
  <2>1. i - 1 \in Nat /\ (i - 1) + 1 = i
    BY <1>1
  <2>2. i - 1 \in P
    BY <1>9, <2>1
  <2> QED BY <1>1, <2>1, <2>2 DEF P
<1>11. ASSUME NEW i \in 1 .. n + 1, NEW j \in 1 .. n + 1, i < j PROVE at(i) + 8 <= at(j)
  <2>1. j - 1 \in Nat /\ (j - 1) + 1 = j /\ i \in 1 .. j - 1
    BY <1>1, <1>11
  <2>2. j - 1 \in P
    BY <1>9, <2>1
  <2> QED BY <1>1, <2>1, <2>2 DEF P
<1> QED BY <1>4, <1>5, <1>10, <1>11 DEF cs, at

-----------------------------------------------------------------------------
(* The parser, chunk by chunk: `j` chunks are behind it, it knows the format  *)
(* and the data among them, and it gives up only on a file that no walk could *)
(* finish.                                                                    *)

Of(file, id, j) == {i \in 1 .. j : file.chunks[i].id = id}

FormatIs(file, j, a) == Of(file, "fmt", j) = {a} /\ file.chunks[a].size >= 16
DataIs(file, j, a) == Of(file, "data", j) = {a} /\ file.chunks[a].size > 0

FormatFound(file, j, format) ==
    \/ Of(file, "fmt", j) = {} /\ format = <<>>
    \/ \E a \in 1 .. j : FormatIs(file, j, a) /\ format = <<file.chunks[a].format>>

DataFound(file, j, data) ==
    \/ Of(file, "data", j) = {} /\ data = <<>>
    \/ \E a \in 1 .. j :
         /\ DataIs(file, j, a)
         /\ data = <<[offset |-> ChunkStart(file, a) + 8, bytes |-> file.chunks[a].size]>>

WellFormed(file, end) ==
    \E j \in 0 .. Len(file.chunks) :
      /\ ChunkStart(file, j + 1) = end
      /\ \E a \in 1 .. j : FormatIs(file, j, a)
      /\ \E a \in 1 .. j : DataIs(file, j, a)

WalkStatus == {"success", "invalid_header", "truncated_header", "truncated_data", "empty_data"}
WalkState == [at : Nat, format : Seq(WavFormat), data : Seq([offset : Nat, bytes : Nat]),
              status : WalkStatus]

Going(file, end, k, s) ==
    \E j \in 0 .. k : /\ s.at = ChunkStart(file, j + 1) /\ s.at <= end
                      /\ j < k => s.at = end
                      /\ FormatFound(file, j, s.format)
                      /\ DataFound(file, j, s.data)

WalkInv(file, end, k, s) ==
    /\ s \in WalkState
    /\ s.status = "success" => Going(file, end, k, s)
    /\ s.status # "success" => ~WellFormed(file, end)

\* The chunks of a file.
LEMMA ChunkFacts ==
    ASSUME NEW file \in WavFile
    PROVE  /\ file.chunks \in Seq(WavChunk) /\ Len(file.chunks) \in Nat
           /\ \A i \in 1 .. Len(file.chunks) :
                /\ file.chunks[i] \in WavChunk
                /\ file.chunks[i].id = "fmt" => file.chunks[i].format \in WavFormat
<1>1. file.chunks \in Seq(WavChunk)
  BY DEF WavFile
<1>2. Len(file.chunks) \in Nat /\ \A i \in 1 .. Len(file.chunks) : file.chunks[i] \in WavChunk
  BY <1>1, LenProperties, ElementOfSeq
<1>3. \A c \in WavChunk : c.id = "fmt" => c.format \in WavFormat
  BY DEF WavChunk
<1> QED BY <1>1, <1>2, <1>3

\* Those of one kind, one chunk further.
LEMMA OfNext ==
    ASSUME NEW file \in WavFile, NEW id, NEW k \in 0 .. Len(file.chunks) - 1
    PROVE  Of(file, id, k + 1)
             = IF file.chunks[k + 1].id = id THEN Of(file, id, k) \cup {k + 1}
               ELSE Of(file, id, k)
<1>1. k \in Nat
  BY ChunkFacts
<1>2. 1 .. k + 1 = (1 .. k) \cup {k + 1}
  BY <1>1
<1> QED BY <1>2, Zenon DEF Of

\* What a well-formed file tells of the chunk the walk is at.
LEMMA WellFormedNext ==
    ASSUME NEW file \in WavFile, NEW end \in Nat, NEW k \in 0 .. Len(file.chunks) - 1,
           ChunkStart(file, k + 1) < end, WellFormed(file, end)
    PROVE  /\ ChunkStart(file, k + 1) + 8 <= end
           /\ ChunkStart(file, k + 1) + Padded(file.chunks[k + 1]) <= end
           /\ file.chunks[k + 1].id = "fmt"
                => file.chunks[k + 1].size >= 16 /\ Of(file, "fmt", k) = {}
           /\ file.chunks[k + 1].id = "data"
                => file.chunks[k + 1].size > 0 /\ Of(file, "data", k) = {}
<1> DEFINE n == Len(file.chunks)
           at(i) == ChunkStart(file, i)
<1>1. n \in Nat
  BY ChunkFacts
<1>2. PICK j \in 0 .. n :
        /\ at(j + 1) = end
        /\ \E a \in 1 .. j : FormatIs(file, j, a)
        /\ \E a \in 1 .. j : DataIs(file, j, a)
  BY DEF WellFormed
<1>3. /\ \A i \in 1 .. n + 1 : at(i) \in Nat
      /\ \A i, m \in 1 .. n + 1 : i < m => at(i) + 8 <= at(m)
      /\ at(k + 2) = at(k + 1) + Padded(file.chunks[k + 1])
  <2>1. k + 1 \in 1 .. n /\ (k + 1) + 1 = k + 2
    BY <1>1
  <2> HIDE DEF n, at
  <2>2. /\ \A i \in 1 .. n + 1 : at(i) \in Nat
        /\ \A i \in 1 .. n : at(i + 1) = at(i) + Padded(file.chunks[i])
        /\ \A i, m \in 1 .. n + 1 : i < m => at(i) + 8 <= at(m)
    BY ChunkStarts DEF n, at
  <2> QED BY <2>1, <2>2
<1> HIDE DEF at
<1>4. at(k + 1) < end
  BY DEF at
<1>5. k + 1 \in 1 .. n + 1 /\ k + 2 \in 1 .. n + 1 /\ j + 1 \in 1 .. n + 1
  BY <1>1
<1> HIDE DEF n
<1>6. k + 1 <= j
  <2> SUFFICES ASSUME ~(k + 1 <= j) PROVE FALSE
    OBVIOUS
  <2>1. j \in Int /\ k \in Int
    BY <1>1 DEF n
  <2>2. j = k \/ j + 1 < k + 1
    BY <2>1
  <2>3. at(k + 1) \in Nat /\ at(j + 1) \in Nat
    BY <1>3, <1>5
  <2>4. CASE j = k
    BY <2>3, <2>4, <1>2, <1>4
  <2>5. CASE j + 1 < k + 1
    BY <2>3, <2>5, <1>2, <1>3, <1>4, <1>5
  <2> QED BY <2>2, <2>4, <2>5
<1>7. at(k + 1) + 8 <= end
  <2>1. k + 1 < j + 1
    BY <1>6, <1>1
  <2> QED BY <2>1, <1>2, <1>3, <1>5
<1>8. at(k + 2) <= end
  <2>1. at(k + 2) \in Nat /\ at(j + 1) \in Nat
    BY <1>3, <1>5
  <2>2. CASE k + 1 = j
    <3>1. k + 2 = j + 1
      BY <2>2, <1>1
    <3> QED BY <3>1, <2>1, <1>2
  <2>3. CASE k + 1 < j
    <3>1. k + 2 < j + 1
      BY <2>3, <1>1
    <3> QED BY <3>1, <2>1, <1>2, <1>3, <1>5
  <2> QED BY <1>6, <2>2, <2>3, <1>1
<1>9. \A id : Of(file, id, k) \subseteq Of(file, id, j) /\ k + 1 \notin Of(file, id, k)
  BY <1>1, <1>6 DEF Of
<1>10. \A id : file.chunks[k + 1].id = id => k + 1 \in Of(file, id, j)
  BY <1>1, <1>6 DEF Of
<1>11. ASSUME file.chunks[k + 1].id = "fmt"
       PROVE  file.chunks[k + 1].size >= 16 /\ Of(file, "fmt", k) = {}
  BY <1>2, <1>9, <1>10, <1>11 DEF FormatIs
<1>12. ASSUME file.chunks[k + 1].id = "data"
       PROVE  file.chunks[k + 1].size > 0 /\ Of(file, "data", k) = {}
  BY <1>2, <1>9, <1>10, <1>12 DEF DataIs
<1> QED BY <1>3, <1>7, <1>8, <1>11, <1>12 DEF at

\* The state of a walk that only moves on.
LEMMA StateWithAt ==
    ASSUME NEW places, NEW formats, NEW datas, NEW statuses,
           NEW u \in [at : places, format : formats, data : datas, status : statuses],
           NEW at \in places
    PROVE  [u EXCEPT !.at = at]
             = [at |-> at, format |-> u.format, data |-> u.data, status |-> u.status]
OBVIOUS

\* The state of one that meets a format.
LEMMA StateWithFormat ==
    ASSUME NEW s \in WalkState, NEW at \in Nat, NEW format \in Seq(WavFormat)
    PROVE  [s EXCEPT !.format = format, !.at = at]
             = [at |-> at, format |-> format, data |-> s.data, status |-> s.status]
<1> DEFINE u == [s EXCEPT !.format = format]
<1>1. [s EXCEPT !.format = format, !.at = at] = [u EXCEPT !.at = at]
  BY DEF WalkState
<1>2. u \in WalkState /\ u.format = format /\ u.data = s.data /\ u.status = s.status
  BY DEF WalkState
<1> HIDE DEF u
<1>3. [u EXCEPT !.at = at]
        = [at |-> at, format |-> u.format, data |-> u.data, status |-> u.status]
  <2>1. PICK formats, datas, statuses :
          u \in [at : Nat, format : formats, data : datas, status : statuses]
    BY <1>2, Zenon DEF WalkState
  <2> QED BY <2>1, StateWithAt
<1> QED BY <1>1, <1>2, <1>3

\* The state of one that meets data.
LEMMA StateWithData ==
    ASSUME NEW s \in WalkState, NEW at \in Nat, NEW data \in Seq([offset : Nat, bytes : Nat])
    PROVE  [s EXCEPT !.data = data, !.at = at]
             = [at |-> at, format |-> s.format, data |-> data, status |-> s.status]
<1> DEFINE u == [s EXCEPT !.data = data]
<1>1. [s EXCEPT !.data = data, !.at = at] = [u EXCEPT !.at = at]
  BY DEF WalkState
<1>2. u \in WalkState /\ u.format = s.format /\ u.data = data /\ u.status = s.status
  BY DEF WalkState
<1> HIDE DEF u
<1>3. [u EXCEPT !.at = at]
        = [at |-> at, format |-> u.format, data |-> u.data, status |-> u.status]
  <2>1. PICK formats, datas, statuses :
          u \in [at : Nat, format : formats, data : datas, status : statuses]
    BY <1>2, Zenon DEF WalkState
  <2> QED BY <2>1, StateWithAt
<1> QED BY <1>1, <1>2, <1>3

\* One chunk further the walk still has what there is, or has given up.
LEMMA WalkKeepsInv ==
    ASSUME NEW file \in WavFile, NEW end \in Nat, NEW k \in 0 .. Len(file.chunks) - 1, NEW s,
           WalkInv(file, end, k, s)
    PROVE  WalkInv(file, end, k + 1, WalkStep(end, s, file.chunks[k + 1]))
<1>0. SUFFICES ASSUME NEW c, c = file.chunks[k + 1], NEW t, t = WalkStep(end, s, c)
               PROVE  WalkInv(file, end, k + 1, t)
  OBVIOUS
<1>1. k \in Nat /\ k + 1 \in 1 .. Len(file.chunks)
  BY ChunkFacts
<1>2. c \in WavChunk /\ c.size \in Nat /\ Padded(c) \in Nat /\ Padded(c) >= 8
  <2>1. c \in WavChunk
    BY <1>0, <1>1, ChunkFacts
  <2> QED BY <2>1, PaddedIsNatural
<1>3. c.id = "fmt" => c.format \in WavFormat
  BY <1>0, <1>1, ChunkFacts
<1>4. /\ ChunkStart(file, k + 1) \in Nat
      /\ ChunkStart(file, k + 2) = ChunkStart(file, k + 1) + Padded(c)
  <2>1. k + 1 \in 1 .. Len(file.chunks) + 1 /\ (k + 1) + 1 = k + 2
    BY <1>1, ChunkFacts
  <2> QED BY <1>0, <1>1, <2>1, ChunkStarts
<1>5. \A id : Of(file, id, k + 1) = IF c.id = id THEN Of(file, id, k) \cup {k + 1}
                                    ELSE Of(file, id, k)
  BY <1>0, OfNext
<1>6. s \in WalkState
  BY DEF WalkInv
<1>7. ChunkStart(file, k + 1) < end /\ WellFormed(file, end)
        => /\ ChunkStart(file, k + 1) + 8 <= end
           /\ ChunkStart(file, k + 1) + Padded(c) <= end
           /\ c.id = "fmt" => c.size >= 16 /\ Of(file, "fmt", k) = {}
           /\ c.id = "data" => c.size > 0 /\ Of(file, "data", k) = {}
  BY <1>0, WellFormedNext
<1>13. \A x : <<x>> # <<>>
  OBVIOUS
<1>8. CASE s.status # "success" \/ s.at >= end
  <2>1. t = s
    BY <1>0, <1>8 DEF WalkStep
  <2>2. s.at \in Nat
    BY <1>6 DEF WalkState
  <2>3. ASSUME s.status = "success" PROVE Going(file, end, k + 1, s)
    <3>1. PICK j \in 0 .. k : /\ s.at = ChunkStart(file, j + 1) /\ s.at <= end
                              /\ j < k => s.at = end
                              /\ FormatFound(file, j, s.format)
                              /\ DataFound(file, j, s.data)
      BY <2>3 DEF WalkInv, Going
    <3>2. j \in 0 .. k + 1 /\ s.at = end
      BY <1>1, <1>8, <2>2, <2>3, <3>1
    <3> QED BY <3>1, <3>2, Zenon DEF Going
  <2> QED BY <2>1, <2>3 DEF WalkInv
<1>9. CASE ~(s.status # "success" \/ s.at >= end)
  <2>1. s.at \in Nat /\ s.status = "success" /\ s.at < end
    BY <1>6, <1>9 DEF WalkState
  <2>2. /\ s.at = ChunkStart(file, k + 1)
        /\ FormatFound(file, k, s.format) /\ DataFound(file, k, s.data)
    <3>1. PICK j \in 0 .. k : /\ s.at = ChunkStart(file, j + 1) /\ s.at <= end
                              /\ j < k => s.at = end
                              /\ FormatFound(file, j, s.format)
                              /\ DataFound(file, j, s.data)
      BY <2>1 DEF WalkInv, Going
    <3>2. j = k
      BY <1>1, <2>1, <3>1
    <3> QED BY <3>1, <3>2
  <2>3. ASSUME NEW status \in WalkStatus, status # "success", ~WellFormed(file, end),
               t = StopAt(s, status)
        PROVE  WalkInv(file, end, k + 1, t)
    <3>1. t \in WalkState /\ t.status = status
      BY <1>6, <2>3 DEF StopAt, WalkState
    <3> QED BY <2>3, <3>1 DEF WalkInv
  <2>4. CASE end - s.at < 8
    <3>1. t = StopAt(s, "truncated_header")
      BY <1>0, <1>9, <2>4 DEF WalkStep
    <3>2. ~WellFormed(file, end)
      BY <1>7, <2>1, <2>2, <2>4
    <3> QED BY <2>3, <3>1, <3>2 DEF WalkStatus
  <2>5. CASE ~(end - s.at < 8) /\ s.at + Padded(c) > end
    <3>1. t = StopAt(s, IF c.id = "data" THEN "truncated_data" ELSE "truncated_header")
      BY <1>0, <1>9, <2>5, Zenon DEF WalkStep
    <3>2. ~WellFormed(file, end)
      BY <1>2, <1>7, <2>1, <2>2, <2>5
    <3> QED BY <2>3, <3>1, <3>2 DEF WalkStatus
  <2>6. CASE ~(end - s.at < 8) /\ ~(s.at + Padded(c) > end)
    <3>1. /\ s.at + Padded(c) \in Nat /\ s.at + Padded(c) <= end
          /\ s.at + Padded(c) = ChunkStart(file, (k + 1) + 1)
          /\ s.format \in Seq(WavFormat) /\ s.data \in Seq([offset : Nat, bytes : Nat])
      <4>1. (k + 1) + 1 = k + 2
        BY <1>1
      <4>2. s.format \in Seq(WavFormat) /\ s.data \in Seq([offset : Nat, bytes : Nat])
        BY <1>6 DEF WalkState
      <4>3. s.at + Padded(c) \in Nat /\ s.at + Padded(c) <= end
        BY <1>2, <2>1, <2>6
      <4> QED BY <1>4, <2>2, <4>1, <4>2, <4>3
    <3>2. ASSUME NEW format \in Seq(WavFormat), FormatFound(file, k + 1, format),
                 NEW data \in Seq([offset : Nat, bytes : Nat]), DataFound(file, k + 1, data),
                 t = [at |-> s.at + Padded(c), format |-> format, data |-> data,
                      status |-> "success"]
          PROVE  WalkInv(file, end, k + 1, t)
      <4>1. t \in WalkState
        BY <3>1, <3>2 DEF WalkState, WalkStatus
      <4>2. t.at = s.at + Padded(c) /\ t.format = format /\ t.data = data /\ t.status = "success"
        BY <3>2
      <4>3. k + 1 \in 0 .. k + 1 /\ ~(k + 1 < k + 1)
        BY <1>1
      <4>4. Going(file, end, k + 1, t)
        BY <3>1, <3>2, <4>2, <4>3 DEF Going
      <4> QED BY <4>1, <4>2, <4>4, Zenon DEF WalkInv
    <3>3. CASE c.id = "fmt"
      <4>1. t = FormatStep(s, c)
        BY <1>0, <1>9, <2>6, <3>3, Zenon DEF WalkStep
      <4>2. CASE s.format # <<>> \/ c.size < 16
        <5>1. t = StopAt(s, "invalid_header")
          BY <4>1, <4>2, Zenon DEF FormatStep
        <5>2. s.format # <<>> => Of(file, "fmt", k) # {}
          BY <2>2 DEF FormatFound, FormatIs
        <5>3. ~WellFormed(file, end)
          <6>1. WellFormed(file, end) => c.size >= 16 /\ Of(file, "fmt", k) = {}
            BY <1>7, <2>1, <2>2, <3>3
          <6>2. CASE s.format # <<>>
            BY <5>2, <6>1, <6>2
          <6>3. CASE c.size < 16
            BY <6>1, <6>3, <1>2
          <6> QED BY <4>2, <6>2, <6>3
        <5> QED BY <2>3, <5>1, <5>3 DEF WalkStatus
      <4>3. CASE ~(s.format # <<>> \/ c.size < 16)
        <5>1. t = [at |-> s.at + Padded(c), format |-> <<c.format>>, data |-> s.data,
                   status |-> "success"]
          <6>1. t = [s EXCEPT !.format = <<c.format>>, !.at = @ + Padded(c)]
            BY <4>1, <4>3, Zenon DEF FormatStep
          <6> DEFINE A == s.at + Padded(c)
                     B == <<c.format>>
          <6>2. t = [s EXCEPT !.format = B, !.at = A]
            BY <6>1
          <6>3. A \in Nat /\ B \in Seq(WavFormat)
            BY <1>3, <3>1, <3>3
          <6> HIDE DEF A, B
          <6>4. t = [at |-> A, format |-> B, data |-> s.data, status |-> s.status]
            BY <1>6, <6>2, <6>3, StateWithFormat, Zenon
          <6> QED BY <2>1, <6>4 DEF A, B
        <5>2. <<c.format>> \in Seq(WavFormat)
          BY <1>3, <3>3
        <5>3. FormatFound(file, k + 1, <<c.format>>)
          <6>1. Of(file, "fmt", k) = {}
            BY <2>2, <4>3, <1>13, Zenon DEF FormatFound
          <6>2. Of(file, "fmt", k + 1) = {k + 1}
            BY <1>5, <3>3, <6>1
          <6>3. FormatIs(file, k + 1, k + 1)
            BY <1>0, <1>2, <4>3, <6>2 DEF FormatIs
          <6> QED BY <1>0, <1>1, <6>3 DEF FormatFound
        <5>4. DataFound(file, k + 1, s.data)
          <6>1. Of(file, "data", k + 1) = Of(file, "data", k)
            BY <1>5, <3>3
          <6>2. \A a \in 1 .. k : a \in 1 .. k + 1 /\ (DataIs(file, k, a) <=> DataIs(file, k + 1, a))
            BY <6>1, <1>1 DEF DataIs
          <6> QED BY <2>2, <6>1, <6>2, Zenon DEF DataFound
        <5> QED BY <3>1, <3>2, <5>1, <5>2, <5>3, <5>4
      <4> QED BY <4>2, <4>3
    <3>4. CASE c.id = "data"
      <4>1. t = DataStep(s, c)
        BY <1>0, <1>9, <2>6, <3>4, Zenon DEF WalkStep
      <4>2. CASE s.data # <<>> \/ c.size = 0
        <5>1. t = StopAt(s, IF s.data # <<>> THEN "invalid_header" ELSE "empty_data")
          BY <4>1, <4>2, Zenon DEF DataStep
        <5>2. s.data # <<>> => Of(file, "data", k) # {}
          BY <2>2 DEF DataFound, DataIs
        <5>3. ~WellFormed(file, end)
          <6>1. WellFormed(file, end) => c.size > 0 /\ Of(file, "data", k) = {}
            BY <1>7, <2>1, <2>2, <3>4
          <6>2. CASE s.data # <<>>
            BY <5>2, <6>1, <6>2
          <6>3. CASE c.size = 0
            BY <6>1, <6>3, <1>2
          <6> QED BY <4>2, <6>2, <6>3
        <5> QED BY <2>3, <5>1, <5>3 DEF WalkStatus
      <4>3. CASE ~(s.data # <<>> \/ c.size = 0)
        <5> DEFINE D == <<[offset |-> s.at + 8, bytes |-> c.size]>>
        <5>1. t = [at |-> s.at + Padded(c), format |-> s.format, data |-> D,
                   status |-> "success"]
          <6>1. t = [s EXCEPT !.data = D, !.at = @ + Padded(c)]
            BY <4>1, <4>3, Zenon DEF DataStep
          <6> DEFINE A == s.at + Padded(c)
          <6>2. t = [s EXCEPT !.data = D, !.at = A]
            BY <6>1
          <6>3. A \in Nat /\ D \in Seq([offset : Nat, bytes : Nat])
            <7>1. s.at + 8 \in Nat /\ c.size \in Nat
              BY <1>2, <2>1
            <7> QED BY <3>1, <7>1
          <6> HIDE DEF A, D
          <6>4. t = [at |-> A, format |-> s.format, data |-> D, status |-> s.status]
            BY <1>6, <6>2, <6>3, StateWithData, Zenon
          <6> QED BY <2>1, <6>4 DEF A
        <5>2. D \in Seq([offset : Nat, bytes : Nat])
          <6>1. s.at + 8 \in Nat /\ c.size \in Nat
            BY <1>2, <2>1
          <6> QED BY <6>1
        <5>3. DataFound(file, k + 1, D)
          <6>1. Of(file, "data", k) = {}
            BY <2>2, <4>3, <1>13, Zenon DEF DataFound
          <6>2. Of(file, "data", k + 1) = {k + 1}
            BY <1>5, <3>4, <6>1
          <6>3. DataIs(file, k + 1, k + 1)
            BY <1>0, <1>2, <4>3, <6>2 DEF DataIs
          <6>4. D = <<[offset |-> ChunkStart(file, k + 1) + 8, bytes |-> file.chunks[k + 1].size]>>
            BY <1>0, <2>2
          <6>5. k + 1 \in 1 .. k + 1
            BY <1>1
          <6> QED BY <6>3, <6>4, <6>5 DEF DataFound
        <5>4. FormatFound(file, k + 1, s.format)
          <6>1. Of(file, "fmt", k + 1) = Of(file, "fmt", k)
            BY <1>5, <3>4
          <6>2. \A a \in 1 .. k :
                  a \in 1 .. k + 1 /\ (FormatIs(file, k, a) <=> FormatIs(file, k + 1, a))
            BY <6>1, <1>1 DEF FormatIs
          <6> QED BY <2>2, <6>1, <6>2, Zenon DEF FormatFound
        <5> HIDE DEF D
        <5> QED BY <3>1, <3>2, <5>1, <5>2, <5>3, <5>4
      <4> QED BY <4>2, <4>3
    <3>5. CASE c.id # "fmt" /\ c.id # "data"
      <4>1. t = [s EXCEPT !.at = @ + Padded(c)]
        BY <1>0, <1>9, <2>6, <3>5, Zenon DEF WalkStep
      <4>2. t = [at |-> s.at + Padded(c), format |-> s.format, data |-> s.data,
                 status |-> "success"]
        BY <4>1, <1>6, <2>1 DEF WalkState
      <4>3. /\ Of(file, "fmt", k + 1) = Of(file, "fmt", k)
            /\ Of(file, "data", k + 1) = Of(file, "data", k)
        BY <1>5, <3>5
      <4>4. \A a \in 1 .. k :
              /\ a \in 1 .. k + 1
              /\ FormatIs(file, k, a) <=> FormatIs(file, k + 1, a)
              /\ DataIs(file, k, a) <=> DataIs(file, k + 1, a)
        BY <4>3, <1>1 DEF FormatIs, DataIs
      <4>5. FormatFound(file, k + 1, s.format) /\ DataFound(file, k + 1, s.data)
        BY <2>2, <4>3, <4>4, Zenon DEF FormatFound, DataFound
      <4> QED BY <3>1, <3>2, <4>2, <4>5
    <3> QED BY <3>3, <3>4, <3>5
  <2> QED BY <2>4, <2>5, <2>6
<1> QED BY <1>8, <1>9

\* What the walk through a container of this length says of it.
LEMMA WalkDecides ==
    ASSUME NEW file \in WavFile, NEW end \in Nat, end >= 12,
           NEW w, w = Walk(file.chunks, end)
    PROVE  /\ w.status \in WalkStatus
           /\ w.status = "success"
                => \E j \in 0 .. Len(file.chunks) :
                     /\ ChunkStart(file, j + 1) = end
                     /\ FormatFound(file, j, w.format) /\ DataFound(file, j, w.data)
           /\ w.status # "success" => ~WellFormed(file, end)
<1> DEFINE n == Len(file.chunks)
           s(k) == Walks!Fold(end, SubSeq(file.chunks, 1, k))
           P == {k \in Nat : k <= n => WalkInv(file, end, k, s(k))}
<1>1. n \in Nat /\ file.chunks \in Seq(WavChunk)
  BY ChunkFacts
<1>2. /\ s(0) = WalkBase
      /\ \A k \in 0 .. n - 1 : s(k + 1) = WalkStep(end, s(k), file.chunks[k + 1])
  BY <1>1, Walks!FoldPrefix
<1>3. WalkInv(file, end, 0, WalkBase)
  <2>1. /\ WalkBase.at = 12 /\ WalkBase.status = "success"
        /\ WalkBase.format = <<>> /\ WalkBase.data = <<>>
    BY DEF WalkBase
  <2>2. WalkBase \in WalkState
    BY DEF WalkBase, WalkState, WalkStatus
  <2>3. \A id : Of(file, id, 0) = {}
    BY DEF Of
  <2>4. FormatFound(file, 0, <<>>) /\ DataFound(file, 0, <<>>)
    BY <2>3 DEF FormatFound, DataFound
  <2>5. ChunkStart(file, 0 + 1) = 12
    BY ChunkStarts
  <2>6. Going(file, end, 0, WalkBase)
    BY <2>1, <2>4, <2>5 DEF Going
  <2> QED BY <2>1, <2>2, <2>6 DEF WalkInv
<1> HIDE DEF s, n
<1>4. 0 \in P
  BY <1>2, <1>3
<1>5. ASSUME NEW k \in Nat, k \in P PROVE k + 1 \in P
  <2> SUFFICES ASSUME k + 1 <= n PROVE WalkInv(file, end, k + 1, s(k + 1))
    OBVIOUS
  <2>1. k \in 0 .. n - 1 /\ k <= n
    BY <1>1
  <2>2. WalkInv(file, end, k, s(k))
    BY <1>5, <2>1
  <2> QED BY <1>2, <2>1, <2>2, WalkKeepsInv DEF n
<1> HIDE DEF P
<1>6. Nat \subseteq P
  BY <1>4, <1>5, Walks!NaturalInduction
<1>7. WalkInv(file, end, n, s(n))
  <2>1. n \in P /\ n <= n
    BY <1>1, <1>6
  <2> QED BY <2>1 DEF P
<1>8. s(n) = Walks!Fold(end, file.chunks)
  <2>1. SubSeq(file.chunks, 1, n) = file.chunks
    BY <1>1 DEF n
  <2> QED BY <2>1 DEF s
<1> DEFINE t == s(n)
<1>9. w = IF t.status = "success" /\ t.at < end THEN StopAt(t, "truncated_header") ELSE t
  BY <1>8, WalkIsFold
<1>10. t \in WalkState /\ t.at \in Nat /\ t.status \in WalkStatus
  BY <1>7 DEF WalkInv, WalkState
<1> HIDE DEF t
<1>11. CASE t.status = "success" /\ t.at < end
  <2>1. w.status = "truncated_header"
    BY <1>9, <1>10, <1>11 DEF StopAt, WalkState
  <2>2. PICK j \in 0 .. n : t.at = ChunkStart(file, j + 1) /\ (j < n => t.at = end)
    BY <1>7, <1>11 DEF WalkInv, Going, t
  <2>3. j = n
    BY <1>1, <1>10, <1>11, <2>2
  <2>4. ~WellFormed(file, end)
    <3> SUFFICES ASSUME NEW m \in 0 .. n, ChunkStart(file, m + 1) = end PROVE FALSE
      BY DEF WellFormed, n
    <3>1. m + 1 \in 1 .. n + 1 /\ n + 1 \in 1 .. n + 1
      BY <1>1
    <3>2. m + 1 < n + 1 => ChunkStart(file, m + 1) + 8 <= ChunkStart(file, n + 1)
      BY <3>1, ChunkStarts DEF n
    <3>3. CASE m = n
      BY <1>10, <1>11, <2>2, <2>3, <3>3
    <3>4. CASE m # n
      <4>1. m + 1 < n + 1
        BY <1>1, <3>4
      <4> QED BY <1>10, <1>11, <2>2, <2>3, <3>2, <4>1
    <3> QED BY <3>3, <3>4
  <2> QED BY <2>1, <2>4 DEF WalkStatus
<1>12. CASE ~(t.status = "success" /\ t.at < end)
  <2>1. w = t
    BY <1>9, <1>12
  <2>2. ASSUME t.status = "success"
        PROVE  \E j \in 0 .. n : /\ ChunkStart(file, j + 1) = end
                                 /\ FormatFound(file, j, t.format) /\ DataFound(file, j, t.data)
    <3>1. PICK j \in 0 .. n : /\ t.at = ChunkStart(file, j + 1) /\ t.at <= end
                              /\ FormatFound(file, j, t.format)
                              /\ DataFound(file, j, t.data)
      BY <1>7, <2>2 DEF WalkInv, Going, t
    <3>2. t.at = end
      BY <1>10, <1>12, <2>2, <3>1
    <3> QED BY <3>1, <3>2
  <2>3. t.status # "success" => ~WellFormed(file, end)
    BY <1>7 DEF WalkInv, t
  <2> QED BY <1>10, <2>1, <2>2, <2>3, Zenon DEF n
<1> QED BY <1>11, <1>12

\* A format that the loader decodes, and how many samples it then decodes.
Decodable(f, size) ==
    /\ f.tag = 1 /\ f.channels \in 1 .. 32 /\ f.bits \in {8, 16, 24, 32}
    /\ f.rate > 0 /\ f.rate <= 384000
    /\ f.align = (f.bits \div 8) * f.channels /\ f.byteRate = f.align * f.rate
    /\ size % f.align = 0

\* The checks of a format are what can be decoded.
LEMMA FormatDecides ==
    ASSUME NEW f \in WavFormat, NEW size \in Nat
    PROVE  (FormatStatus(f) = "success" /\ size % f.align = 0) <=> Decodable(f, size)
<1>1. f.tag \in Nat /\ f.channels \in Nat /\ f.rate \in Nat /\ f.bits \in Nat
      /\ f.align \in Nat /\ f.byteRate \in Nat
  BY DEF WavFormat
<1>2. f.bits \in {8, 16, 24, 32} => f.bits \div 8 \in {1, 2, 3, 4}
  BY <1>1
<1>3. f.bits \in {8, 16, 24, 32} => f.channels * (f.bits \div 8) = (f.bits \div 8) * f.channels
  BY <1>1, <1>2
<1>4. f.rate * f.align = f.align * f.rate
  BY <1>1
<1> QED BY <1>1, <1>3, <1>4 DEF FormatStatus, Decodable

\* How many samples there are: whole frames, all of the data.
LEMMA SamplesDecoded ==
    ASSUME NEW f \in WavFormat, NEW size \in Nat, size > 0, Decodable(f, size),
           NEW count, count = (size \div f.align) * f.channels
    PROVE  /\ count \in Nat \ {0} /\ count % f.channels = 0
           /\ f.rate # 0 /\ f.channels # 0
           /\ f.bits \div 8 \in 1 .. 4
           /\ count * (f.bits \div 8) = size /\ size \div (f.bits \div 8) = count
<1>1. f.channels \in 1 .. 32 /\ f.align \in Nat
  BY DEF WavFormat, Decodable
<1>2. f.bits \div 8 \in 1 .. 4
  BY DEF Decodable
<1> DEFINE b == f.bits \div 8
           q == size \div f.align
<1>3. f.align = b * f.channels /\ size % f.align = 0
  BY DEF Decodable
<1> HIDE DEF b
<1>4. b \in 1 .. 4
  BY <1>2 DEF b
<1>5. f.align \in Nat \ {0}
  BY <1>1, <1>3, <1>4
<1>6. q \in Nat /\ size = q * f.align
  BY <1>3, <1>5
<1> HIDE DEF q
<1>7. q * f.align = (q * f.channels) * b
  BY <1>1, <1>3, <1>4, <1>6
<1>8. count = q * f.channels /\ count \in Nat /\ size = count * b
  BY <1>1, <1>6, <1>7 DEF q
<1>9. count # 0
  BY <1>4, <1>8
<1>10. size \div b = count
  BY <1>4, <1>8
<1>11. count % f.channels = 0
  BY <1>1, <1>6, <1>8
<1>12. f.rate # 0 /\ f.channels # 0
  BY <1>1 DEF Decodable, WavFormat
<1> QED BY <1>4, <1>8, <1>9, <1>10, <1>11, <1>12 DEF b

-----------------------------------------------------------------------------
(* The reference, said in terms of one format chunk and one data chunk among  *)
(* the first `j`.                                                             *)

Contained(file) ==
    /\ file.place = "local" /\ file.wave
    /\ file.size <= MaxFileBytes /\ file.riff + 8 <= file.size

Complete(file, j, a, b) ==
    /\ ChunkStart(file, j + 1) = file.riff + 8
    /\ FormatIs(file, j, a) /\ DataIs(file, j, b)
    /\ Decodable(file.chunks[a].format, file.chunks[b].size)

Short(file, a, b) ==
    file.chunks[b].size \div (file.chunks[a].format.bits \div 8) <= MaxSamples

\* The chunks inside the file's RIFF size are its first ones.
LEMMA InsideIsPrefix ==
    ASSUME NEW file \in WavFile, NEW j \in 0 .. Len(file.chunks),
           ChunkStart(file, j + 1) = file.riff + 8
    PROVE  \A id : InsideOf(file, id) = Of(file, id, j)
<1> DEFINE n == Len(file.chunks)
           at(i) == ChunkStart(file, i)
<1>1. n \in Nat /\ DOMAIN file.chunks = 1 .. n
  BY ChunkFacts, LenProperties
<1>2. /\ \A i \in 1 .. n + 1 : at(i) \in Nat
      /\ \A i, m \in 1 .. n + 1 : i < m => at(i) + 8 <= at(m)
  BY ChunkStarts
<1> HIDE DEF n, at
<1>3. ASSUME NEW i \in 1 .. n PROVE at(i) < at(j + 1) <=> i <= j
  <2>1. i \in 1 .. n + 1 /\ j + 1 \in 1 .. n + 1
    BY <1>1 DEF n
  <2>2. at(i) \in Nat /\ at(j + 1) \in Nat
    BY <1>2, <2>1
  <2>3. i < j + 1 => at(i) + 8 <= at(j + 1)
    BY <1>2, <2>1
  <2>4. j + 1 < i => at(j + 1) + 8 <= at(i)
    BY <1>2, <2>1
  <2>5. i <= j <=> i < j + 1
    BY <1>1 DEF n
  <2>6. CASE i = j + 1
    BY <2>2, <2>5, <2>6
  <2>7. CASE i < j + 1
    BY <2>2, <2>3, <2>5, <2>7
  <2>8. CASE j + 1 < i
    BY <2>2, <2>4, <2>5, <2>8
  <2> QED BY <1>1, <2>1, <2>6, <2>7, <2>8
<1>4. \A i : i \in 1 .. j <=> i \in 1 .. n /\ i <= j
  BY <1>1 DEF n
<1>5. \A i : i \in DOMAIN file.chunks /\ ChunkStart(file, i) < file.riff + 8 <=> i \in 1 .. j
  BY <1>1, <1>3, <1>4 DEF at
<1> QED BY <1>5, Zenon DEF InsideOf, Of

\* What the reference calls playable, chunk by chunk.
LEMMA PlayableMeans ==
    ASSUME NEW file \in WavFile
    PROVE  Playable(file) <=>
             /\ Contained(file)
             /\ \E j \in 0 .. Len(file.chunks) : \E a, b \in 1 .. j :
                  Complete(file, j, a, b) /\ Short(file, a, b)
<1> DEFINE n == Len(file.chunks)
<1>1. n \in Nat
  BY ChunkFacts
<1>2. ASSUME NEW j \in 0 .. n, ChunkStart(file, j + 1) = file.riff + 8
      PROVE  ( /\ \A id \in {"fmt", "data"} : Cardinality(InsideOf(file, id)) = 1
               /\ \E fmt \in InsideOf(file, "fmt"), data \in InsideOf(file, "data") :
                    Fits(file.chunks[fmt], file.chunks[data]) )
             <=> \E a, b \in 1 .. j : Complete(file, j, a, b) /\ Short(file, a, b)
  <2>1. InsideOf(file, "fmt") = Of(file, "fmt", j) /\ InsideOf(file, "data") = Of(file, "data", j)
    BY <1>2, InsideIsPrefix
  <2>2. \A id : Cardinality(Of(file, id, j)) = 1 <=> \E a \in 1 .. j : Of(file, id, j) = {a}
    <3>1. \A id : Of(file, id, j) \subseteq 1 .. j /\ IsFiniteSet(Of(file, id, j))
      <4>1. IsFiniteSet(1 .. j)
        BY FS_Interval
      <4>2. \A id : Of(file, id, j) \subseteq 1 .. j
        BY DEF Of
      <4> QED BY <4>1, <4>2, FS_Subset
    <3>2. \A id : Cardinality(Of(file, id, j)) = 1 <=> \E a : Of(file, id, j) = {a}
      BY <3>1, FS_Singleton
    <3> QED BY <3>1, <3>2
  <2>3. ASSUME NEW a \in 1 .. j, NEW b \in 1 .. j,
               Of(file, "fmt", j) = {a}, Of(file, "data", j) = {b}
        PROVE  (\E fmt \in InsideOf(file, "fmt"), data \in InsideOf(file, "data") :
                  Fits(file.chunks[fmt], file.chunks[data]))
               <=> Complete(file, j, a, b) /\ Short(file, a, b)
    <3>1. InsideOf(file, "fmt") = {a} /\ InsideOf(file, "data") = {b}
      BY <2>1, <2>3
    <3>2. Fits(file.chunks[a], file.chunks[b]) <=> Complete(file, j, a, b) /\ Short(file, a, b)
      BY <1>2, <2>3 DEF Fits, Decodable, Complete, Short, FormatIs, DataIs
    <3> QED BY <3>1, <3>2
  <2>4. \A a, b : Complete(file, j, a, b)
                  => Of(file, "fmt", j) = {a} /\ Of(file, "data", j) = {b}
    BY DEF Complete, FormatIs, DataIs
  <2> QED BY <2>1, <2>2, <2>3, <2>4
<1>3. (\E i \in 1 .. n + 1 : ChunkStart(file, i) = file.riff + 8)
        <=> \E j \in 0 .. n : ChunkStart(file, j + 1) = file.riff + 8
  <2>1. ASSUME NEW i \in 1 .. n + 1, ChunkStart(file, i) = file.riff + 8
        PROVE  \E j \in 0 .. n : ChunkStart(file, j + 1) = file.riff + 8
    <3>1. i - 1 \in 0 .. n /\ (i - 1) + 1 = i
      BY <1>1
    <3> QED BY <2>1, <3>1
  <2>2. \A j \in 0 .. n : j + 1 \in 1 .. n + 1
    BY <1>1
  <2> QED BY <2>1, <2>2
<1>4. \A j, a, b : Complete(file, j, a, b) => ChunkStart(file, j + 1) = file.riff + 8
  BY DEF Complete
<1> HIDE DEF n
<1> DEFINE counted == /\ \A id \in {"fmt", "data"} : Cardinality(InsideOf(file, id)) = 1
                      /\ \E fmt \in InsideOf(file, "fmt"), data \in InsideOf(file, "data") :
                           Fits(file.chunks[fmt], file.chunks[data])
<1>5. Playable(file) <=> /\ Contained(file)
                         /\ \E j \in 0 .. n : ChunkStart(file, j + 1) = file.riff + 8
                         /\ counted
  BY <1>3, Zenon DEF Playable, Contained, n
<1>6. \A j \in 0 .. n : ChunkStart(file, j + 1) = file.riff + 8
        => (counted <=> \E a, b \in 1 .. j : Complete(file, j, a, b) /\ Short(file, a, b))
  BY <1>2
<1> HIDE DEF counted
<1> QED BY <1>4, <1>5, <1>6, Zenon DEF n

-----------------------------------------------------------------------------
(* What the loader makes of a file.                                           *)

Decoded(file) ==
    (ParseWav(file).data[1].bytes \div ParseWav(file).format[1].align)
      * ParseWav(file).format[1].channels

\* The parser succeeds with the one format and the one data chunk, or not at all.
LEMMA ParseDecides ==
    ASSUME NEW file \in WavFile
    PROVE  /\ ParseWav(file).status = "success" =>
                /\ file.wave /\ file.riff + 8 <= file.size
                /\ \E j \in 0 .. Len(file.chunks) : \E a, b \in 1 .. j :
                     /\ Complete(file, j, a, b)
                     /\ ParseWav(file).format = <<file.chunks[a].format>>
                     /\ ParseWav(file).data = <<[offset |-> ChunkStart(file, b) + 8,
                                                 bytes |-> file.chunks[b].size]>>
           /\ ParseWav(file).status # "success" /\ file.wave /\ file.riff + 8 <= file.size
                => ~\E j \in 0 .. Len(file.chunks) : \E a, b \in 1 .. j :
                      Complete(file, j, a, b)
<1> DEFINE n == Len(file.chunks)
           end == file.riff + 8
           w == Walk(file.chunks, end)
           status ==
             IF RiffStatus(file) # "success" THEN RiffStatus(file)
             ELSE IF w.status # "success" THEN w.status
             ELSE IF w.format = <<>> THEN "missing_format_chunk"
             ELSE IF w.data = <<>> THEN "missing_data_chunk"
             ELSE IF FormatStatus(w.format[1]) # "success" THEN FormatStatus(w.format[1])
             ELSE IF w.data[1].bytes % w.format[1].align # 0 THEN "truncated_data"
             ELSE "success"
<1>1. ParseWav(file) = [status |-> status, format |-> w.format, data |-> w.data]
  BY Zenon DEF ParseWav, Verdict
<1>2. n \in Nat /\ file.riff \in Nat /\ file.size \in Nat /\ end \in Nat
  <2>1. file.riff \in Nat /\ file.size \in Nat
    BY DEF WavFile
  <2> QED BY <2>1, ChunkFacts
<1>3. \A j \in 1 .. n : /\ file.chunks[j] \in WavChunk /\ file.chunks[j].size \in Nat
                        /\ file.chunks[j].id = "fmt" => file.chunks[j].format \in WavFormat
  <2>1. \A c \in WavChunk : c.size \in Nat
    BY PaddedIsNatural
  <2> QED BY <2>1, ChunkFacts
<1>4. \A j \in 1 .. n + 1 : ChunkStart(file, j) \in Nat
  BY ChunkStarts
<1>5. RiffStatus(file) = "success"
        <=> file.size >= 12 /\ file.wave /\ file.riff >= 4 /\ end <= file.size
  BY <1>2 DEF RiffStatus
<1>6. end >= 12 =>
        /\ w.status \in WalkStatus
        /\ w.status = "success"
             => \E j \in 0 .. n : /\ ChunkStart(file, j + 1) = end
                                  /\ FormatFound(file, j, w.format)
                                  /\ DataFound(file, j, w.data)
        /\ w.status # "success" => ~WellFormed(file, end)
  BY <1>2, WalkDecides
<1>7. \A x : <<x>> # <<>> /\ <<x>>[1] = x
  OBVIOUS
<1>8. ASSUME NEW j \in 0 .. n, NEW a \in 1 .. j, NEW b \in 1 .. j,
             FormatIs(file, j, a), DataIs(file, j, b)
      PROVE  Complete(file, j, a, b) <=>
               /\ ChunkStart(file, j + 1) = end
               /\ FormatStatus(file.chunks[a].format) = "success"
               /\ file.chunks[b].size % file.chunks[a].format.align = 0
  <2>1. a \in 1 .. n /\ b \in 1 .. n
    BY <1>2
  <2>2. a \in Of(file, "fmt", j)
    BY <1>8 DEF FormatIs
  <2>3. file.chunks[a].format \in WavFormat /\ file.chunks[b].size \in Nat
    BY <1>3, <2>1, <2>2 DEF Of
  <2> QED BY <1>8, <2>3, FormatDecides DEF Complete
<1> HIDE DEF w, n
<1>9. ASSUME status = "success"
      PROVE  /\ file.wave /\ end <= file.size
             /\ \E j \in 0 .. n : \E a, b \in 1 .. j :
                  /\ Complete(file, j, a, b)
                  /\ w.format = <<file.chunks[a].format>>
                  /\ w.data = <<[offset |-> ChunkStart(file, b) + 8,
                                 bytes |-> file.chunks[b].size]>>
  <2>1. /\ RiffStatus(file) = "success" /\ w.status = "success"
        /\ w.format # <<>> /\ w.data # <<>>
        /\ FormatStatus(w.format[1]) = "success" /\ w.data[1].bytes % w.format[1].align = 0
    <3> HIDE DEF end
    <3> QED BY <1>9, Zenon
  <2>2. end >= 12 /\ file.wave /\ end <= file.size
    BY <1>2, <1>5, <2>1
  <2>3. PICK j \in 0 .. n : /\ ChunkStart(file, j + 1) = end
                            /\ FormatFound(file, j, w.format)
                            /\ DataFound(file, j, w.data)
    BY <1>6, <2>1, <2>2
  <2>4. PICK a \in 1 .. j : FormatIs(file, j, a) /\ w.format = <<file.chunks[a].format>>
    BY <2>1, <2>3 DEF FormatFound
  <2>5. PICK b \in 1 .. j : /\ DataIs(file, j, b)
                            /\ w.data = <<[offset |-> ChunkStart(file, b) + 8,
                                           bytes |-> file.chunks[b].size]>>
    BY <2>1, <2>3 DEF DataFound
  <2>6. w.format[1] = file.chunks[a].format /\ w.data[1].bytes = file.chunks[b].size
    BY <2>4, <2>5
  <2>7. Complete(file, j, a, b)
    BY <1>8, <2>1, <2>3, <2>4, <2>5, <2>6
  <2> QED BY <2>2, <2>4, <2>5, <2>7
<1>10. ASSUME file.wave, end <= file.size,
              NEW j \in 0 .. n, NEW a \in 1 .. j, NEW b \in 1 .. j, Complete(file, j, a, b)
       PROVE  status = "success"
  <2>1. ChunkStart(file, j + 1) = end /\ FormatIs(file, j, a) /\ DataIs(file, j, b)
    BY <1>10 DEF Complete
  <2>2. end >= 12 + 8
    <3>1. 1 \in 1 .. n + 1 /\ j + 1 \in 1 .. n + 1 /\ 1 < j + 1
      BY <1>2
    <3>2. ChunkStart(file, 1) + 8 <= ChunkStart(file, j + 1) /\ ChunkStart(file, 1) = 12
      BY <3>1, ChunkStarts DEF n
    <3> QED BY <1>2, <2>1, <3>2
  <2>3. RiffStatus(file) = "success" /\ end >= 12
    BY <1>2, <1>5, <1>10, <2>2
  <2>4. WellFormed(file, end)
    BY <2>1 DEF WellFormed, n
  <2>5. w.status = "success"
    BY <1>6, <2>3, <2>4
  <2>6. PICK k \in 0 .. n : /\ ChunkStart(file, k + 1) = end
                            /\ FormatFound(file, k, w.format)
                            /\ DataFound(file, k, w.data)
    BY <1>6, <2>3, <2>5
  <2>7. k = j
    <3>1. k + 1 \in 1 .. n + 1 /\ j + 1 \in 1 .. n + 1 /\ k \in Int /\ j \in Int
      BY <1>2
    <3>2. /\ k + 1 < j + 1 => ChunkStart(file, k + 1) + 8 <= ChunkStart(file, j + 1)
          /\ j + 1 < k + 1 => ChunkStart(file, j + 1) + 8 <= ChunkStart(file, k + 1)
      BY <3>1, ChunkStarts DEF n
    <3> QED BY <1>2, <2>1, <2>6, <3>1, <3>2
  <2>8. Of(file, "fmt", j) = {a} /\ Of(file, "data", j) = {b}
    BY <2>1 DEF FormatIs, DataIs
  <2>9. w.format = <<file.chunks[a].format>>
    BY <2>6, <2>7, <2>8 DEF FormatFound, FormatIs
  <2>10. w.data = <<[offset |-> ChunkStart(file, b) + 8, bytes |-> file.chunks[b].size]>>
    BY <2>6, <2>7, <2>8 DEF DataFound, DataIs
  <2>11. /\ w.format # <<>> /\ w.format[1] = file.chunks[a].format
         /\ w.data # <<>> /\ w.data[1].bytes = file.chunks[b].size
    BY <2>9, <2>10
  <2>12. /\ FormatStatus(file.chunks[a].format) = "success"
         /\ file.chunks[b].size % file.chunks[a].format.align = 0
    BY <1>8, <1>10, <2>1
  <2> HIDE DEF end
  <2> QED BY <2>3, <2>5, <2>11, <2>12, Zenon
<1> HIDE DEF status
<1>11. /\ ParseWav(file).status = status
       /\ ParseWav(file).format = w.format /\ ParseWav(file).data = w.data
  BY <1>1
<1> QED BY <1>9, <1>10, <1>11, Zenon DEF n

\* What loading returns in each case.
LEMMA LoadUnfolded ==
    ASSUME NEW file
    PROVE  LoadWavPcm(file) =
             IF ValidateWavPcm(file) # "success" \/ Decoded(file) > MaxSamples
             THEN [op |-> "load", file |-> file,
                   status |-> IF ValidateWavPcm(file) # "success" THEN ValidateWavPcm(file)
                              ELSE "too_large",
                   read |-> {}, audio |-> [rate |-> 0, channels |-> 0, count |-> 0]]
             ELSE [op |-> "load", file |-> file, status |-> "success",
                   read |-> ParseWav(file).data[1].offset ..
                              ParseWav(file).data[1].offset
                              + Decoded(file) * (ParseWav(file).format[1].bits \div 8) - 1,
                   audio |-> [rate |-> ParseWav(file).format[1].rate,
                              channels |-> ParseWav(file).format[1].channels,
                              count |-> Decoded(file)]]
<1>1. CASE ValidateWavPcm(file) # "success"
  BY <1>1, Zenon DEF LoadWavPcm, DecodeWav, Decoded
<1>2. CASE ValidateWavPcm(file) = "success" /\ Decoded(file) > MaxSamples
  BY <1>2, Zenon DEF LoadWavPcm, DecodeWav, Decoded
<1>3. CASE ValidateWavPcm(file) = "success" /\ ~(Decoded(file) > MaxSamples)
  BY <1>3, Zenon DEF LoadWavPcm, DecodeWav, Decoded
<1> QED BY <1>1, <1>2, <1>3

\* A file is decoded exactly if it is playable, from its own bytes, into audio with samples.
LEMMA LoadDecides ==
    ASSUME NEW file \in WavFile
    PROVE  LET r == LoadWavPcm(file)
           IN  /\ r.op = "load" /\ r.file = file
               /\ r.status = "success" <=> Playable(file)
               /\ \A byte \in r.read : 12 <= byte /\ byte < file.size
               /\ r.status = "success" => ValidAsset(r.audio)
               /\ r.status # "success" => r.audio.count = 0
<1> DEFINE n == Len(file.chunks)
           p == ParseWav(file)
           Fine(j, a, b) ==
             /\ Complete(file, j, a, b)
             /\ p.format = <<file.chunks[a].format>>
             /\ p.data = <<[offset |-> ChunkStart(file, b) + 8, bytes |-> file.chunks[b].size]>>
<1>1. /\ n \in Nat /\ file.riff \in Nat /\ file.size \in Nat
      /\ file.place \in Places
  <2>1. file.riff \in Nat /\ file.size \in Nat /\ file.place \in Places
    BY DEF WavFile
  <2> QED BY <2>1, ChunkFacts
<1>2. /\ p.status = "success"
           => /\ file.wave /\ file.riff + 8 <= file.size
              /\ \E j \in 0 .. n : \E a, b \in 1 .. j : Fine(j, a, b)
      /\ p.status # "success" /\ file.wave /\ file.riff + 8 <= file.size
           => ~\E j \in 0 .. n : \E a, b \in 1 .. j : Complete(file, j, a, b)
  BY ParseDecides
<1>3. ReadLocalFile(file) = "success"
        <=> file.place = "local" /\ file.size # 0 /\ file.size <= MaxFileBytes
  BY <1>1, LimitsAssumption DEF ReadLocalFile, Places
<1> DEFINE v == ValidateWavPcm(file)
<1>4. v = "success" <=> ReadLocalFile(file) = "success" /\ p.status = "success"
  <2> HIDE DEF p
  <2> QED BY DEF ValidateWavPcm, p
<1>5. Playable(file) <=> /\ Contained(file)
                         /\ \E j \in 0 .. n : \E a, b \in 1 .. j :
                              Complete(file, j, a, b) /\ Short(file, a, b)
  BY PlayableMeans
<1> DEFINE count == Decoded(file)
<1>6. ASSUME NEW j \in 0 .. n, NEW a \in 1 .. j, NEW b \in 1 .. j, Fine(j, a, b),
             file.riff + 8 <= file.size
      PROVE  /\ count \in Nat \ {0} /\ count % p.format[1].channels = 0
             /\ p.format[1].rate # 0 /\ p.format[1].channels # 0
             /\ count > MaxSamples <=> ~Short(file, a, b)
             /\ p.data[1].offset \in Nat /\ p.data[1].offset >= 12
             /\ count * (p.format[1].bits \div 8) \in Nat
             /\ p.data[1].offset + count * (p.format[1].bits \div 8) <= file.size
  <2>1. a \in 1 .. n /\ b \in 1 .. n
    BY <1>1
  <2>2. /\ ChunkStart(file, j + 1) = file.riff + 8 /\ Decodable(file.chunks[a].format, file.chunks[b].size)
        /\ file.chunks[b].size > 0 /\ a \in Of(file, "fmt", j)
    BY <1>6 DEF Complete, FormatIs, DataIs
  <2>3. file.chunks[a].format \in WavFormat /\ file.chunks[b] \in WavChunk
    BY <2>1, <2>2, ChunkFacts DEF Of
  <2>4. /\ file.chunks[b].size \in Nat /\ Padded(file.chunks[b]) \in Nat
        /\ Padded(file.chunks[b]) >= 8 + file.chunks[b].size
    BY <2>3, PaddedIsNatural
  <2>5. /\ p.format[1] = file.chunks[a].format
        /\ p.data[1].bytes = file.chunks[b].size
        /\ p.data[1].offset = ChunkStart(file, b) + 8
    <3> HIDE DEF p
    <3> QED BY <1>6
  <2> DEFINE f == file.chunks[a].format
             size == file.chunks[b].size
  <2>6. count = (size \div f.align) * f.channels
    BY <2>5 DEF Decoded
  <2> HIDE DEF p, count
  <2>7. /\ count \in Nat \ {0} /\ count % f.channels = 0 /\ f.bits \div 8 \in 1 .. 4
        /\ count * (f.bits \div 8) = size /\ size \div (f.bits \div 8) = count
        /\ f.rate # 0 /\ f.channels # 0
    <3>1. f \in WavFormat /\ size \in Nat /\ size > 0 /\ Decodable(f, size)
      BY <2>2, <2>3, <2>4
    <3> HIDE DEF f, size
    <3>2. count = (size \div f.align) * f.channels
      BY <2>6
    <3> QED BY <3>1, <3>2, SamplesDecoded
  <2>9. count > MaxSamples <=> ~Short(file, a, b)
    BY <2>7, LimitsAssumption DEF Short
  <2>10. ChunkStart(file, b) \in Nat /\ ChunkStart(file, b) >= 12
    <3>1. b \in 1 .. n + 1 /\ 1 \in 1 .. n + 1 /\ (b = 1 \/ 1 < b)
      BY <1>1, <2>1
    <3>2. ChunkStart(file, b) \in Nat /\ ChunkStart(file, 1) = 12
      BY <3>1, ChunkStarts
    <3>3. 1 < b => ChunkStart(file, 1) + 8 <= ChunkStart(file, b)
      BY <3>1, ChunkStarts
    <3> QED BY <3>1, <3>2, <3>3
  <2>11. ChunkStart(file, b) + 8 + size <= file.size
    <3>1. b + 1 \in 1 .. n + 1 /\ j + 1 \in 1 .. n + 1 /\ (b = j \/ b + 1 < j + 1)
      BY <1>1
    <3>2. ChunkStart(file, b + 1) = ChunkStart(file, b) + Padded(file.chunks[b])
      BY <2>1, ChunkStarts
    <3>3. b + 1 < j + 1 => ChunkStart(file, b + 1) + 8 <= ChunkStart(file, j + 1)
      BY <3>1, ChunkStarts
    <3>4. ChunkStart(file, b + 1) \in Nat /\ ChunkStart(file, j + 1) \in Nat
      BY <3>1, ChunkStarts
    <3>5. ChunkStart(file, b + 1) <= ChunkStart(file, j + 1)
      BY <3>1, <3>3, <3>4
    <3> HIDE DEF size
    <3>6. Padded(file.chunks[b]) >= 8 + size /\ size \in Nat
      BY <2>4 DEF size
    <3>7. ChunkStart(file, j + 1) <= file.size
      BY <1>6, <2>2
    <3>8. ChunkStart(file, b) + 8 + size <= ChunkStart(file, b + 1)
      BY <2>4, <2>10, <3>2, <3>6
    <3> QED BY <1>1, <2>10, <3>4, <3>5, <3>6, <3>7, <3>8
  <2> HIDE DEF f, size
  <2>12. p.data[1].offset \in Nat /\ p.data[1].offset >= 12
    BY <2>5, <2>10
  <2>13. size \in Nat /\ p.data[1].offset + size <= file.size
    BY <2>4, <2>5, <2>11 DEF size
  <2> QED BY <2>5, <2>7, <2>9, <2>12, <2>13 DEF f, size
<1> HIDE DEF p, v, count
<1> DEFINE r == LoadWavPcm(file)
<1>7. CASE v # "success" \/ count > MaxSamples
  <2>1. /\ r.op = "load" /\ r.file = file /\ r.status # "success"
        /\ r.read = {} /\ r.audio.count = 0
    <3>1. r = [op |-> "load", file |-> file,
               status |-> IF v # "success" THEN v ELSE "too_large",
               read |-> {}, audio |-> [rate |-> 0, channels |-> 0, count |-> 0]]
      BY <1>7, LoadUnfolded, Zenon DEF v, count
    <3> HIDE DEF r
    <3> QED BY <3>1
  <2>2. ~Playable(file)
    <3> SUFFICES ASSUME Playable(file) PROVE FALSE
      OBVIOUS
    <3>0. PICK j \in 0 .. n : \E a, b \in 1 .. j : Complete(file, j, a, b) /\ Short(file, a, b)
      BY <1>5
    <3>1. PICK a \in 1 .. j, b \in 1 .. j : Complete(file, j, a, b) /\ Short(file, a, b)
      BY <3>0
    <3>2. Contained(file)
      BY <1>5
    <3>3. /\ file.place = "local" /\ file.wave
          /\ file.size <= MaxFileBytes /\ file.riff + 8 <= file.size
      BY <3>2 DEF Contained
    <3>4. p.status = "success"
      BY <1>2, <3>1, <3>3
    <3>5. v = "success"
      <4>1. file.size # 0
        BY <1>1, <3>3
      <4> QED BY <1>3, <1>4, <3>3, <3>4, <4>1
    <3>10. PICK j1 \in 0 .. n : \E a1, b1 \in 1 .. j1 : Fine(j1, a1, b1)
      BY <1>2, <3>4
    <3>6. PICK a1 \in 1 .. j1, b1 \in 1 .. j1 : Fine(j1, a1, b1)
      BY <3>10
    <3>7. j1 = j
      <4>1. ChunkStart(file, j + 1) = file.riff + 8 /\ ChunkStart(file, j1 + 1) = file.riff + 8
        BY <3>1, <3>6 DEF Complete
      <4>2. j + 1 \in 1 .. n + 1 /\ j1 + 1 \in 1 .. n + 1 /\ j \in Int /\ j1 \in Int
        BY <1>1
      <4>3. /\ j + 1 < j1 + 1 => ChunkStart(file, j + 1) + 8 <= ChunkStart(file, j1 + 1)
            /\ j1 + 1 < j + 1 => ChunkStart(file, j1 + 1) + 8 <= ChunkStart(file, j + 1)
        BY <4>2, ChunkStarts
      <4> QED BY <1>1, <4>1, <4>2, <4>3
    <3>8. a1 = a /\ b1 = b
      <4>1. /\ Of(file, "fmt", j) = {a} /\ Of(file, "data", j) = {b}
            /\ Of(file, "fmt", j1) = {a1} /\ Of(file, "data", j1) = {b1}
        BY <3>1, <3>6 DEF Complete, FormatIs, DataIs
      <4> QED BY <3>7, <4>1
    <3>9. ~(count > MaxSamples)
      BY <1>6, <3>1, <3>3, <3>6, <3>8
    <3> QED BY <1>7, <3>5, <3>9
  <2> HIDE DEF r
  <2> QED BY <2>1, <2>2 DEF r
<1>8. CASE ~(v # "success" \/ count > MaxSamples)
  <2>1. r = [op |-> "load", file |-> file, status |-> "success",
             read |-> p.data[1].offset ..
                        p.data[1].offset + count * (p.format[1].bits \div 8) - 1,
             audio |-> [rate |-> p.format[1].rate, channels |-> p.format[1].channels,
                        count |-> count]]
    BY <1>8, LoadUnfolded, Zenon DEF v, count, p
  <2>2. /\ ReadLocalFile(file) = "success" /\ p.status = "success"
        /\ file.wave /\ file.riff + 8 <= file.size
    BY <1>2, <1>4, <1>8
  <2>9. PICK j \in 0 .. n : \E a, b \in 1 .. j : Fine(j, a, b)
    BY <1>2, <2>2
  <2>3. PICK a \in 1 .. j, b \in 1 .. j : Fine(j, a, b)
    BY <2>9
  <2>4. /\ count \in Nat \ {0} /\ count % p.format[1].channels = 0
        /\ p.format[1].rate # 0 /\ p.format[1].channels # 0
        /\ count > MaxSamples <=> ~Short(file, a, b)
        /\ p.data[1].offset \in Nat /\ p.data[1].offset >= 12
        /\ count * (p.format[1].bits \div 8) \in Nat
        /\ p.data[1].offset + count * (p.format[1].bits \div 8) <= file.size
    BY <1>6, <2>2, <2>3
  <2>5. Playable(file)
    <3>1. Contained(file)
      BY <1>3, <2>2 DEF Contained
    <3>2. Complete(file, j, a, b) /\ Short(file, a, b)
      BY <1>8, <2>3, <2>4
    <3> QED BY <1>5, <3>1, <3>2
  <2> HIDE DEF r
  <2>6. /\ r.op = "load" /\ r.file = file /\ r.status = "success"
        /\ r.read = p.data[1].offset ..
                      p.data[1].offset + count * (p.format[1].bits \div 8) - 1
        /\ r.audio.rate = p.format[1].rate /\ r.audio.channels = p.format[1].channels
        /\ r.audio.count = count
    BY <2>1
  <2>7. \A byte \in r.read : 12 <= byte /\ byte < file.size
    <3> DEFINE o == p.data[1].offset
               l == count * (p.format[1].bits \div 8)
    <3>1. r.read = o .. o + l - 1 /\ o \in Nat /\ o >= 12 /\ l \in Nat /\ o + l <= file.size
      BY <2>4, <2>6
    <3> HIDE DEF o, l
    <3> QED BY <1>1, <3>1
  <2>8. ValidAsset(r.audio)
    BY <2>4, <2>6 DEF ValidAsset
  <2> QED BY <2>5, <2>6, <2>7, <2>8 DEF r
<1> QED BY <1>7, <1>8 DEF r

-----------------------------------------------------------------------------
(* The catalog.                                                               *)

Recorded ==
    /\ sound.op = "load" => sound.file \in WavFiles /\ sound = LoadWavPcm(sound.file)
    /\ sound.op = "check" =>
         sound.file \in WavFiles /\ sound.status = ValidateCustomAudio(sound.file)

AssetsAreSounds == assets \in [AssetKinds -> PlayableSounds \cup {NoAsset}]

BuildsSound ==
    sound.op = "build" =>
      /\ sound.built.status = "success" <=> HasAsset(sound.kind)
      /\ sound.built.audio.count = 0
           => ~HasAsset(sound.kind) \/ (sound.kind = "beep" /\ sound.frames = 0)

SoundInv == Recorded /\ AssetsAreSounds /\ BuildsSound

\* A file that is refused for another reason than its format is not playable.
LEMMA ChoiceIsRight ==
    ASSUME NEW file \in WavFile,
           ValidateCustomAudio(file) \notin {"valid", "unsupported_format"}
    PROVE  ~Playable(file)
<1>1. file.riff \in Nat /\ file.size \in Nat
  BY DEF WavFile
<1>2. file.place # "local" \/ file.size = 0
  BY DEF ValidateCustomAudio
<1>3. CASE file.place # "local"
  BY <1>3, Zenon DEF Playable
<1>4. CASE file.size = 0
  <2>1. ~(file.riff + 8 <= file.size)
    BY <1>1, <1>4
  <2> QED BY <2>1, Zenon DEF Playable
<1> QED BY <1>2, <1>3, <1>4

\* A sound that can be played is an asset, and not none.
LEMMA PlayableSoundIsValid ==
    ASSUME NEW audio \in PlayableSounds
    PROVE  ValidAsset(audio) /\ audio # NoAsset
<1>1. PICK file \in WavFiles : Playable(file) /\ audio = LoadWavPcm(file).audio
  BY DEF PlayableSounds
<1>2. ValidAsset(audio)
  BY <1>1, LoadDecides, WavFilesAssumption
<1>3. audio.count # 0 /\ NoAsset.count = 0
  BY <1>2 DEF ValidAsset, NoAsset
<1> QED BY <1>2, <1>3

\* The beep needs no asset.
LEMMA BuildOfBeep ==
    ASSUME NEW kind, NEW rate, NEW channels, NEW frames, kind = "beep"
    PROVE  Build(kind, rate, channels, frames)
             = [status |-> "success", audio |-> Beep(rate, channels, frames)]
BY Zenon DEF Build

\* Without the asset there is no sound.
LEMMA BuildOfNothing ==
    ASSUME NEW kind, NEW rate, NEW channels, NEW frames, kind # "beep", assets[kind] = NoAsset
    PROVE  Build(kind, rate, channels, frames).status = "missing_asset"
<1>1. Build(kind, rate, channels, frames)
        = [status |-> "missing_asset",
           audio |-> [rate |-> rate, channels |-> channels, count |-> 0]]
  BY Zenon DEF Build
<1> QED BY <1>1

\* With it, it is the sound.
LEMMA BuildOfAsset ==
    ASSUME NEW kind, NEW rate, NEW channels, NEW frames, kind # "beep",
           assets[kind] # NoAsset, ValidAsset(assets[kind])
    PROVE  Build(kind, rate, channels, frames) = [status |-> "success", audio |-> assets[kind]]
BY Zenon DEF Build

\* Assets are sounds that were decoded, always.
LEMMA SoundInvHolds == SoundSpec => []SoundInv
<1>1. SoundInit => SoundInv
  <2> SUFFICES ASSUME SoundInit PROVE SoundInv
    OBVIOUS
  <2>1. sound.op = "none" /\ assets = [k \in AssetKinds |-> NoAsset]
    BY DEF SoundInit
  <2>2. Recorded /\ BuildsSound
    BY <2>1 DEF Recorded, BuildsSound
  <2>3. AssetsAreSounds
    BY <2>1 DEF AssetsAreSounds
  <2> QED BY <2>2, <2>3 DEF SoundInv
<1>2. ASSUME SoundInv, [SoundNext]_soundVars PROVE SoundInv'
  <2>1. Recorded /\ AssetsAreSounds /\ BuildsSound
    BY <1>2 DEF SoundInv
  <2>2. CASE DropResult
    <3>1. sound'.op = "none" /\ assets' = assets
      BY <2>2 DEF DropResult
    <3>2. Recorded' /\ BuildsSound'
      BY <3>1 DEF Recorded, BuildsSound
    <3>3. AssetsAreSounds'
      BY <2>1, <3>1 DEF AssetsAreSounds
    <3> QED BY <3>2, <3>3 DEF SoundInv
  <2>3. ASSUME NEW file \in WavFiles, Load(file) PROVE SoundInv'
    <3>1. sound' = LoadWavPcm(file) /\ assets' = assets
      BY <2>3 DEF Load
    <3>2. LoadWavPcm(file).op = "load" /\ LoadWavPcm(file).file = file
      BY LoadDecides, WavFilesAssumption
    <3>3. Recorded' /\ BuildsSound'
      BY <3>1, <3>2 DEF Recorded, BuildsSound
    <3>4. AssetsAreSounds'
      BY <2>1, <3>1 DEF AssetsAreSounds
    <3> QED BY <3>3, <3>4 DEF SoundInv
  <2>4. ASSUME NEW file \in WavFiles, ValidateChoice(file) PROVE SoundInv'
    <3>1. /\ sound' = [op |-> "check", file |-> file, status |-> ValidateCustomAudio(file)]
          /\ assets' = assets
      BY <2>4 DEF ValidateChoice
    <3>2. Recorded' /\ BuildsSound'
      BY <3>1 DEF Recorded, BuildsSound
    <3>3. AssetsAreSounds'
      BY <2>1, <3>1 DEF AssetsAreSounds
    <3> QED BY <3>2, <3>3 DEF SoundInv
  <2>5. ASSUME NEW kind \in Kinds, RegisterAsset(kind) PROVE SoundInv'
    <3>1. sound.op = "load" /\ sound'.op = "register"
      BY <2>5 DEF RegisterAsset
    <3>2. \/ assets' = assets
          \/ /\ kind # "beep" /\ ValidAsset(sound.audio)
             /\ assets' = [assets EXCEPT ![kind] = sound.audio]
      BY <2>5, Zenon DEF RegisterAsset
    <3>3. ASSUME ValidAsset(sound.audio) PROVE sound.audio \in PlayableSounds
      <4>1. sound.file \in WavFiles /\ sound = LoadWavPcm(sound.file)
        BY <2>1, <3>1 DEF Recorded
      <4>2. Playable(sound.file)
        <5>1. sound.audio.count # 0
          BY <3>3 DEF ValidAsset
        <5> QED BY <4>1, <5>1, LoadDecides, WavFilesAssumption
      <4> QED BY <4>1, <4>2 DEF PlayableSounds
    <3>6. kind # "beep" => kind \in AssetKinds
      BY DEF Kinds
    <3>4. AssetsAreSounds'
      BY <2>1, <3>2, <3>3, <3>6 DEF AssetsAreSounds
    <3>5. Recorded' /\ BuildsSound'
      BY <3>1 DEF Recorded, BuildsSound
    <3> QED BY <3>4, <3>5 DEF SoundInv
  <2>6. ASSUME NEW kind \in Kinds, ClearAsset(kind) PROVE SoundInv'
    <3>1. /\ sound.op = "none" /\ sound' = sound /\ kind \in AssetKinds
          /\ assets' = [assets EXCEPT ![kind] = NoAsset]
      BY <2>6 DEF ClearAsset, Kinds
    <3>2. AssetsAreSounds'
      BY <2>1, <3>1 DEF AssetsAreSounds
    <3>3. Recorded' /\ BuildsSound'
      BY <3>1 DEF Recorded, BuildsSound
    <3> QED BY <3>2, <3>3 DEF SoundInv
  <2>7. ASSUME NEW kind \in Kinds, NEW rate \in {8000, 48000}, NEW channels \in 1 .. 2,
               NEW frames \in 0 .. 2, BuildReplacement(kind, rate, channels, frames)
        PROVE  SoundInv'
    <3>1. /\ sound' = [op |-> "build", kind |-> kind, frames |-> frames,
                       built |-> Build(kind, rate, channels, frames)]
          /\ assets' = assets
      BY <2>7 DEF BuildReplacement
    <3> DEFINE b == Build(kind, rate, channels, frames)
    <3>4. /\ b.status = "success" <=> HasAsset(kind)
          /\ b.audio.count = 0 => ~HasAsset(kind) \/ (kind = "beep" /\ frames = 0)
      <4>1. CASE kind = "beep"
        <5>1. b = [status |-> "success", audio |-> Beep(rate, channels, frames)]
          BY <4>1, BuildOfBeep
        <5> HIDE DEF b
        <5>2. b.status = "success" /\ HasAsset(kind)
          BY <4>1, <5>1 DEF HasAsset
        <5>3. b.audio.count = frames * channels
          BY <5>1 DEF Beep
        <5>4. frames * channels = 0 => frames = 0
          OBVIOUS
        <5> QED BY <4>1, <5>2, <5>3, <5>4
      <4>2. CASE kind # "beep"
        <5>1. kind \in AssetKinds /\ assets[kind] \in PlayableSounds \cup {NoAsset}
          BY <2>1, <4>2 DEF AssetsAreSounds, Kinds
        <5>2. CASE assets[kind] = NoAsset
          <6>1. b.status = "missing_asset"
            BY <4>2, <5>2, BuildOfNothing
          <6> HIDE DEF b
          <6>2. ~HasAsset(kind)
            BY <4>2, <5>2 DEF HasAsset
          <6>3. b.status # "success"
            BY <6>1
          <6> QED BY <6>2, <6>3
        <5>3. CASE assets[kind] # NoAsset
          <6>1. ValidAsset(assets[kind])
            BY <5>1, <5>3, PlayableSoundIsValid
          <6>2. b = [status |-> "success", audio |-> assets[kind]]
            BY <4>2, <5>3, <6>1, BuildOfAsset
          <6> HIDE DEF b
          <6>3. b.status = "success" /\ b.audio.count # 0 /\ HasAsset(kind)
            BY <4>2, <5>3, <6>1, <6>2 DEF ValidAsset, HasAsset
          <6> QED BY <6>3
        <5> QED BY <5>2, <5>3
      <4> QED BY <4>1, <4>2
    <3> HIDE DEF b
    <3>5. /\ sound'.op = "build" /\ sound'.kind = kind /\ sound'.frames = frames
          /\ sound'.built = b
      BY <3>1 DEF b
    <3>6. HasAsset(kind)' <=> HasAsset(kind)
      BY <3>1 DEF HasAsset
    <3>7. BuildsSound'
      BY <3>4, <3>5, <3>6 DEF BuildsSound, HasAsset
    <3>8. Recorded'
      BY <3>5 DEF Recorded
    <3>9. AssetsAreSounds'
      BY <2>1, <3>1 DEF AssetsAreSounds
    <3> QED BY <3>7, <3>8, <3>9 DEF SoundInv
  <2>8. CASE UNCHANGED soundVars
    <3>1. sound' = sound /\ assets' = assets
      BY <2>8 DEF soundVars
    <3> QED BY <2>1, <3>1 DEF SoundInv, Recorded, AssetsAreSounds, BuildsSound, HasAsset
  <2> QED BY <1>2, <2>2, <2>3, <2>4, <2>5, <2>6, <2>7, <2>8 DEF SoundNext
<1> QED BY <1>1, <1>2, PTL DEF SoundSpec

\* For every set of files and both limits: the loader decodes exactly the files that the
\* reference calls playable, from their own bytes, and only what it decoded is ever in the
\* catalog or built for the renderer.
THEOREM PlayableSoundsOnly == SoundSpec => []SoundsArePlayable
<1>1. SoundInv => SoundsArePlayable
  <2> SUFFICES ASSUME SoundInv PROVE SoundsArePlayable
    OBVIOUS
  <2>1. Recorded /\ AssetsAreSounds /\ BuildsSound
    BY DEF SoundInv
  <2>2. ASSUME sound.op = "load"
        PROVE  /\ sound.status = "success" <=> Playable(sound.file)
               /\ \A byte \in sound.read : 12 <= byte /\ byte < sound.file.size
    <3>1. sound.file \in WavFile /\ sound = LoadWavPcm(sound.file)
      BY <2>1, <2>2, WavFilesAssumption DEF Recorded
    <3> QED BY <3>1, LoadDecides
  <2>3. ASSUME sound.op = "check", sound.status \notin {"valid", "unsupported_format"}
        PROVE  ~Playable(sound.file)
    <3>1. sound.file \in WavFile /\ sound.status = ValidateCustomAudio(sound.file)
      BY <2>1, <2>3, WavFilesAssumption DEF Recorded
    <3> QED BY <2>3, <3>1, ChoiceIsRight
  <2>4. \A kind \in AssetKinds : assets[kind] \in PlayableSounds \cup {NoAsset}
    BY <2>1 DEF AssetsAreSounds
  <2> QED BY <2>1, <2>2, <2>3, <2>4, Zenon DEF SoundsArePlayable, BuildsSound
<1> QED BY <1>1, SoundInvHolds, PTL

====
