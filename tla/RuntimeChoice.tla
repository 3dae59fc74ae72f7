---- MODULE RuntimeChoice ----
(***************************************************************************)
(* Which runtime a request gets: the backend selector                      *)
(* (src/runtime/backend_selector), the language policy and                 *)
(* WhisperRuntimeFactory (src/runtime/whisper_runtime).  Adapter and probe *)
(* are the host's and may do anything, throw included.                     *)
(***************************************************************************)
EXTENDS Integers, FiniteSets

CONSTANTS
    Requests,           \* [backend, model, language]
    Evidence            \* probe results put together by hand

Backends == {"cpu", "cuda"}
ProbeStatus == {"available", "unavailable", "not_probed"}
Platforms == {"", "Linux x86_64", "macOS arm64"}

\* A model of the catalog or none of it; .en models know English only.
ModelIds == {"tiny", "tiny.en", "huge"}
CatalogFind(model) == {[id |-> m, englishOnly |-> m = "tiny.en"] : m \in {model} \ {"huge"}}

Languages == {"", "en us", "auto", "it", "en-GB"}

Details == UNION {[told -> ProbeStatus] : told \in SUBSET Backends}
EvidenceType == [flags : SUBSET Backends, details : Details, platform : Platforms]

ASSUME RequestsAssumption ==
    Requests \subseteq [backend : {"auto"} \cup Backends, model : ModelIds,
                       language : Languages]
ASSUME EvidenceAssumption == Evidence \subseteq EvidenceType

VARIABLE choice         \* the request that was made and its result

-----------------------------------------------------------------------------
(* Probing.  A result is the flags, a platform and details of some backends. *)

PlatformAllowsCuda(platform) == platform \in {"", "Linux x86_64"}

\* The mutant of DenyCuda: a hand-made result is taken as it is.
DenyCudaNever(evidence) == evidence

DenyCuda(evidence) ==
    IF PlatformAllowsCuda(evidence.platform) THEN evidence
    ELSE [evidence EXCEPT !.flags = @ \ {"cuda"},
                          !.details = [b \in DOMAIN @ |->
                                         IF b = "cuda" THEN "unavailable" ELSE @[b]]]

\* `probe` gives a status for each backend or "throws"; without one the CPU is taken to be
\* available.
ProbeBackendCapabilities(probe, platform) ==
    LET found(b) == IF probe[b] = "throws" THEN "unavailable" ELSE probe[b]
        none == [b \in Backends |-> IF b = "cpu" THEN "available" ELSE "not_probed"]
        details == IF probe = <<>> THEN none ELSE [b \in Backends |-> found(b)]
        result == [flags |-> {b \in Backends : details[b] = "available"},
                   details |-> details, platform |-> platform]
    IN  IF probe = <<>> THEN result ELSE DenyCuda(result)

-----------------------------------------------------------------------------
(* Selecting. *)

\* Details, where there are any, overrule the flags.
Effective(evidence) ==
    DenyCuda([evidence EXCEPT
        !.flags = {b \in Backends : IF b \in DOMAIN evidence.details
                                    THEN evidence.details[b] = "available"
                                    ELSE b \in @}])

SelectBackendWithProbe(requested, evidence) ==
    LET there == Effective(evidence).flags
        selection(b, fallback) == [selected |-> b, available |-> b \in there,
                                   fallback |-> fallback]
    IN  IF requested = "auto"
        THEN IF "cuda" \in there THEN selection("cuda", FALSE)
             ELSE selection("cpu", "cpu" \notin there)
        ELSE IF requested \in there THEN selection(requested, FALSE)
        ELSE IF "cpu" \notin there /\ "cuda" \in there THEN selection("cuda", TRUE)
        ELSE selection("cpu", TRUE)

-----------------------------------------------------------------------------
(* Languages and the factory. *)

IsEnglishLanguage(language) == language \in {"en-GB"}

ValidateLanguagePolicy(model, language) ==
    IF language \in {"", "en us"} THEN "invalid"
    ELSE IF model.englishOnly /\ ~IsEnglishLanguage(language)
    THEN "english_only_conflict"
    ELSE "accepted"

NormalizedLanguage(model, language) ==
    IF language # "auto" /\ model.englishOnly THEN "en" ELSE language

\* What the injected factory and the adapter it makes do.
Adapters == {"no_factory", "creation_throws", "null", "initialize_throws",
             "ready", "unavailable", "error"}

AdapterStatus(adapter) ==
    CASE adapter \in {"no_factory", "null"} -> "unavailable"
      [] adapter \in {"creation_throws", "initialize_throws"} -> "error"
      [] OTHER -> adapter

\* create(): the runtime is what was initialized, or none.
CreateRuntime(request, evidence, adapter) ==
    LET failed(status) == [status |-> status, runtime |-> {}]
        backend == SelectBackendWithProbe(request.backend, evidence)
        made(model) ==
            [status |-> AdapterStatus(adapter),
             runtime |-> IF adapter # "ready" THEN {}
                         ELSE {[model |-> model.id, backend |-> backend.selected,
                                language |-> NormalizedLanguage(model, request.language)]}]
    IN  IF CatalogFind(request.model) = {} THEN failed("error")
        ELSE LET model == CHOOSE m \in CatalogFind(request.model) : TRUE
             IN  IF ValidateLanguagePolicy(model, request.language) # "accepted"
                 THEN failed("error")
                 ELSE IF ~backend.available THEN failed("unavailable")
                 ELSE made(model)

ChoiceInit == choice = [made |-> FALSE]

Probes == {<<>>} \cup [Backends -> ProbeStatus \cup {"throws"}]

\* create() keeps nothing, so one request shows what any does.
Request(r, evidence, adapter) ==
    choice' = [made |-> TRUE, request |-> r, evidence |-> evidence, adapter |-> adapter,
               result |-> CreateRuntime(r, evidence, adapter)]

ChoiceNext ==
    /\ ~choice.made
    /\ \/ \E e \in Evidence : \E r \in Requests, adapter \in Adapters :
              Request(r, e, adapter)
       \/ \E p \in Probes, platform \in Platforms :
              LET e == ProbeBackendCapabilities(p, platform)
              IN  \E r \in Requests, adapter \in Adapters : Request(r, e, adapter)

ChoiceSpec == ChoiceInit /\ [][ChoiceNext]_choice

-----------------------------------------------------------------------------
\* Reference: the backends there is evidence for, on a platform that has them.
Supported(evidence) ==
    {b \in Backends :
       /\ b \in DOMAIN evidence.details => evidence.details[b] = "available"
       /\ b \notin DOMAIN evidence.details => b \in evidence.flags
       /\ b = "cuda" => evidence.platform # "macOS arm64"}

\* The runtime for a request (docs/architecture.md "selectable only when the Windows or
\* Linux build, driver, runtime and model integration report that capability" and "English-
\* only .en models accept only an English tag"): it runs on a backend there is evidence
\* for, on the requested one if that is supported and on CUDA only if asked for it, left
\* the choice or without a CPU; an English-only model is told English; there is a runtime
\* exactly if the status is ready; and the host's adapter is refused only if the request
\* or the machine cannot be served.
RuntimeIsAsRequested ==
    choice.made =>
        LET r == choice.request
            there == Supported(choice.evidence)
            served == /\ r.model # "huge" /\ r.language \notin {"", "en us"}
                      /\ r.model = "tiny.en" => r.language = "en-GB"
                      /\ there # {}
        IN  /\ choice.result.status = "ready" <=> choice.result.runtime # {}
            /\ choice.result.status = "ready" <=> choice.adapter = "ready" /\ served
            /\ \A made \in choice.result.runtime :
                 /\ made.backend \in there
                 /\ r.backend \in there => made.backend = r.backend
                 /\ made.backend = "cuda"
                      => r.backend \in {"cuda", "auto"} \/ "cpu" \notin there
                 /\ made.model = r.model
                 /\ made.model = "tiny.en" => made.language = "en"

====
