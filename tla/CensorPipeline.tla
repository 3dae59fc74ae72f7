---- MODULE CensorPipeline ----
(***************************************************************************)
(* EndToEndAudioPipeline::process(), which the worker's thread runs for    *)
(* one chunk after another: the timeline's anchor, a transcript, the       *)
(* planned intervals, the rendered audio and the result for the callback.  *)
(* AudioTimeline is the coordinator it owns.                               *)
(***************************************************************************)
EXTENDS AudioTimeline, CensorPlan

CONSTANTS
    Configs,        \* configurations: phrases and the list they came from, matching,
                    \* delay, fade, sound and its rate
    Answers,        \* what Whisper may answer: sets of segments
    BeepFrames      \* a quarter of a second: the length of the default beep

ASSUME BeepAssumption == BeepFrames \in Nat \ {0}

\* A list of phrases is what a user typed; the delay alone may be negative.
ASSUME ConfigsAssumption ==
    \A g \in Configs : /\ g.listed \in Seq(Characters) /\ g.phrases = SplitPhrases(g.listed)
                       /\ g.delay \in Int /\ g.fade \in Nat /\ g.sound \in Nat

ASSUME AnswersAssumption == \A a \in Answers : a \in Answer

\* std::nullopt is no interval.
ASSUME NoAnchorAssumption == NoAnchor \notin [start : Int, end : Int]

NoResult == [status |-> "none"]

VARIABLES
    config,         \* config_ of the pipeline
    result          \* the result complete() hands to the callback, or none

pipelineVars == <<config, result>>
allVars == <<vars, pipelineVars>>

\* A chunk as it is submitted; `sane` when its samples are finite and fill their frames.
Frames == [first : -1 .. MaxFrame, count : 0 .. MaxFrame, rate : Rates,
           discontinuity : BOOLEAN, sane : BOOLEAN]

\* make_pipeline_config(): all but the phrases is as the core has it by default.
MakePipelineConfig(listed) ==
    [listed |-> listed, phrases |-> SplitPhrases(listed), matching |-> DefaultOptions,
     delay |-> 0, fade |-> 0, sound |-> 0, soundRate |-> 0]

PipelineInit ==
    /\ Init
    /\ config \in Configs
    /\ result = NoResult

ValidAudio(c) == c.rate = Rate /\ c.count # 0 /\ c.sane /\ c.first >= 0

Untouched(c) == [f \in 0 .. c.count - 1 |-> Original]

PassThrough(c, status) ==
    [status |-> status, chunk |-> c, heard |-> {},
     transcript |-> {}, intervals |-> {}, output |-> Untouched(c)]

\* The configured sound if it fits the chunk, or else a beep.
ReplacementLength(c) ==
    IF config.soundRate = c.rate /\ config.sound # 0 THEN config.sound
    ELSE IF c.count < BeepFrames THEN c.count ELSE BeepFrames

\* Mutant of Processed: the renderer gets the intervals that were reported.
ProcessedAbsolute(c, anchor, heard) ==
    LET reported == Placed(timeline', anchor, ToSet(Plan(heard, config)))
    IN  [status |-> "processed", chunk |-> c, heard |-> heard,
         transcript |-> {}, intervals |-> reported,
         output |-> Render(c.count, SetToSeq(reported), ReplacementLength(c), config.fade)]

Processed(c, anchor, heard) ==
    LET planned == Plan(heard, config)
        times(s) == [start |-> s.start, end |-> s.end]
    IN  [status |-> "processed", chunk |-> c, heard |-> heard,
         transcript |-> Placed(timeline', anchor, {times(s) : s \in heard}),
         intervals |-> Placed(timeline', anchor, ToSet(planned)),
         output |-> Render(c.count, planned, ReplacementLength(c), config.fade)]

\* Audio the pipeline cannot use goes back without the timeline having seen it.
RejectAudio(c) ==
    /\ ~ValidAudio(c)
    /\ result' = PassThrough(c, "invalid_audio")
    /\ UNCHANGED vars

RejectTime(c) ==
    /\ ValidAudio(c)
    /\ Refusal(timeline, c) # "none"
    /\ Accept(c)
    /\ result' = PassThrough(c, "timeline_rejected")

\* Anything that throws behind the timeline: the chunk stays accepted.
RuntimeFails(c) ==
    /\ ValidAudio(c)
    /\ Refusal(timeline, c) = "none"
    /\ Accept(c)
    /\ result' = PassThrough(c, "runtime_failure")

Censor(c) ==
    /\ ValidAudio(c)
    /\ Refusal(timeline, c) = "none"
    /\ Accept(c)
    /\ \E answer \in Answers :
           result' = Processed(c, AcceptChunk(timeline, c).anchor, Transcript(answer))

Process(c) ==
    /\ result = NoResult
    /\ RejectAudio(c) \/ RejectTime(c) \/ RuntimeFails(c) \/ Censor(c)
    /\ UNCHANGED config

\* complete(): the callback takes the result or throws, which is the same to the worker.
Complete ==
    /\ result # NoResult
    /\ result' = NoResult
    /\ UNCHANGED <<vars, config>>

\* start() of a pipeline that was stopped, after the worker has drained.
StartPipeline ==
    /\ result = NoResult
    /\ Reset
    /\ UNCHANGED pipelineVars

PipelineNext ==
    \/ \E c \in Frames : Process(c)
    \/ Complete
    \/ StartPipeline

PipelineSpec == PipelineInit /\ [][PipelineNext]_allVars

-----------------------------------------------------------------------------
(* Reference: what was said, without splitting, sorting, merging or normalising. *)

\* The entries of a list: from a character to a character with nothing but spaces
\* between them and the next end of a phrase, or of the list, on either side.
Entries(listed) ==
    LET at(i) == IF i \in DOMAIN listed THEN listed[i] ELSE ","
        inside(i, j) == \A k \in i .. j : ~EndsPhrase(at(k))
        blank(i, j) == inside(i + 1, j - 1) /\ \A k \in i + 1 .. j - 1 : IsSpace(at(k))
        entry(i, j) == /\ i <= j /\ inside(i, j) /\ ~IsSpace(at(i)) /\ ~IsSpace(at(j))
                       /\ \E a \in 0 .. i - 1 : EndsPhrase(at(a)) /\ blank(a, i)
                       /\ \E b \in j + 1 .. Len(listed) + 1 :
                            EndsPhrase(at(b)) /\ blank(j, b)
    IN  {SubSeq(listed, p[1], p[2])
           : p \in {q \in (DOMAIN listed) \X (DOMAIN listed) : entry(q[1], q[2])}}

Listed == [c \in Configs |-> Entries(c.listed)]

\* The words of a text: maximal runs of characters that are neither space nor
\* punctuation, in one case.
Words(text) ==
    LET separates(c) == IsSpace(c) \/ IsPunctuation(c)
        step(done, c) ==
            IF separates(c) THEN (IF Last(done) = <<>> THEN done ELSE Append(done, <<>>))
            ELSE [done EXCEPT ![Len(done)] = Append(@, Lower(c))]
        runs == FoldLeft(step, <<(<<>>)>>, text)
    IN  IF Last(runs) = <<>> THEN Front(runs) ELSE runs

Holds(sequence, part) ==
    part # <<>> /\ \E k \in 0 .. Len(sequence) - Len(part) :
                       SubSeq(sequence, k + 1, k + Len(part)) = part

Whole(matching) == matching.boundary = "whole_word" /\ matching.separator
                   /\ ~matching.caseSensitive

\* The frames of chunk c that lie in a segment of which `said` holds.
Covered(c, heard, said(_)) ==
    LET later == IF config.delay < 0 THEN 0 ELSE config.delay
    IN  {f \in 0 .. c.count - 1 :
           \E s \in heard : said(s.text) /\ s.start + later <= f /\ f < s.end + later}

Bleeped(r) == {f \in DOMAIN r.output : r.output[f] # Original}

\* What is heard of a chunk (README "replaces the affected interval"): with words to be
\* matched whole, exactly the frames of the segments that speak a listed phrase are
\* replaced, whatever the order, overlap and length of the segments; with the plugin's
\* own setting a phrase spoken as it is listed is.  No sample is a mixture: what
\* replaces a frame comes from the sound, louder than nothing and no louder than the
\* sound.  A chunk that was not processed is as it was.
BleepsWhatWasSaid ==
    result # NoResult =>
        LET words(text) == \E p \in Listed[config] : Holds(Words(text), Words(p))
            literally(text) == \E p \in Listed[config] : Holds(text, p)
            c == result.chunk
        IN  /\ Whole(config.matching)
                 => Bleeped(result) = Covered(c, result.heard, words)
            /\ config.matching = DefaultOptions
                 => Covered(c, result.heard, literally) \subseteq Bleeped(result)
            /\ \A f \in Bleeped(result) :
                 /\ result.output[f].sample \in 0 .. ReplacementLength(c) - 1
                 /\ 0 < result.output[f].gain.num
                 /\ result.output[f].gain.num <= result.output[f].gain.den
            /\ result.status # "processed" => Bleeped(result) = {}

\* What the host is told of a chunk (docs/architecture.md "in one absolute frame
\* domain"): the reported intervals lie in the chunk, apart from each other, and all of
\* what they cover was replaced; what was replaced and is not reported belongs to an
\* interval that reaches over the end of the chunk.
ReportsAreBleeped ==
    result # NoResult =>
        LET c == result.chunk
            open == {i \in ToSet(Plan(result.heard, config)) : i.end > c.count}
            told == {f \in DOMAIN result.output :
                       \E i \in result.intervals : i.start <= c.first + f
                                                   /\ c.first + f < i.end}
        IN  /\ \A i \in result.intervals \cup result.transcript :
                 c.first <= i.start /\ i.start < i.end /\ i.end <= c.first + c.count
            /\ \A i, j \in result.intervals : i = j \/ i.end < j.start \/ j.end < i.start
            /\ told \subseteq Bleeped(result)
            /\ \A f \in Bleeped(result) \ told : \E i \in open : i.start <= f

====
