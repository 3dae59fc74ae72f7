---- MODULE CensorPlan ----
(***************************************************************************)
(* From what Whisper answered to the samples that are replaced: the        *)
(* conversion of segments (src/runtime/whisper_runtime.cpp), the phrase    *)
(* matcher, the planner with its timestamps, the merging of intervals and  *)
(* the renderer (src/core).  Pure functions; frames are relative to the    *)
(* chunk that was transcribed.                                             *)
(*                                                                         *)
(* Text is a sequence of the characters below, one of each kind that the   *)
(* matcher and the list of phrases tell apart: a tabulator is like a       *)
(* space, and both ends of a line are "newline".  Seconds are ticks,       *)
(* TicksPerFrame to a frame.                                               *)
(***************************************************************************)
EXTENDS Integers, FiniteSets, Sequences, SequencesExt

CONSTANT TicksPerFrame      \* resolution of Whisper's time stamps

ASSUME TicksAssumption == TicksPerFrame \in Nat \ {0}

Characters == {"a", "A", "b", " ", "newline", "-", "_", ",", ";"}

IsSpace(c) == c \in {" ", "newline"}
IsPunctuation(c) == c \in {"-", "_", ",", ";"}
IsWordCharacter(c) == c \in {"a", "A", "b", "_"}
Lower(c) == IF c = "A" THEN "a" ELSE c

-----------------------------------------------------------------------------
(* The list of phrases in the settings of a filter. *)

\* Without the spaces at both ends.
Trimmed(text) ==
    LET inner == {i \in DOMAIN text : ~IsSpace(text[i])}
    IN  IF inner = {} THEN <<>> ELSE SubSeq(text, Min(inner), Max(inner))

\* A phrase of the list ends at a comma, a semicolon or the end of its line.
EndsPhrase(c) == c \in {",", ";", "newline"}

\* split_phrases(): what stands between those, unless it is blank.
SplitPhrases(listed) ==
    LET step(parts, c) == IF EndsPhrase(c) THEN Append(parts, <<>>)
                          ELSE [parts EXCEPT ![Len(parts)] = Append(@, c)]
        trimmed(done, part) ==
            IF Trimmed(part) = <<>> THEN done ELSE Append(done, Trimmed(part))
    IN  FoldLeft(trimmed, <<>>, FoldLeft(step, <<(<<>>)>>, listed))

-----------------------------------------------------------------------------
(* PhraseMatcher.  Options are [caseSensitive, boundary, separator]. *)

DefaultOptions ==
    [caseSensitive |-> FALSE, boundary |-> "substring", separator |-> FALSE]

Separates(c, options) == IsSpace(c) \/ (options.separator /\ IsPunctuation(c))

\* Separators in a row are one space, those at both ends none.
Normalize(text, options) ==
    LET step(done, c) ==
            IF ~Separates(c, options)
            THEN Append(done, IF options.caseSensitive THEN c ELSE Lower(c))
            ELSE IF done = <<>> \/ Last(done) = " " THEN done
            ELSE Append(done, " ")
        spaced == FoldLeft(step, <<>>, text)
    IN  IF spaced # <<>> /\ Last(spaced) = " " THEN Front(spaced) ELSE spaced

\* set_phrases(): empty ones and repetitions are dropped, whatever their case, and the
\* spelling of the first is kept.
Originals(phrases) ==
    LET normal(i) == Normalize(phrases[i], DefaultOptions)
        first == {i \in DOMAIN phrases :
                    normal(i) # <<>> /\ \A j \in 1 .. i - 1 : normal(j) # normal(i)}
    IN  {Normalize(phrases[i], [DefaultOptions EXCEPT !.caseSensitive = TRUE])
           : i \in first}

\* Of the `length` characters of text behind `position`.
RespectsBoundary(text, position, length, boundary) ==
    CASE boundary = "substring" -> TRUE
      [] boundary = "whole_text" -> position = 0 /\ length = Len(text)
      [] boundary = "whole_word" ->
           /\ position # 0 => ~IsWordCharacter(text[position])
           /\ position + length < Len(text)
                => ~IsWordCharacter(text[position + length + 1])

\* find(), as the set of its matches: the scan goes on one character behind each
\* occurrence, so it comes by all of them.
Find(text, phrases, options) ==
    LET normal == Normalize(text, options)
        effective == {Normalize(p, options) : p \in Originals(phrases)} \ {<<>>}
    IN  {m \in {[start |-> at, phrase |-> p] : at \in 0 .. Len(normal), p \in effective} :
           /\ m.start + Len(m.phrase) <= Len(normal)
           /\ SubSeq(normal, m.start + 1, m.start + Len(m.phrase)) = m.phrase
           /\ RespectsBoundary(normal, m.start, Len(m.phrase), options.boundary)}

-----------------------------------------------------------------------------
(* Segments.  Whisper answers [start, end, text] in ticks; a transcript has *)
(* them in frames.                                                          *)

\* The parser has seen to numbers and text, not to what they say.
Answer == {a \in SUBSET [start : Int, end : Int, text : Seq(Characters)] : IsFiniteSet(a)}

\* llround() of a time that is not negative.
RoundToFrames(ticks) == (2 * ticks + TicksPerFrame) \div (2 * TicksPerFrame)

\* One segment that makes no sense discards the answer.
Transcript(answer) ==
    IF \E s \in answer : s.start < 0 \/ s.end < s.start THEN {}
    ELSE {[start |-> RoundToFrames(s.start), end |-> RoundToFrames(s.end),
           text |-> s.text] : s \in answer}

-----------------------------------------------------------------------------
(* CensorScheduler and TimestampCoordinator.  An interval is [start, end). *)

Nonempty(intervals) == {i \in intervals : i.start < i.end}

Before(i, j) == i.start < j.start \/ (i.start = j.start /\ i.end < j.end)

Ordered(intervals) ==
    CHOOSE s \in SetToSeqs(intervals) :
        \A k, l \in DOMAIN s : k < l => Before(s[k], s[l])

\* Mutant of Merge: an interval inside the last one shortens it.
MergeToLast(intervals) ==
    LET step(merged, i) ==
            IF merged = <<>> \/ i.start > Last(merged).end THEN Append(merged, i)
            ELSE [merged EXCEPT ![Len(merged)].end = i.end]
    IN  FoldLeft(step, <<>>, Ordered(Nonempty(intervals)))

\* Overlapping and touching intervals become one.
Merge(intervals) ==
    LET later(a, b) == IF a > b THEN a ELSE b
        step(merged, i) ==
            IF merged = <<>> \/ i.start > Last(merged).end THEN Append(merged, i)
            ELSE [merged EXCEPT ![Len(merged)].end = later(@, i.end)]
    IN  FoldLeft(step, <<>>, Ordered(Nonempty(intervals)))

\* to_interval(): the host's delay moves a segment, a negative one does not.  Frames to
\* seconds and back is exact.
ToInterval(segment, delay) ==
    LET moved == IF delay < 0 THEN 0 ELSE delay
    IN  [start |-> segment.start + moved, end |-> segment.end + moved]

\* MatchPlanner::plan(): a segment that holds a phrase is censored as a whole.
Plan(transcript, config) ==
    Merge({ToInterval(s, config.delay) :
             s \in {t \in transcript :
                      /\ t.start >= 0 /\ t.end > t.start
                      /\ Find(t.text, config.phrases, config.matching) # {}}})

-----------------------------------------------------------------------------
(* ReplacementRenderer.  A replaced sample is where it is in the replacement *)
(* and what it is multiplied with, as a fraction.                            *)

Original == [sample |-> -1]

FadeGain(frame, length, fade) ==
    LET half == length \div 2
        effective == IF fade < half THEN fade ELSE half
        of(n) == [num |-> n, den |-> effective + 1]
    IN  IF effective = 0 THEN [num |-> 1, den |-> 1]
        ELSE IF frame < effective THEN of(frame + 1)
        ELSE IF length - frame <= effective THEN of(length - frame)
        ELSE [num |-> 1, den |-> 1]

\* The part of an interval that lies in a chunk of n frames.
Clamped(i, n) ==
    [start |-> IF i.start < 0 THEN 0 ELSE i.start,
     end |-> IF i.end > n THEN n ELSE i.end]

\* What becomes of each of the n frames: a replacement of `sound` frames starts anew in
\* every interval and is looped or cut.
Render(n, intervals, sound, fade) ==
    LET parts == Nonempty({Clamped(i, n) : i \in ToSet(Merge(ToSet(intervals)))})
        partsAt(f) == {p \in parts : p.start <= f /\ f < p.end}
        replaced(f, p) == [sample |-> (f - p.start) % sound,
                           gain |-> FadeGain(f - p.start, p.end - p.start, fade)]
    IN  [f \in 0 .. n - 1 |->
           IF sound = 0 \/ partsAt(f) = {} THEN Original
           ELSE replaced(f, CHOOSE p \in partsAt(f) : TRUE)]

====
