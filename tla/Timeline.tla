---- MODULE Timeline ----
(***************************************************************************)
(* The values and pure functions of AudioTimelineCoordinator               *)
(* (src/core/audio_timeline.cpp): where a chunk of captured audio belongs  *)
(* on the absolute frame axis, and which results may still be placed there.*)
(*                                                                         *)
(* The coordinator's four fields are one record `t`, so that the pipeline  *)
(* that owns a coordinator can keep it in a variable of its own.           *)
(***************************************************************************)
EXTENDS Integers

CONSTANTS
    Rate,           \* config_.sample_rate, never 0 (see the constructor)
    MaxFrame,       \* the largest std::int64_t
    MaxGeneration,  \* the largest std::uint64_t
    NoAnchor        \* std::nullopt in TimelineUpdate::anchor and map_interval

ASSUME RateAssumption == Rate \in Nat \ {0}
ASSUME WidthAssumption == MaxFrame \in Nat /\ MaxGeneration \in Nat

\* std::int64_t, and what add_frames() refuses to compute.
Int64 == -MaxFrame - 1 .. MaxFrame
\* Mutant of AddOverflows: the operands are looked at, the sum is not.
AddOverflowsByOperand(left, right) == left \notin Int64 \/ right \notin Int64

AddOverflows(left, right) == left + right \notin Int64

Generation == 0..MaxGeneration
Anchor == [first : Int64, count : Int64, rate : Nat, generation : Generation]
Chunk == [first : Int64, count : Int64, rate : Nat, discontinuity : BOOLEAN]
Coordinator == [anchored : BOOLEAN, requiresDiscontinuity : BOOLEAN,
                nextFrame : Int64, generation : Generation]

\* Status of accept(); the last three answer without an anchor.
Status == {"anchored", "advanced", "reset",
           "invalid_chunk", "sample_rate_mismatch", "non_contiguous"}

NewCoordinator == [anchored |-> FALSE, requiresDiscontinuity |-> FALSE,
                   nextFrame |-> 0, generation |-> 0]

\* Saturates, so that generation 0 stays the one of a fresh coordinator.
NextGeneration(g) == IF g = MaxGeneration THEN g ELSE g + 1

-----------------------------------------------------------------------------
(* accept() *)

\* Mutant of Misfit: the position is compared with the last end only after a reset.
MisfitOnlyWhenFlagged(t, c) == t.anchored /\ c.discontinuity /\ c.first # t.nextFrame

\* The chunk neither starts where the last one ended nor says why not.
Misfit(t, c) == t.anchored /\ ~c.discontinuity /\ c.first # t.nextFrame

\* Mutant of Unacknowledged: any chunk after a rejected one starts a new epoch.
NeverUnacknowledged(t, c) == FALSE

\* A gap was seen and this chunk does not own up to it.
Unacknowledged(t, c) == ~t.anchored /\ t.requiresDiscontinuity /\ ~c.discontinuity

\* Why accept() gives no anchor, in the order of its early returns.
Refusal(t, c) ==
    IF c.first < 0 \/ c.count <= 0 THEN "invalid_chunk"
    ELSE IF c.rate # Rate THEN "sample_rate_mismatch"
    ELSE IF AddOverflows(c.first, c.count) THEN "invalid_chunk"
    ELSE IF Unacknowledged(t, c) \/ Misfit(t, c) THEN "non_contiguous"
    ELSE "none"

\* Mutant of StartsEpoch: every accepted chunk does.
AlwaysStartsEpoch(t, c) == TRUE

StartsEpoch(t, c) == ~t.anchored \/ c.discontinuity

\* Mutant of GenerationFor: a discontinuity does not start a new epoch.
GenerationForFirstOnly(t, c) ==
    IF t.anchored THEN t.generation ELSE NextGeneration(t.generation)

GenerationFor(t, c) ==
    IF StartsEpoch(t, c) THEN NextGeneration(t.generation) ELSE t.generation

\* The coordinator, the status and the anchor after accept(c).
AcceptChunk(t, c) ==
    CASE Refusal(t, c) = "none" ->
           [coordinator |-> [anchored |-> TRUE, requiresDiscontinuity |-> FALSE,
                             nextFrame |-> c.first + c.count,
                             generation |-> GenerationFor(t, c)],
            status |-> IF ~t.anchored THEN "anchored"
                       ELSE IF c.discontinuity THEN "reset" ELSE "advanced",
            anchor |-> [first |-> c.first, count |-> c.count, rate |-> c.rate,
                        generation |-> GenerationFor(t, c)]]
      [] Refusal(t, c) = "non_contiguous" /\ Misfit(t, c) ->
           [coordinator |-> [anchored |-> FALSE, requiresDiscontinuity |-> TRUE,
                             nextFrame |-> 0,
                             generation |-> NextGeneration(t.generation)],
            status |-> "non_contiguous", anchor |-> NoAnchor]
      [] OTHER ->
           [coordinator |-> t, status |-> Refusal(t, c), anchor |-> NoAnchor]

\* reset()
ResetCoordinator(t) ==
    [anchored |-> FALSE, requiresDiscontinuity |-> FALSE, nextFrame |-> 0,
     generation |-> NextGeneration(t.generation)]

-----------------------------------------------------------------------------
(* valid_anchor(), map_interval() and to_absolute() *)

ValidAnchor(t, a) ==
    /\ t.anchored
    /\ a.generation = t.generation
    /\ a.rate = Rate
    /\ a.first >= 0 /\ a.count > 0 /\ ~AddOverflows(a.first, a.count)

WithinChunk(i, count) == 0 <= i.start /\ i.start < i.end /\ i.end <= count

\* An interval relative to the anchor's chunk, in absolute frames.
MapInterval(t, a, i) ==
    IF ValidAnchor(t, a) /\ WithinChunk(i, a.count)
    THEN [start |-> a.first + i.start, end |-> a.first + i.end]
    ELSE NoAnchor

\* to_absolute() of a list keeps what can be placed and leaves out the rest.
Placed(t, a, intervals) == {MapInterval(t, a, i) : i \in intervals} \ {NoAnchor}

====
