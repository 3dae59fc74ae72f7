---- MODULE AudioTimeline ----
(***************************************************************************)
(* AudioTimelineCoordinator as its owner drives it: any sequence of        *)
(* accept() and reset(), on the worker thread that owns the coordinator.   *)
(***************************************************************************)
EXTENDS Timeline, Sequences

CONSTANTS
    Rates,          \* rates a chunk may carry
    MaxBreaks       \* bound: breaks of the timeline in a behaviour

ASSUME RatesAssumption == Rates \subseteq Nat
ASSUME BreaksAssumption == MaxBreaks \in Nat

VARIABLES
    timeline,       \* the coordinator's fields
    current,        \* history: anchors issued since the last break, in order
    stale,          \* history: anchors issued before it
    gap,            \* history: a gap was reported and not acknowledged since
    breaks          \* bound counter

vars == <<timeline, current, stale, gap, breaks>>

Chunks == [first : Int64, count : Int64, rate : Rates, discontinuity : BOOLEAN]
RangeOf(s) == {s[i] : i \in DOMAIN s}

Init ==
    /\ timeline = NewCoordinator
    /\ current = <<>> /\ stale = {}
    /\ gap = FALSE
    /\ breaks = 0

\* What the caller was told: this chunk follows the last one, it starts an epoch
\* of its own, or there is a gap in front of it.
Follow(u) ==
    /\ u.status = "advanced"
    /\ current' = Append(current, u.anchor)
    /\ UNCHANGED <<stale, gap, breaks>>

Restart(u, c) ==
    /\ u.status \in {"anchored", "reset"}
    /\ breaks < MaxBreaks
    /\ current' = <<u.anchor>>
    /\ stale' = stale \cup RangeOf(current)
    /\ gap' = (gap /\ ~c.discontinuity)
    /\ breaks' = breaks + 1

Break(u) ==
    /\ u.status = "non_contiguous"
    /\ breaks < MaxBreaks
    /\ current' = <<>>
    /\ stale' = stale \cup RangeOf(current)
    /\ gap' = TRUE
    /\ breaks' = breaks + 1

Ignore(u) ==
    /\ u.status \in {"invalid_chunk", "sample_rate_mismatch"}
    /\ UNCHANGED <<current, stale, gap, breaks>>

Accept(c) ==
    LET u == AcceptChunk(timeline, c) IN
    /\ timeline' = u.coordinator
    /\ \/ Follow(u)
       \/ Restart(u, c)
       \/ Break(u)
       \/ Ignore(u)

\* Mutant of Reset: outstanding anchors keep their generation.
ResetWithoutGeneration ==
    /\ breaks < MaxBreaks
    /\ timeline' = [NewCoordinator EXCEPT !.generation = timeline.generation]
    /\ current' = <<>>
    /\ stale' = stale \cup RangeOf(current)
    /\ gap' = FALSE
    /\ breaks' = breaks + 1

Reset ==
    /\ breaks < MaxBreaks
    /\ timeline' = ResetCoordinator(timeline)
    /\ current' = <<>>
    /\ stale' = stale \cup RangeOf(current)
    /\ gap' = FALSE
    /\ breaks' = breaks + 1

Next == Reset \/ \E c \in Chunks : Accept(c)

Spec == Init /\ [][Next]_vars

-----------------------------------------------------------------------------
TypeOK ==
    /\ timeline \in Coordinator
    /\ current \in Seq(Anchor)
    /\ stale \in SUBSET Anchor
    /\ gap \in BOOLEAN
    /\ breaks \in 0..MaxBreaks

\* "The generation prevents results from a previous stream epoch being applied"
\* (audio_timeline.hpp:44-47): until the generation saturates, an anchor issued
\* before the last reset, discontinuity or gap places nothing on the timeline.
StaleAnchorsPlaceNothing ==
    timeline.generation < MaxGeneration =>
        \A a \in stale : ~ValidAnchor(timeline, a)

\* The other half: a break is what kills an anchor, nothing else does.  Every anchor
\* issued since the last break still places the results that belong to it.
CurrentAnchorsPlace == \A a \in RangeOf(current) : ValidAnchor(timeline, a)

\* The chunks of an epoch cover one interval without gap or overlap, up to the frame
\* the coordinator expects next: a dropped or seeked range is never papered over.
EpochIsContiguous ==
    /\ \A i \in 1 .. Len(current) - 1 :
           current[i].first + current[i].count = current[i + 1].first
    /\ current # <<>> =>
           LET last == current[Len(current)]
           IN  last.first + last.count = timeline.nextFrame

\* Nothing is accepted across an unacknowledged gap (audio_timeline.cpp:107-108, "the
\* next accepted chunk must carry discontinuity=true").
GapIsAcknowledged == gap => current = <<>> /\ ~timeline.anchored

-----------------------------------------------------------------------------
(* Inductive strengthening, proved in CensorPipelineProofs. *)

\* An anchor is well formed and carries the generation of its epoch, which only the
\* saturated generation can share with a later one.
Sound(a) == /\ a.rate = Rate
            /\ a.first >= 0 /\ a.count > 0 /\ ~AddOverflows(a.first, a.count)

EpochInv ==
    /\ \A i \in 1..Len(current) :
           Sound(current[i]) /\ current[i].generation = timeline.generation
    /\ \A a \in stale : a.generation < timeline.generation
                            \/ timeline.generation = MaxGeneration
    /\ current # <<>> => timeline.anchored
    /\ timeline.anchored => current # <<>>
    /\ gap => timeline.requiresDiscontinuity
    /\ timeline.requiresDiscontinuity => ~timeline.anchored

====
