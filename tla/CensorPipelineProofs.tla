---- MODULE CensorPipelineProofs ----
(***************************************************************************)
(* The timeline and the pipeline that drives it, for every width of frame  *)
(* and generation, for every rate, for texts, lists and answers of any     *)
(* size.  What the pipeline promises rests on what its pure functions do,  *)
(* and those are read off their folds through FoldFacts:                   *)
(*   - the timeline's epochs, on its own and under the pipeline;           *)
(*   - intervals merged, planned and rendered: every frame of a report's   *)
(*     segment is replaced, whatever else is in the plan;                  *)
(*   - words, Normalize and Find: a normalised text has the words of the   *)
(*     text, so a phrase that is heard is found, and its segment chosen;   *)
(*   - the list of phrases: its entries are the trimmed parts between the  *)
(*     commas, semicolons and line ends, none lost and none invented.      *)
(***************************************************************************)
EXTENDS CensorPipeline, SequenceTheorems, FiniteSetTheorems, TLAPS

-----------------------------------------------------------------------------
(* The timeline.                                                             *)

\* A new generation is one, and greater unless it is the last one.
LEMMA NextGenerationGrows ==
    ASSUME NEW g \in Generation
    PROVE  /\ NextGeneration(g) \in Generation
           /\ g < NextGeneration(g) \/ NextGeneration(g) = MaxGeneration
           /\ g <= NextGeneration(g)
BY WidthAssumption DEF NextGeneration, Generation

\* What the checks of accept() let through: a chunk with an end, at this rate.
LEMMA AcceptedIsSound ==
    ASSUME NEW t \in Coordinator, NEW c \in Chunks,
           Refusal(t, c) = "none"
    PROVE  /\ c.first >= 0 /\ c.count > 0 /\ c.rate = Rate
           /\ c.first \in Int64 /\ c.count \in Int64 /\ c.rate \in Nat
           /\ c.first + c.count \in Int64 /\ ~AddOverflows(c.first, c.count)
           /\ ~Unacknowledged(t, c) /\ ~Misfit(t, c)
<1>1. c.first \in Int64 /\ c.count \in Int64 /\ c.rate \in Rates
  BY DEF Chunks
<1>2. c.rate \in Nat
  BY <1>1, RatesAssumption
<1>3. /\ ~(c.first < 0 \/ c.count <= 0) /\ c.rate = Rate
      /\ ~AddOverflows(c.first, c.count)
      /\ ~Unacknowledged(t, c) /\ ~Misfit(t, c)
  BY Zenon DEF Refusal
<1>4. c.first + c.count \in Int64
  BY <1>3 DEF AddOverflows
<1>5. c.first >= 0 /\ c.count > 0
  <2>1. c.first \in Int /\ c.count \in Int
    BY <1>1, WidthAssumption DEF Int64
  <2>2. ~(c.first < 0) /\ ~(c.count <= 0)
    BY <1>3
  <2> QED BY <2>1, <2>2
<1> QED BY <1>1, <1>2, <1>3, <1>4, <1>5, Zenon

\* accept() that extends the epoch.
LEMMA AnswerAdvanced ==
    ASSUME NEW t \in Coordinator, NEW c \in Chunks,
           AcceptChunk(t, c).status = "advanced"
    PROVE  /\ Refusal(t, c) = "none" /\ t.anchored
           /\ c.first = t.nextFrame
           /\ AcceptChunk(t, c).coordinator
                = [anchored |-> TRUE, requiresDiscontinuity |-> FALSE,
                   nextFrame |-> c.first + c.count, generation |-> t.generation]
           /\ AcceptChunk(t, c).anchor
                = [first |-> c.first, count |-> c.count, rate |-> c.rate,
                   generation |-> t.generation]
<1>1. Refusal(t, c) = "none" /\ t.anchored /\ ~c.discontinuity
  BY DEF AcceptChunk, Refusal
<1>2. GenerationFor(t, c) = t.generation
  BY <1>1 DEF GenerationFor, StartsEpoch
<1>3. c.first = t.nextFrame
  BY <1>1, AcceptedIsSound DEF Misfit
<1> QED BY <1>1, <1>2, <1>3 DEF AcceptChunk

\* accept() that starts an epoch.
LEMMA AnswerRestart ==
    ASSUME NEW t \in Coordinator, NEW c \in Chunks,
           AcceptChunk(t, c).status \in {"anchored", "reset"}
    PROVE  /\ Refusal(t, c) = "none"
           /\ AcceptChunk(t, c).coordinator
                = [anchored |-> TRUE, requiresDiscontinuity |-> FALSE,
                   nextFrame |-> c.first + c.count,
                   generation |-> NextGeneration(t.generation)]
           /\ AcceptChunk(t, c).anchor
                = [first |-> c.first, count |-> c.count, rate |-> c.rate,
                   generation |-> NextGeneration(t.generation)]
<1>1. Refusal(t, c) = "none" /\ (~t.anchored \/ c.discontinuity)
  BY DEF AcceptChunk, Refusal
<1>2. GenerationFor(t, c) = NextGeneration(t.generation)
  BY <1>1 DEF GenerationFor, StartsEpoch
<1> QED BY <1>1, <1>2 DEF AcceptChunk

\* accept() in front of a gap: the epoch is over, or was already.
LEMMA AnswerBreak ==
    ASSUME NEW t \in Coordinator, NEW c \in Chunks,
           AcceptChunk(t, c).status = "non_contiguous"
    PROVE  \/ AcceptChunk(t, c).coordinator
                = [anchored |-> FALSE, requiresDiscontinuity |-> TRUE,
                   nextFrame |-> 0, generation |-> NextGeneration(t.generation)]
           \/ /\ ~t.anchored /\ t.requiresDiscontinuity
              /\ AcceptChunk(t, c).coordinator = t
<1>1. Refusal(t, c) = "non_contiguous"
  BY DEF AcceptChunk, Refusal
<1>2. CASE Misfit(t, c)
  BY <1>1, <1>2 DEF AcceptChunk
<1>3. CASE ~Misfit(t, c)
  BY <1>1, <1>3 DEF AcceptChunk, Refusal, Unacknowledged
<1> QED BY <1>2, <1>3

\* accept() of a chunk that is none.
LEMMA AnswerIgnore ==
    ASSUME NEW t \in Coordinator, NEW c \in Chunks,
           AcceptChunk(t, c).status \in {"invalid_chunk", "sample_rate_mismatch"}
    PROVE  AcceptChunk(t, c).coordinator = t
BY DEF AcceptChunk, Refusal

-----------------------------------------------------------------------------
\* The inductive invariant: the epochs' history agrees with the coordinator's fields.
Inv == TypeOK /\ EpochInv /\ EpochIsContiguous

\* A coordinator that has accepted nothing has issued no anchor.
LEMMA InitInv == Init => Inv
<1> SUFFICES ASSUME Init PROVE Inv
  OBVIOUS
<1>1. 0 \in Int64 /\ 0 \in Generation /\ 0 \in 0..MaxBreaks
  BY WidthAssumption, BreaksAssumption DEF Int64, Generation
<1>2. NewCoordinator \in Coordinator
  BY <1>1 DEF NewCoordinator, Coordinator
<1>3. TypeOK
  <2>1. current \in Seq(Anchor) /\ stale \in SUBSET Anchor
    BY DEF Init
  <2>2. timeline \in Coordinator /\ breaks \in 0..MaxBreaks
    BY <1>1, <1>2 DEF Init
  <2> QED BY <2>1, <2>2, Zenon DEF Init, TypeOK
<1>4. EpochInv
  BY DEF Init, EpochInv, NewCoordinator
<1>5. EpochIsContiguous
  BY DEF Init, EpochIsContiguous
<1> QED BY <1>3, <1>4, <1>5 DEF Inv

\* Inv is kept when the epoch goes on.
LEMMA FollowInv ==
    ASSUME Inv, NEW c \in Chunks,
           timeline' = AcceptChunk(timeline, c).coordinator,
           Follow(AcceptChunk(timeline, c))
    PROVE  Inv'
<1> DEFINE a == [first |-> c.first, count |-> c.count, rate |-> c.rate,
                 generation |-> timeline.generation]
<1>1. timeline \in Coordinator /\ current \in Seq(Anchor) /\ stale \in SUBSET Anchor
  BY DEF Inv, TypeOK
<1>2. timeline.generation \in Generation
  BY <1>1 DEF Coordinator
<1>3. AcceptChunk(timeline, c).status = "advanced"
  BY DEF Follow
<1>4. /\ timeline' = [anchored |-> TRUE, requiresDiscontinuity |-> FALSE,
                      nextFrame |-> c.first + c.count,
                      generation |-> timeline.generation]
      /\ current' = Append(current, a)
      /\ stale' = stale /\ gap' = gap /\ breaks' = breaks
      /\ Refusal(timeline, c) = "none" /\ timeline.anchored
      /\ c.first = timeline.nextFrame
  BY <1>1, <1>3, AnswerAdvanced DEF Follow
<1>5. /\ c.first >= 0 /\ c.count > 0 /\ c.rate = Rate
      /\ c.first \in Int64 /\ c.count \in Int64 /\ c.rate \in Nat
      /\ c.first + c.count \in Int64 /\ ~AddOverflows(c.first, c.count)
  BY <1>1, <1>4, AcceptedIsSound
<1>6. a \in Anchor /\ Sound(a) /\ a.generation = timeline.generation
  BY <1>2, <1>5 DEF Anchor, Sound
<1>7. timeline' \in Coordinator
  BY <1>2, <1>4, <1>5 DEF Coordinator
<1>8. ~gap
  BY <1>4 DEF Inv, EpochInv
<1>9. TypeOK'
  <2>1. current' \in Seq(Anchor)
    BY <1>1, <1>4, <1>6
  <2>2. stale' \in SUBSET Anchor /\ gap' \in BOOLEAN /\ breaks' \in 0..MaxBreaks
    BY <1>4 DEF Inv, TypeOK
  <2> QED BY <1>7, <2>1, <2>2, Zenon DEF TypeOK
<1>10. /\ Len(current') = Len(current) + 1 /\ Len(current) \in Nat
       /\ current'[Len(current) + 1] = a
       /\ \A i \in 1..Len(current) : current'[i] = current[i]
  BY <1>1, <1>4, <1>6
<1>11. EpochInv'
  <2>1. ASSUME NEW i \in 1..Len(current')
        PROVE  Sound(current'[i]) /\ current'[i].generation = timeline'.generation
    <3>1. CASE i = Len(current) + 1
      BY <3>1, <1>4, <1>6, <1>10
    <3>2. CASE i \in 1..Len(current)
      BY <3>2, <1>4, <1>10 DEF Inv, EpochInv
    <3> QED BY <3>1, <3>2, <1>10
  <2>2. current' # <<>>
    BY <1>10
  <2>3. timeline'.anchored /\ ~timeline'.requiresDiscontinuity /\ ~gap'
    BY <1>4, <1>8
  <2>4. \A b \in stale' : b.generation < timeline'.generation
                              \/ timeline'.generation = MaxGeneration
    BY <1>4 DEF Inv, EpochInv
  <2> QED BY <2>1, <2>2, <2>3, <2>4 DEF EpochInv
<1>12. EpochIsContiguous'
  <2>1. ASSUME NEW i \in 1 .. Len(current') - 1
        PROVE  current'[i].first + current'[i].count = current'[i + 1].first
    <3>1. CASE i = Len(current)
      BY <3>1, <1>4, <1>10 DEF Inv, EpochIsContiguous
    <3>2. CASE i \in 1 .. Len(current) - 1
      BY <3>2, <1>10 DEF Inv, EpochIsContiguous
    <3> QED BY <3>1, <3>2, <1>10
  <2>2. timeline'.nextFrame = a.first + a.count
    BY <1>4
  <2> QED BY <2>1, <2>2, <1>10 DEF EpochIsContiguous
<1> QED BY <1>9, <1>11, <1>12 DEF Inv

\* The anchors that move from current to stale are anchors, of this generation.
LEMMA Retired ==
    ASSUME Inv
    PROVE  /\ stale \cup RangeOf(current) \in SUBSET Anchor
           /\ \A b \in stale \cup RangeOf(current) :
                  \/ b.generation < NextGeneration(timeline.generation)
                  \/ NextGeneration(timeline.generation) = MaxGeneration
<1>1. /\ timeline.generation \in Generation /\ current \in Seq(Anchor)
      /\ stale \in SUBSET Anchor
  BY DEF Inv, TypeOK, Coordinator
<1>2. RangeOf(current) \subseteq Anchor
  BY <1>1 DEF RangeOf
<1>3. \A b \in RangeOf(current) : b.generation = timeline.generation
  BY <1>1 DEF RangeOf, Inv, EpochInv
<1>4. ASSUME NEW b \in stale \cup RangeOf(current)
      PROVE  \/ b.generation < NextGeneration(timeline.generation)
             \/ NextGeneration(timeline.generation) = MaxGeneration
  <2>1. b.generation \in Generation
    BY <1>1, <1>2 DEF Anchor
  <2>2. \/ b.generation <= timeline.generation
        \/ timeline.generation = MaxGeneration
    BY <1>1, <1>3, <2>1, WidthAssumption DEF Inv, EpochInv, Generation
  <2>3. timeline.generation = MaxGeneration
            => NextGeneration(timeline.generation) = MaxGeneration
    BY DEF NextGeneration
  <2> QED BY <1>1, <2>1, <2>2, <2>3, NextGenerationGrows, WidthAssumption
          DEF Generation
<1> QED BY <1>1, <1>2, <1>4

\* An epoch without a chunk: what a gap and reset() leave behind.
LEMMA BetweenEpochsInv ==
    ASSUME Inv, timeline' \in Coordinator, ~timeline'.anchored,
           \/ timeline'.generation = NextGeneration(timeline.generation)
           \/ timeline' = timeline,
           gap' \in BOOLEAN, gap' => timeline'.requiresDiscontinuity,
           current' = <<>>, stale' = stale \cup RangeOf(current),
           breaks' \in 0..MaxBreaks
    PROVE  Inv'
<1>1. TypeOK'
  <2>1. current' \in Seq(Anchor) /\ stale' \in SUBSET Anchor
    BY Retired
  <2> QED BY <2>1, Zenon DEF TypeOK
<1>2. \A b \in stale' : b.generation < timeline'.generation
                            \/ timeline'.generation = MaxGeneration
  <2>1. CASE timeline'.generation = NextGeneration(timeline.generation)
    BY <2>1, Retired
  <2>2. CASE timeline' = timeline
    <3>1. current = <<>>
      BY <2>2 DEF Inv, EpochInv
    <3>2. stale' = stale
      BY <3>1 DEF RangeOf
    <3> QED BY <2>2, <3>2 DEF Inv, EpochInv
  <2> QED BY <2>1, <2>2
<1>3. EpochInv'
  BY <1>2 DEF EpochInv
<1>4. EpochIsContiguous'
  BY DEF EpochIsContiguous
<1> QED BY <1>1, <1>3, <1>4 DEF Inv

\* Inv is kept when a chunk starts an epoch.
LEMMA RestartInv ==
    ASSUME Inv, NEW c \in Chunks,
           timeline' = AcceptChunk(timeline, c).coordinator,
           Restart(AcceptChunk(timeline, c), c)
    PROVE  Inv'
<1> DEFINE g == NextGeneration(timeline.generation)
           a == [first |-> c.first, count |-> c.count, rate |-> c.rate,
                 generation |-> g]
<1>1. timeline \in Coordinator /\ timeline.generation \in Generation
  BY DEF Inv, TypeOK, Coordinator
<1>2. AcceptChunk(timeline, c).status \in {"anchored", "reset"}
  BY DEF Restart
<1>3. /\ Refusal(timeline, c) = "none"
      /\ timeline' = [anchored |-> TRUE, requiresDiscontinuity |-> FALSE,
                      nextFrame |-> c.first + c.count, generation |-> g]
      /\ AcceptChunk(timeline, c).anchor = a
  BY <1>1, <1>2, AnswerRestart
<1>4. /\ current' = <<a>> /\ stale' = stale \cup RangeOf(current)
      /\ gap' = (gap /\ ~c.discontinuity)
      /\ breaks' = breaks + 1 /\ breaks < MaxBreaks
  BY <1>3 DEF Restart
<1>5. /\ c.first >= 0 /\ c.count > 0 /\ c.rate = Rate
      /\ c.first \in Int64 /\ c.count \in Int64 /\ c.rate \in Nat
      /\ c.first + c.count \in Int64 /\ ~AddOverflows(c.first, c.count)
      /\ ~Unacknowledged(timeline, c)
  BY <1>1, <1>3, AcceptedIsSound
<1>6. g \in Generation
  BY <1>1, NextGenerationGrows
<1>7. a \in Anchor /\ Sound(a) /\ timeline' \in Coordinator
  BY <1>3, <1>5, <1>6 DEF Anchor, Sound, Coordinator
<1>8. gap' = FALSE
  <2>1. gap => timeline.requiresDiscontinuity /\ ~timeline.anchored
    BY DEF Inv, EpochInv
  <2> QED BY <1>4, <1>5, <2>1 DEF Unacknowledged
<1>9. TypeOK'
  <2>1. current' \in Seq(Anchor)
    BY <1>4, <1>7
  <2>2. stale' \in SUBSET Anchor
    BY <1>4, Retired
  <2>3. breaks' \in 0..MaxBreaks
    BY <1>4, BreaksAssumption DEF Inv, TypeOK
  <2> QED BY <1>7, <1>8, <2>1, <2>2, <2>3, Zenon DEF TypeOK
<1>10. Len(current') = 1 /\ current'[1] = a /\ current' # <<>>
  BY <1>4
<1>11. EpochInv'
  <2>1. \A i \in 1..Len(current') :
            Sound(current'[i]) /\ current'[i].generation = timeline'.generation
    BY <1>3, <1>7, <1>10
  <2>2. timeline'.anchored /\ ~timeline'.requiresDiscontinuity
    BY <1>3
  <2>3. \A b \in stale' : b.generation < timeline'.generation
                              \/ timeline'.generation = MaxGeneration
    BY <1>3, <1>4, Retired
  <2> QED BY <1>8, <1>10, <2>1, <2>2, <2>3 DEF EpochInv
<1>12. EpochIsContiguous'
  <2>1. timeline'.nextFrame = a.first + a.count
    BY <1>3
  <2> QED BY <1>10, <2>1 DEF EpochIsContiguous
<1> QED BY <1>9, <1>11, <1>12 DEF Inv

\* Inv is kept by every answer of accept().
LEMMA AcceptInv == ASSUME Inv, NEW c \in Chunks, Accept(c) PROVE Inv'
<1> DEFINE u == AcceptChunk(timeline, c)
<1>1. timeline' = u.coordinator /\ timeline \in Coordinator
  BY DEF Accept, Inv, TypeOK
<1>2. CASE Follow(u)
  BY <1>1, <1>2, FollowInv
<1>3. CASE Restart(u, c)
  BY <1>1, <1>3, RestartInv
<1>4. CASE Break(u)
  <2>1. /\ current' = <<>> /\ stale' = stale \cup RangeOf(current)
        /\ gap' = TRUE /\ breaks' \in 0..MaxBreaks
    BY <1>4, BreaksAssumption DEF Break, Inv, TypeOK
  <2>2. u.status = "non_contiguous"
    BY <1>4 DEF Break
  <2>3. CASE timeline' = [anchored |-> FALSE, requiresDiscontinuity |-> TRUE,
                          nextFrame |-> 0,
                          generation |-> NextGeneration(timeline.generation)]
    <3>1. NextGeneration(timeline.generation) \in Generation /\ 0 \in Int64
      BY <1>1, NextGenerationGrows, WidthAssumption DEF Coordinator, Int64
    <3>2. timeline' \in Coordinator
      BY <2>3, <3>1 DEF Coordinator
    <3>3. /\ ~timeline'.anchored /\ timeline'.requiresDiscontinuity
          /\ timeline'.generation = NextGeneration(timeline.generation)
      BY <2>3
    <3> QED BY <2>1, <3>2, <3>3, BetweenEpochsInv
  <2>4. CASE ~timeline.anchored /\ timeline.requiresDiscontinuity /\ timeline' = timeline
    BY <1>1, <2>1, <2>4, BetweenEpochsInv
  <2> QED BY <1>1, <2>2, <2>3, <2>4, AnswerBreak
<1>5. CASE Ignore(u)
  <2>1. timeline' = timeline
    BY <1>1, <1>5, AnswerIgnore DEF Ignore
  <2>2. UNCHANGED <<current, stale, gap, breaks>>
    BY <1>5 DEF Ignore
  <2> QED BY <2>1, <2>2 DEF Inv, TypeOK, EpochInv, EpochIsContiguous
<1> QED BY <1>2, <1>3, <1>4, <1>5 DEF Accept

\* reset() ends the epoch: what it issued is stale, and nothing is current.
LEMMA ResetInv == Inv /\ Reset => Inv'
<1> SUFFICES ASSUME Inv, Reset PROVE Inv'
  OBVIOUS
<1>1. timeline' = [anchored |-> FALSE, requiresDiscontinuity |-> FALSE,
                   nextFrame |-> 0,
                   generation |-> NextGeneration(timeline.generation)]
  BY DEF Reset, ResetCoordinator
<1>2. NextGeneration(timeline.generation) \in Generation /\ 0 \in Int64
  BY NextGenerationGrows, WidthAssumption DEF Inv, TypeOK, Coordinator, Int64
<1>3. timeline' \in Coordinator
  BY <1>1, <1>2 DEF Coordinator
<1>4. ~timeline'.anchored /\ timeline'.generation = NextGeneration(timeline.generation)
  BY <1>1
<1>5. /\ current' = <<>> /\ stale' = stale \cup RangeOf(current)
      /\ gap' = FALSE /\ breaks' \in 0..MaxBreaks
  BY BreaksAssumption DEF Reset, Inv, TypeOK
<1> QED BY <1>3, <1>4, <1>5, BetweenEpochsInv

\* Every call of accept() and reset() keeps the invariant.
LEMMA InvIsInductive == Inv /\ [Next]_vars => Inv'
<1> SUFFICES ASSUME Inv, [Next]_vars PROVE Inv'
  OBVIOUS
<1>1. CASE Reset
  BY <1>1, ResetInv
<1>2. ASSUME NEW c \in Chunks, Accept(c) PROVE Inv'
  BY <1>2, AcceptInv
<1>3. CASE UNCHANGED vars
  BY <1>3 DEF vars, Inv, TypeOK, EpochInv, EpochIsContiguous
<1> QED BY <1>1, <1>2, <1>3 DEF Next

\* So it always holds.
LEMMA InvHolds == Spec => []Inv
BY InitInv, InvIsInductive, PTL DEF Spec

-----------------------------------------------------------------------------
\* The coordinator's fields and the issued anchors keep their types; in particular
\* the frame it expects next never leaves std::int64_t (audio_timeline.cpp:93-97).
THEOREM TimelineTypeCorrect == Spec => []TypeOK
BY InvHolds, PTL DEF Inv

\* Until the generation saturates, no result of an earlier epoch can be placed.
THEOREM StaleResultsAreRefused == Spec => []StaleAnchorsPlaceNothing
<1>1. Inv => StaleAnchorsPlaceNothing
  <2> SUFFICES ASSUME Inv, timeline.generation < MaxGeneration, NEW b \in stale
               PROVE  ~ValidAnchor(timeline, b)
    BY DEF StaleAnchorsPlaceNothing
  <2>1. b.generation \in Generation /\ timeline.generation \in Generation
    BY DEF Inv, TypeOK, Anchor, Coordinator
  <2>2. b.generation < timeline.generation
    BY <2>1, WidthAssumption DEF Inv, EpochInv, Generation
  <2>3. b.generation # timeline.generation
    BY <2>1, <2>2, WidthAssumption DEF Generation
  <2> QED BY <2>3 DEF ValidAnchor
<1> QED BY <1>1, InvHolds, PTL

\* Every result of the epoch can.
THEOREM CurrentResultsArePlaced == Spec => []CurrentAnchorsPlace
<1>1. Inv => CurrentAnchorsPlace
  <2> SUFFICES ASSUME Inv, NEW i \in DOMAIN current
               PROVE  ValidAnchor(timeline, current[i])
    BY DEF CurrentAnchorsPlace, RangeOf
  <2>1. i \in 1..Len(current) /\ current # <<>>
    BY DEF Inv, TypeOK
  <2>2. Sound(current[i]) /\ current[i].generation = timeline.generation
    BY <2>1 DEF Inv, EpochInv
  <2>3. timeline.anchored
    BY <2>1 DEF Inv, EpochInv
  <2> QED BY <2>2, <2>3 DEF ValidAnchor, Sound
<1> QED BY <1>1, InvHolds, PTL

\* An epoch is one interval of frames.
THEOREM EpochsAreContiguous == Spec => []EpochIsContiguous
BY InvHolds, PTL DEF Inv

\* Nothing is accepted across a gap nobody acknowledged.
THEOREM GapsAreAcknowledged == Spec => []GapIsAcknowledged
<1>1. Inv => GapIsAcknowledged
  BY DEF Inv, EpochInv, GapIsAcknowledged
<1> QED BY <1>1, InvHolds, PTL

-----------------------------------------------------------------------------
(* Intervals put in order and merged.                                        *)

\* A CensorInterval in frames, or in microseconds.
Interval == [start : Int, end : Int]

\* One turn of the loop of CensorScheduler::merge (censor_scheduler.cpp).
MergeStep(unused, merged, i) ==
    IF merged = <<>> \/ i.start > Last(merged).end THEN Append(merged, i)
    ELSE [merged EXCEPT ![Len(merged)].end = IF @ > i.end THEN @ ELSE i.end]

MergeFold == INSTANCE FoldFacts WITH Step <- MergeStep, Base <- <<>>

\* The order of intervals is total.
LEMMA BeforeIsTotal ==
    ASSUME NEW i \in Interval, NEW j \in Interval
    PROVE  /\ i = j \/ Before(i, j) \/ Before(j, i)
           /\ ~(Before(i, j) /\ Before(j, i))
           /\ \A k \in Interval : Before(i, j) /\ Before(j, k) => Before(i, k)
<1>1. /\ i = [start |-> i.start, end |-> i.end] /\ i.start \in Int /\ i.end \in Int
      /\ j = [start |-> j.start, end |-> j.end] /\ j.start \in Int /\ j.end \in Int
  BY DEF Interval
<1>2. i.start = j.start /\ i.end = j.end => i = j
  BY <1>1
<1>3. \A k \in Interval : k.start \in Int /\ k.end \in Int
  BY DEF Interval
<1> QED BY <1>1, <1>2, <1>3 DEF Before

\* A finite set of intervals that is not empty has a last one.
LEMMA LastInterval ==
    ASSUME NEW S \in SUBSET Interval, IsFiniteSet(S), S # {}
    PROVE  \E m \in S : \A i \in S \ {m} : Before(i, m)
<1> DEFINE P == {n \in Nat : \A T \in SUBSET Interval :
                    IsFiniteSet(T) /\ Cardinality(T) = n /\ T # {}
                      => \E m \in T : \A i \in T \ {m} : Before(i, m)}
<1>1. 0 \in P
  <2>1. \A T \in SUBSET Interval : IsFiniteSet(T) /\ Cardinality(T) = 0 => T = {}
    BY FS_EmptySet
  <2> QED BY <2>1
<1>2. ASSUME NEW n \in Nat, n \in P PROVE n + 1 \in P
  <2> SUFFICES ASSUME NEW T \in SUBSET Interval, IsFiniteSet(T), Cardinality(T) = n + 1, T # {}
               PROVE  \E m \in T : \A i \in T \ {m} : Before(i, m)
    OBVIOUS
  <2>1. PICK x \in T : TRUE
    OBVIOUS
  <2>2. IsFiniteSet(T \ {x}) /\ Cardinality(T \ {x}) = n
    <3>1. IsFiniteSet(T \ {x}) /\ Cardinality(T \ {x}) = Cardinality(T) - 1
      BY FS_RemoveElement
    <3> QED BY <3>1
  <2>3. CASE T \ {x} = {}
    BY <2>1, <2>3
  <2>4. CASE T \ {x} # {}
    <3>1. PICK m \in T \ {x} : \A i \in (T \ {x}) \ {m} : Before(i, m)
      <4>1. T \ {x} \in SUBSET Interval
        OBVIOUS
      <4> QED BY <1>2, <2>2, <2>4, <4>1
    <3>2. CASE Before(x, m)
      BY <3>1, <3>2
    <3>3. CASE ~Before(x, m)
      <4>1. Before(m, x)
        BY <2>1, <3>1, <3>3, BeforeIsTotal
      <4>2. ASSUME NEW i \in T \ {x} PROVE Before(i, x)
        <5>1. CASE i = m
          BY <4>1, <5>1
        <5>2. CASE i # m
          <6>1. Before(i, m) /\ i \in Interval /\ m \in Interval /\ x \in Interval
            BY <3>1, <5>2, <2>1
          <6> QED BY <6>1, <4>1, BeforeIsTotal
        <5> QED BY <5>1, <5>2
      <4> QED BY <4>2, <2>1
    <3> QED BY <3>2, <3>3
  <2> QED BY <2>3, <2>4
<1> HIDE DEF P
<1>3. Nat \subseteq P
  BY <1>1, <1>2, MergeFold!NaturalInduction
<1>4. Cardinality(S) \in P
  BY <1>3, FS_CardinalityType
<1> QED BY <1>4 DEF P

\* In the order that std::sort leaves.
Sorted(s) == \A k, l \in DOMAIN s : k < l => Before(s[k], s[l])

\* Every finite set of intervals can be put in order.
LEMMA SortedExists ==
    ASSUME NEW S \in SUBSET Interval, IsFiniteSet(S)
    PROVE  \E s \in SetToSeqs(S) : Sorted(s) /\ \A i \in S : \E k \in DOMAIN s : s[k] = i
<1> DEFINE Enumerated(T) ==
             \E s \in SetToSeqs(T) : Sorted(s) /\ \A i \in T : \E k \in DOMAIN s : s[k] = i
           P == {n \in Nat : \A T \in SUBSET Interval :
                    IsFiniteSet(T) /\ Cardinality(T) = n => Enumerated(T)}
<1>1. 0 \in P
  <2> SUFFICES ASSUME NEW T \in SUBSET Interval, IsFiniteSet(T), Cardinality(T) = 0
               PROVE  Enumerated(T)
    OBVIOUS
  <2>1. T = {}
    BY FS_EmptySet
  <2> DEFINE s == [k \in 1 .. 0 |-> 0]
  <2>2. DOMAIN s = {} /\ 1 .. 0 = {}
    OBVIOUS
  <2>3. s \in [1 .. 0 -> T]
    BY <2>2
  <2>4. s \in SetToSeqs(T)
    BY <2>2, <2>3, Zenon DEF SetToSeqs
  <2> QED BY <2>1, <2>2, <2>4 DEF Sorted
<1>2. ASSUME NEW n \in Nat, n \in P PROVE n + 1 \in P
  <2> SUFFICES ASSUME NEW T \in SUBSET Interval, IsFiniteSet(T), Cardinality(T) = n + 1
               PROVE  Enumerated(T)
    OBVIOUS
  <2>1. T # {}
    BY FS_EmptySet
  <2>2. PICK m \in T : \A i \in T \ {m} : Before(i, m)
    BY <2>1, LastInterval
  <2>3. IsFiniteSet(T \ {m}) /\ Cardinality(T \ {m}) = n
    <3>1. IsFiniteSet(T \ {m}) /\ Cardinality(T \ {m}) = Cardinality(T) - 1
      BY FS_RemoveElement
    <3> QED BY <3>1
  <2>4. Enumerated(T \ {m})
    BY <1>2, <2>3
  <2>5. PICK s \in SetToSeqs(T \ {m}) :
          Sorted(s) /\ \A i \in T \ {m} : \E k \in DOMAIN s : s[k] = i
    BY <2>4
  <2>6. s \in [1 .. n -> T \ {m}] /\ \A k, l \in 1 .. n : k # l => s[k] # s[l]
    BY <2>3, Zenon DEF SetToSeqs
  <2>7. DOMAIN s = 1 .. n
    BY <2>6
  <2> DEFINE t == [k \in 1 .. n + 1 |-> IF k = n + 1 THEN m ELSE s[k]]
  <2>8. /\ DOMAIN t = 1 .. n + 1 /\ t[n + 1] = m
        /\ \A k \in 1 .. n + 1 : k # n + 1 => k \in 1 .. n /\ t[k] = s[k]
        /\ \A k \in 1 .. n : k \in 1 .. n + 1 /\ k # n + 1
    OBVIOUS
  <2>9. t \in [1 .. n + 1 -> T]
    BY <2>6
  <2>10. \A k \in 1 .. n : s[k] \in T \ {m}
    BY <2>6
  <2> HIDE DEF t
  <2>11. \A k, l \in 1 .. n + 1 : k # l => t[k] # t[l]
    BY <2>6, <2>8, <2>10
  <2>12. t \in SetToSeqs(T)
    BY <2>9, <2>11, Zenon DEF SetToSeqs
  <2>13. Sorted(t)
    <3> SUFFICES ASSUME NEW k \in 1 .. n + 1, NEW l \in 1 .. n + 1, k < l
                 PROVE  Before(t[k], t[l])
      BY <2>8 DEF Sorted
    <3>1. k \in 1 .. n /\ t[k] = s[k]
      BY <2>8
    <3>2. CASE l = n + 1
      BY <3>1, <3>2, <2>2, <2>8, <2>10
    <3>3. CASE l # n + 1
      <4>1. l \in 1 .. n /\ t[l] = s[l]
        BY <2>8, <3>3
      <4>2. Before(s[k], s[l])
        BY <2>5, <2>7, <3>1, <4>1 DEF Sorted
      <4> QED BY <3>1, <4>1, <4>2
    <3> QED BY <3>2, <3>3
  <2>14. \A i \in T : \E k \in DOMAIN t : t[k] = i
    <3> SUFFICES ASSUME NEW i \in T PROVE \E k \in 1 .. n + 1 : t[k] = i
      BY <2>8
    <3>1. CASE i = m
      <4>1. n + 1 \in 1 .. n + 1
        OBVIOUS
      <4> QED BY <3>1, <4>1, <2>8
    <3>2. CASE i # m
      <4>1. PICK k \in 1 .. n : s[k] = i
        BY <3>2, <2>5, <2>7
      <4> QED BY <4>1, <2>8
    <3> QED BY <3>1, <3>2
  <2> QED BY <2>12, <2>13, <2>14
<1> HIDE DEF P, Enumerated
<1>3. Nat \subseteq P
  BY <1>1, <1>2, MergeFold!NaturalInduction
<1>4. Cardinality(S) \in P
  BY <1>3, FS_CardinalityType
<1>5. Enumerated(S)
  BY <1>4 DEF P
<1> QED BY <1>5 DEF Enumerated

\* What Ordered is: an enumeration of the set, in order.
LEMMA OrderedIsSorted ==
    ASSUME NEW S \in SUBSET Interval, IsFiniteSet(S)
    PROVE  /\ Ordered(S) \in Seq(Interval)
           /\ \A k \in 1 .. Len(Ordered(S)) : Ordered(S)[k] \in S
           /\ \A k, l \in 1 .. Len(Ordered(S)) : k < l => Ordered(S)[k].start <= Ordered(S)[l].start
           /\ \A i \in S : \E k \in 1 .. Len(Ordered(S)) : Ordered(S)[k] = i
<1> DEFINE s == Ordered(S)
           n == Cardinality(S)
<1>1. s \in SetToSeqs(S) /\ Sorted(s)
  <2>1. \E t \in SetToSeqs(S) : Sorted(t)
    BY SortedExists
  <2> QED BY <2>1, Zenon DEF Ordered, Sorted
<1> HIDE DEF s
<1>2. n \in Nat
  BY FS_CardinalityType
<1>3. s \in [1 .. n -> S] /\ \A k, l \in 1 .. n : k # l => s[k] # s[l]
  BY <1>1, Zenon DEF SetToSeqs
<1>4. s \in Seq(S) /\ Len(s) = n
  BY <1>2, <1>3
<1>5. s \in Seq(Interval) /\ DOMAIN s = 1 .. Len(s) /\ \A k \in 1 .. Len(s) : s[k] \in S
  BY <1>3, <1>4
<1>6. ASSUME NEW k \in 1 .. Len(s), NEW l \in 1 .. Len(s), k < l PROVE s[k].start <= s[l].start
  <2>1. Before(s[k], s[l])
    BY <1>1, <1>5, <1>6 DEF Sorted
  <2>2. s[k] \in Interval /\ s[l] \in Interval
    BY <1>5
  <2> QED BY <2>1, <2>2 DEF Before, Interval
<1>7. \A i \in S : \E k \in 1 .. Len(s) : s[k] = i
  <2>1. Cardinality(1 .. n) = n /\ IsFiniteSet(1 .. n)
    BY <1>2, FS_Interval
  <2>2. s \in Injection(1 .. n, S)
    BY <1>3 DEF Injection, IsInjective
  <2>3. s \in Surjection(1 .. n, S)
    BY <2>1, <2>2, FS_Injection, Zenon
  <2> QED BY <2>3, <1>5, <1>4 DEF Surjection
<1> QED BY <1>5, <1>6, <1>7 DEF s

-----------------------------------------------------------------------------
(* Merge: what it returns covers the same frames, in intervals apart.        *)

\* No two intervals of the list touch.
Apart(m) == \A k, l \in 1 .. Len(m) : k < l => m[k].end < m[l].start

\* An interval of the list holds frame f.
Covers(m, f) == \E k \in 1 .. Len(m) : m[k].start <= f /\ f < m[k].end

\* m is what is merged of the first n of s.
Merges(m, s, n) ==
    /\ m \in Seq(Interval)
    /\ \A k \in 1 .. Len(m) : m[k].start < m[k].end
    /\ Apart(m)
    /\ \A j \in 1 .. n : \E k \in 1 .. Len(m) : m[k].start <= s[j].start /\ s[j].end <= m[k].end
    /\ \A f \in Int : Covers(m, f) => \E j \in 1 .. n : s[j].start <= f /\ f < s[j].end
    /\ \A k \in 1 .. Len(m) : \E j \in 1 .. n : m[k].start = s[j].start

\* Merge folds MergeStep over the nonempty intervals in order.
LEMMA MergeIsFold == \A S : Merge(S) = MergeFold!Fold(0, Ordered(Nonempty(S)))
BY Zenon DEF Merge, FoldLeft, MapThenFoldSet, Max, MergeStep, MergeFold!Fold,
             MergeFold!FoldLeft, MergeFold!MapThenFoldSet, MergeFold!Max

\* What SMT needs to know of an interval in a list.
LEMMA ElementOfIntervals ==
    ASSUME NEW s \in Seq(Interval), NEW k \in 1 .. Len(s)
    PROVE  s[k] \in Interval /\ s[k].start \in Int /\ s[k].end \in Int
<1>1. s[k] \in Interval
  BY ElementOfSeq
<1> QED BY <1>1 DEF Interval

\* The last interval, stretched.
LEMMA Stretched ==
    ASSUME NEW m \in Seq(Interval), m # <<>>, NEW e \in Int
    PROVE  LET t == [m EXCEPT ![Len(m)].end = e]
           IN  /\ t \in Seq(Interval) /\ Len(t) = Len(m)
               /\ \A k \in 1 .. Len(m) : k # Len(m) => t[k] = m[k]
               /\ t[Len(m)].start = m[Len(m)].start /\ t[Len(m)].end = e
<1> DEFINE x == [m[Len(m)] EXCEPT !.end = e]
           t == [m EXCEPT ![Len(m)] = x]
<1>1. Len(m) \in 1 .. Len(m) /\ DOMAIN m = 1 .. Len(m) /\ \A k \in 1 .. Len(m) : m[k] \in Interval
  BY EmptySeq, LenProperties
<1>2. m[Len(m)] \in Interval
  BY <1>1
<1>3. x \in Interval /\ x.start = m[Len(m)].start /\ x.end = e
  BY <1>2 DEF Interval
<1> HIDE DEF x
<1>4. t \in Seq(Interval) /\ Len(t) = Len(m) /\ t[Len(m)] = x
      /\ \A k \in 1 .. Len(m) : k # Len(m) => t[k] = m[k]
  <2>1. t \in Seq(Interval) /\ Len(t) = Len(m)
        /\ \A k \in 1 .. Len(m) : t[k] = IF k = Len(m) THEN x ELSE m[k]
    BY <1>1, <1>3, ExceptSeq
  <2> QED BY <2>1, <1>1
<1>5. t = [m EXCEPT ![Len(m)].end = e]
  BY Zenon DEF x
<1> QED BY <1>3, <1>4, <1>5

\* One more interval in order is merged: it grows the last one or follows it.
LEMMA MergeOne ==
    ASSUME NEW s \in Seq(Interval), NEW n \in Nat, n + 1 \in 1 .. Len(s),
           s[n + 1].start < s[n + 1].end,
           \A j \in 1 .. n : s[j].start <= s[n + 1].start,
           NEW m, Merges(m, s, n)
    PROVE  Merges(MergeStep(0, m, s[n + 1]), s, n + 1)
<1> DEFINE e == s[n + 1]
<1>1. e \in Interval /\ e.start \in Int /\ e.end \in Int /\ e.start < e.end
  BY ElementOfIntervals
<1>2. m \in Seq(Interval) /\ Len(m) \in Nat
  BY LenProperties DEF Merges
<1>3. \A k \in 1 .. Len(m) : m[k] \in Interval /\ m[k].start \in Int /\ m[k].end \in Int
  BY <1>2, ElementOfIntervals
<1>4. \A j \in 1 .. n : s[j] \in Interval /\ s[j].start \in Int /\ s[j].end \in Int
      /\ j \in 1 .. n + 1
  <2>1. \A j \in 1 .. n : j \in 1 .. Len(s) /\ j \in 1 .. n + 1
    BY LenProperties
  <2> QED BY <2>1, ElementOfIntervals
<1>5. n + 1 \in 1 .. n + 1 /\ \A j \in 1 .. n : s[j].start <= e.start
  OBVIOUS
<1>6. ASSUME m = <<>> \/ e.start > Last(m).end PROVE Merges(Append(m, e), s, n + 1)
  <2> DEFINE t == Append(m, e)
  <2>1. /\ t \in Seq(Interval) /\ Len(t) = Len(m) + 1 /\ t[Len(m) + 1] = e
        /\ \A k \in 1 .. Len(m) : t[k] = m[k]
    BY <1>1, <1>2, AppendProperties
  <2>2. Len(t) \in 1 .. Len(t) /\ (\A k \in 1 .. Len(m) : k \in 1 .. Len(t))
        /\ \A k \in 1 .. Len(t) : k \in 1 .. Len(m) \/ k = Len(m) + 1
    BY <2>1, <1>2
  <2> HIDE DEF t, e
  <2>3. \A k \in 1 .. Len(t) : t[k].start < t[k].end
    BY <1>1, <2>1, <2>2 DEF Merges
  <2>4. \A k \in 1 .. Len(m) : m[k].end < e.start
    <3> SUFFICES ASSUME NEW k \in 1 .. Len(m) PROVE m[k].end < e.start
      OBVIOUS
    <3>1. m # <<>> /\ Len(m) \in 1 .. Len(m)
      BY <1>2, EmptySeq
    <3>2. m[Len(m)].end < e.start
      BY <1>6, <3>1, <1>1, <1>3 DEF Last
    <3>3. CASE k = Len(m)
      BY <3>2, <3>3
    <3>4. CASE k # Len(m)
      <4>1. m[k].end < m[Len(m)].start /\ m[Len(m)].start < m[Len(m)].end
        <5>1. k < Len(m)
          BY <3>4, <1>2
        <5> QED BY <3>1, <5>1 DEF Merges, Apart
      <4> QED BY <3>1, <3>2, <4>1, <1>1, <1>3
    <3> QED BY <3>3, <3>4
  <2>5. Apart(t)
    <3> SUFFICES ASSUME NEW k \in 1 .. Len(t), NEW l \in 1 .. Len(t), k < l
                 PROVE  t[k].end < t[l].start
      BY DEF Apart
    <3>1. k \in 1 .. Len(m) /\ t[k] = m[k]
      BY <2>1, <1>2
    <3>2. CASE l \in 1 .. Len(m)
      BY <3>1, <3>2, <2>1 DEF Merges, Apart
    <3>3. CASE l = Len(m) + 1
      BY <3>1, <3>3, <2>1, <2>4
    <3> QED BY <3>2, <3>3, <2>2
  <2>6. \A j \in 1 .. n + 1 :
          \E k \in 1 .. Len(t) : t[k].start <= s[j].start /\ s[j].end <= t[k].end
    <3> SUFFICES ASSUME NEW j \in 1 .. n + 1
                 PROVE  \E k \in 1 .. Len(t) : t[k].start <= s[j].start /\ s[j].end <= t[k].end
      OBVIOUS
    <3>1. CASE j = n + 1
      <4>1. Len(t) \in 1 .. Len(t) /\ t[Len(t)] = e /\ s[j] = e
        BY <3>1, <2>1, <2>2 DEF e
      <4>2. e.start <= e.start /\ e.end <= e.end
        BY <1>1
      <4> QED BY <4>1, <4>2
    <3>2. CASE j # n + 1
      <4>1. j \in 1 .. n
        BY <3>2
      <4>2. PICK k \in 1 .. Len(m) : m[k].start <= s[j].start /\ s[j].end <= m[k].end
        BY <4>1 DEF Merges
      <4> QED BY <4>2, <2>1, <2>2
    <3> QED BY <3>1, <3>2
  <2>7. \A f \in Int : Covers(t, f) => \E j \in 1 .. n + 1 : s[j].start <= f /\ f < s[j].end
    <3> SUFFICES ASSUME NEW f \in Int, NEW k \in 1 .. Len(t), t[k].start <= f, f < t[k].end
                 PROVE  \E j \in 1 .. n + 1 : s[j].start <= f /\ f < s[j].end
      BY DEF Covers
    <3>1. CASE k \in 1 .. Len(m)
      <4>1. Covers(m, f)
        BY <3>1, <2>1 DEF Covers
      <4>2. PICK j \in 1 .. n : s[j].start <= f /\ f < s[j].end
        BY <4>1 DEF Merges
      <4> QED BY <4>2, <1>4
    <3>2. CASE k = Len(m) + 1
      <4>1. s[n + 1].start <= f /\ f < s[n + 1].end
        BY <3>2, <2>1 DEF e
      <4> QED BY <4>1, <1>5
    <3> QED BY <3>1, <3>2, <2>2
  <2>8. \A k \in 1 .. Len(t) : \E j \in 1 .. n + 1 : t[k].start = s[j].start
    <3> SUFFICES ASSUME NEW k \in 1 .. Len(t) PROVE \E j \in 1 .. n + 1 : t[k].start = s[j].start
      OBVIOUS
    <3>1. CASE k \in 1 .. Len(m)
      <4>1. PICK j \in 1 .. n : m[k].start = s[j].start
        BY <3>1 DEF Merges
      <4> QED BY <4>1, <3>1, <2>1, <1>4
    <3>2. CASE k = Len(m) + 1
      BY <3>2, <2>1, <1>5 DEF e
    <3> QED BY <3>1, <3>2, <2>2
  <2>9. Merges(t, s, n + 1)
    BY <2>1, <2>3, <2>5, <2>6, <2>7, <2>8, Zenon DEF Merges
  <2> QED BY <2>9 DEF t, e
<1>7. ASSUME m # <<>>, ~(e.start > Last(m).end)
      PROVE  Merges([m EXCEPT ![Len(m)].end = IF @ > e.end THEN @ ELSE e.end], s, n + 1)
  <2> DEFINE z == Len(m)
             x == IF m[z].end > e.end THEN m[z].end ELSE e.end
             t == [m EXCEPT ![z].end = x]
  <2> HIDE DEF e
  <2>1. z \in 1 .. z /\ z \in Nat
    BY <1>2, <1>7, EmptySeq
  <2>2. x \in Int /\ m[z].end <= x /\ e.end <= x /\ (x = m[z].end \/ x = e.end)
    BY <2>1, <1>1, <1>3
  <2>3. /\ t \in Seq(Interval) /\ Len(t) = z
        /\ \A k \in 1 .. z : k # z => t[k] = m[k]
        /\ t[z].start = m[z].start /\ t[z].end = x
    <3> HIDE DEF x
    <3> QED BY <1>2, <1>7, <2>2, Stretched, Zenon
  <2>4. t = [m EXCEPT ![Len(m)].end = IF @ > e.end THEN @ ELSE e.end]
    <3> HIDE DEF e
    <3> QED BY <1>2, Zenon
  <2>5. e.start <= m[z].end
    BY <1>7, <1>1, <2>1, <1>3 DEF Last
  <2>6. m[z].start <= e.start
    <3>1. PICK j \in 1 .. n : m[z].start = s[j].start
      BY <2>1 DEF Merges
    <3> QED BY <3>1, <1>5
  <2>7. m[z].start < m[z].end
    BY <2>1 DEF Merges
  <2>8. \A k \in 1 .. z : m[k].start \in Int /\ m[k].end \in Int /\ t[k].start = m[k].start
           /\ t[k].end \in Int /\ m[k].end <= t[k].end
    <3> SUFFICES ASSUME NEW k \in 1 .. z
                 PROVE  m[k].start \in Int /\ m[k].end \in Int /\ t[k].start = m[k].start
                        /\ t[k].end \in Int /\ m[k].end <= t[k].end
      OBVIOUS
    <3> HIDE DEF t, x
    <3>1. CASE k = z
      BY <3>1, <1>3, <2>2, <2>3
    <3>2. CASE k # z
      BY <3>2, <1>3, <2>3
    <3> QED BY <3>1, <3>2
  <2> HIDE DEF t, x, z
  <2>9. \A k \in 1 .. Len(t) : t[k].start < t[k].end
    <3> SUFFICES ASSUME NEW k \in 1 .. z PROVE t[k].start < t[k].end
      BY <2>3
    <3>1. m[k].start < m[k].end
      BY DEF Merges, z
    <3> QED BY <3>1, <2>8
  <2>10. Apart(t)
    <3> SUFFICES ASSUME NEW k \in 1 .. z, NEW l \in 1 .. z, k < l
                 PROVE  t[k].end < t[l].start
      BY <2>3 DEF Apart
    <3>1. k # z
      BY <2>1
    <3>2. m[k].end < m[l].start
      BY DEF Merges, Apart, z
    <3> QED BY <3>1, <3>2, <2>3, <2>8
  <2>11. \A j \in 1 .. n + 1 :
          \E k \in 1 .. Len(t) : t[k].start <= s[j].start /\ s[j].end <= t[k].end
    <3> SUFFICES ASSUME NEW j \in 1 .. n + 1
                 PROVE  \E k \in 1 .. z : t[k].start <= s[j].start /\ s[j].end <= t[k].end
      BY <2>3
    <3>1. CASE j = n + 1
      <4>1. t[z].start <= e.start /\ e.end <= t[z].end
        BY <2>1, <2>2, <2>3, <2>6
      <4> QED BY <3>1, <4>1, <2>1 DEF e
    <3>2. CASE j # n + 1
      <4>1. j \in 1 .. n
        BY <3>2
      <4>2. PICK k \in 1 .. z : m[k].start <= s[j].start /\ s[j].end <= m[k].end
        BY <4>1 DEF Merges, z
      <4>3. t[k].start <= s[j].start /\ s[j].end <= t[k].end
        BY <4>1, <4>2, <2>8, <1>4
      <4> QED BY <4>3
    <3> QED BY <3>1, <3>2
  <2>12. \A f \in Int : Covers(t, f) => \E j \in 1 .. n + 1 : s[j].start <= f /\ f < s[j].end
    <3> SUFFICES ASSUME NEW f \in Int, NEW k \in 1 .. z, t[k].start <= f, f < t[k].end
                 PROVE  \E j \in 1 .. n + 1 : s[j].start <= f /\ f < s[j].end
      BY <2>3 DEF Covers
    <3>1. CASE f < m[k].end
      <4>1. Covers(m, f)
        BY <3>1, <2>8 DEF Covers, z
      <4>2. PICK j \in 1 .. n : s[j].start <= f /\ f < s[j].end
        BY <4>1 DEF Merges
      <4> QED BY <4>2, <1>4
    <3>2. CASE ~(f < m[k].end)
      <4>1. k = z
        <5>1. SUFFICES ASSUME k # z PROVE FALSE
          OBVIOUS
        <5>2. t[k] = m[k]
          BY <5>1, <2>3
        <5> QED BY <5>2, <3>2
      <4>2. e.start <= f /\ f < e.end
        BY <4>1, <3>2, <2>2, <2>3, <2>5, <2>8, <1>1
      <4> QED BY <4>2, <1>5 DEF e
    <3> QED BY <3>1, <3>2
  <2>13. \A k \in 1 .. Len(t) : \E j \in 1 .. n + 1 : t[k].start = s[j].start
    <3> SUFFICES ASSUME NEW k \in 1 .. z PROVE \E j \in 1 .. n + 1 : t[k].start = s[j].start
      BY <2>3
    <3>1. PICK j \in 1 .. n : m[k].start = s[j].start
      BY DEF Merges, z
    <3> QED BY <3>1, <2>8, <1>4
  <2>14. Merges(t, s, n + 1)
    BY <2>3, <2>9, <2>10, <2>11, <2>12, <2>13, Zenon DEF Merges
  <2> QED BY <2>4, <2>14
<1>8. CASE m = <<>> \/ e.start > Last(m).end
  <2>1. MergeStep(0, m, e) = Append(m, e)
    BY <1>8, Zenon DEF MergeStep
  <2> QED BY <1>6, <1>8, <2>1
<1>9. CASE ~(m = <<>> \/ e.start > Last(m).end)
  <2>1. MergeStep(0, m, e) = [m EXCEPT ![Len(m)].end = IF @ > e.end THEN @ ELSE e.end]
    BY <1>9, Zenon DEF MergeStep
  <2> QED BY <1>7, <1>9, <2>1
<1> QED BY <1>8, <1>9

\* Merge returns nonempty intervals, apart from each other and in order, that cover the
\* frames of what it was given.
LEMMA MergeCovers ==
    ASSUME NEW S \in SUBSET Interval, IsFiniteSet(S)
    PROVE  /\ Merge(S) \in Seq(Interval)
           /\ \A k \in 1 .. Len(Merge(S)) : Merge(S)[k].start < Merge(S)[k].end
           /\ Apart(Merge(S))
           /\ \A i \in Nonempty(S) : \E k \in 1 .. Len(Merge(S)) :
                 Merge(S)[k].start <= i.start /\ i.end <= Merge(S)[k].end
           /\ \A f \in Int : Covers(Merge(S), f)
                               => \E i \in Nonempty(S) : i.start <= f /\ f < i.end
           /\ \A k \in 1 .. Len(Merge(S)) : \E i \in Nonempty(S) : Merge(S)[k].start = i.start
<1> DEFINE N == Nonempty(S)
           s == Ordered(N)
           P == {n \in Nat : n <= Len(s) => Merges(MergeFold!Fold(0, SubSeq(s, 1, n)), s, n)}
<1>1. N \in SUBSET Interval /\ IsFiniteSet(N) /\ \A i \in N : i.start < i.end
  BY FS_Subset DEF Nonempty
<1>2. /\ s \in Seq(Interval)
      /\ \A k \in 1 .. Len(s) : s[k] \in N
      /\ \A k, l \in 1 .. Len(s) : k < l => s[k].start <= s[l].start
      /\ \A i \in N : \E k \in 1 .. Len(s) : s[k] = i
  <2> HIDE DEF N
  <2> QED BY <1>1, OrderedIsSorted
<1> HIDE DEF N, s
<1>3. Len(s) \in Nat
  BY <1>2, LenProperties
<1>4. 0 \in P
  <2>1. MergeFold!Fold(0, SubSeq(s, 1, 0)) = <<>>
    BY <1>2, MergeFold!FoldPrefix
  <2>2. Merges(<<>>, s, 0)
    <3>1. <<>> \in Seq(Interval) /\ Len(<<>>) = 0 /\ 1 .. 0 = {}
      BY EmptySeq
    <3> QED BY <3>1, Zenon DEF Merges, Apart, Covers
  <2> QED BY <2>1, <2>2
<1>5. ASSUME NEW n \in Nat, n \in P PROVE n + 1 \in P
  <2> SUFFICES ASSUME n + 1 <= Len(s)
               PROVE  Merges(MergeFold!Fold(0, SubSeq(s, 1, n + 1)), s, n + 1)
    OBVIOUS
  <2>1. n \in 0 .. Len(s) - 1 /\ n + 1 \in 1 .. Len(s)
    BY <1>3
  <2>2. MergeFold!Fold(0, SubSeq(s, 1, n + 1))
          = MergeStep(0, MergeFold!Fold(0, SubSeq(s, 1, n)), s[n + 1])
    BY <1>2, <2>1, MergeFold!FoldPrefix
  <2>3. Merges(MergeFold!Fold(0, SubSeq(s, 1, n)), s, n)
    BY <1>5, <2>1, <1>3
  <2>4. s[n + 1].start < s[n + 1].end
    BY <1>1, <1>2, <2>1
  <2>5. \A j \in 1 .. n : s[j].start <= s[n + 1].start
    <3>1. \A j \in 1 .. n : j \in 1 .. Len(s) /\ j < n + 1
      BY <2>1, <1>3
    <3> QED BY <3>1, <1>2, <2>1
  <2>6. Merges(MergeStep(0, MergeFold!Fold(0, SubSeq(s, 1, n)), s[n + 1]), s, n + 1)
    BY <1>2, <2>1, <2>3, <2>4, <2>5, MergeOne
  <2> QED BY <2>2, <2>6
<1> HIDE DEF P
<1>6. Nat \subseteq P
  BY <1>4, <1>5, MergeFold!NaturalInduction
<1>7. Merges(MergeFold!Fold(0, SubSeq(s, 1, Len(s))), s, Len(s))
  BY <1>6, <1>3 DEF P
<1>8. Merge(S) = MergeFold!Fold(0, SubSeq(s, 1, Len(s)))
  <2>1. MergeFold!Fold(0, SubSeq(s, 1, Len(s))) = MergeFold!Fold(0, s)
    BY <1>2, MergeFold!FoldPrefix
  <2> QED BY <2>1, MergeIsFold DEF s, N
<1>9. Merges(Merge(S), s, Len(s))
  BY <1>7, <1>8
<1> DEFINE m == Merge(S)
<1> HIDE DEF m
<1>10. Merges(m, s, Len(s))
  BY <1>9 DEF m
<1>11. m \in Seq(Interval) /\ Apart(m) /\ \A k \in 1 .. Len(m) : m[k].start < m[k].end
  BY <1>10 DEF Merges
<1>12. ASSUME NEW i \in N
       PROVE  \E k \in 1 .. Len(m) : m[k].start <= i.start /\ i.end <= m[k].end
  <2>1. PICK j \in 1 .. Len(s) : s[j] = i
    BY <1>2
  <2> QED BY <2>1, <1>10 DEF Merges
<1>13. ASSUME NEW f \in Int, Covers(m, f) PROVE \E i \in N : i.start <= f /\ f < i.end
  <2>1. PICK j \in 1 .. Len(s) : s[j].start <= f /\ f < s[j].end
    BY <1>10, <1>13 DEF Merges
  <2> QED BY <2>1, <1>2
<1>14. ASSUME NEW k \in 1 .. Len(m) PROVE \E i \in N : m[k].start = i.start
  <2>1. PICK j \in 1 .. Len(s) : m[k].start = s[j].start
    BY <1>10 DEF Merges
  <2> QED BY <2>1, <1>2
<1> QED BY <1>11, <1>12, <1>13, <1>14 DEF m, N

-----------------------------------------------------------------------------
(* The plan of a chunk.                                                      *)

\* The values of a function on a finite set are finitely many.
LEMMA ImageIsFinite ==
    ASSUME NEW S, IsFiniteSet(S), NEW f, DOMAIN f = S, NEW T, T = {f[x] : x \in S},
           f = [x \in S |-> f[x]]
    PROVE  IsFiniteSet(T)
<1>1. f \in Surjection(S, T)
  BY DEF Surjection
<1> QED BY <1>1, FS_Surjection

\* Division by a positive number keeps the order.
LEMMA DivisionGrows ==
    ASSUME NEW a \in Nat, NEW b \in Nat, a <= b, NEW d \in Nat \ {0}
    PROVE  a \div d \in Nat /\ b \div d \in Nat /\ a \div d <= b \div d
<1> DEFINE x == a \div d
           y == b \div d
<1>1. x \in Int /\ d * x <= a /\ a < d * x + d
  OBVIOUS
<1>2. y \in Int /\ d * y <= b /\ b < d * y + d
  OBVIOUS
<1> HIDE DEF x, y
<1>3. d * x < d * y + d
  BY <1>1, <1>2
<1>4. ~(y + 1 <= x)
  <2>1. SUFFICES ASSUME y + 1 <= x PROVE FALSE
    OBVIOUS
  <2>2. d * (y + 1) <= d * x
    BY <2>1, <1>1, <1>2
  <2>3. d * (y + 1) = d * y + d
    BY <1>2
  <2> QED BY <2>2, <2>3, <1>1, <1>2
<1>5. x >= 0
  <2>1. SUFFICES ASSUME x + 1 <= 0 PROVE FALSE
    BY <1>1
  <2>2. d * (x + 1) <= 0
    BY <2>1, <1>1
  <2>3. d * (x + 1) = d * x + d
    BY <1>1
  <2> QED BY <2>2, <2>3, <1>1
<1> QED BY <1>1, <1>2, <1>4, <1>5 DEF x, y

\* Rounding keeps the order of times.
LEMMA RoundingGrows ==
    ASSUME NEW a \in Nat, NEW b \in Nat, a <= b
    PROVE  RoundToFrames(a) \in Nat /\ RoundToFrames(b) \in Nat
           /\ RoundToFrames(a) <= RoundToFrames(b)
<1> DEFINE x == 2 * a + TicksPerFrame
           y == 2 * b + TicksPerFrame
           d == 2 * TicksPerFrame
<1>1. x \in Nat /\ y \in Nat /\ x <= y /\ d \in Nat \ {0}
  BY TicksAssumption
<1> HIDE DEF x, y, d
<1>2. x \div d \in Nat /\ y \div d \in Nat /\ x \div d <= y \div d
  BY <1>1, DivisionGrows
<1> QED BY <1>2 DEF RoundToFrames, x, y, d

\* The segments of a transcript: a segment of the answer each, in frames from 0.
LEMMA TranscriptTimes ==
    ASSUME NEW answer \in Answer
    PROVE  /\ IsFiniteSet(Transcript(answer))
           /\ \A s \in Transcript(answer) : /\ s.start \in Nat /\ s.end \in Nat
                                            /\ s.start <= s.end /\ s.text \in Seq(Characters)
<1>1. CASE \E s \in answer : s.start < 0 \/ s.end < s.start
  <2>1. Transcript(answer) = {}
    BY <1>1 DEF Transcript
  <2> QED BY <2>1, FS_EmptySet
<1>2. CASE ~ \E s \in answer : s.start < 0 \/ s.end < s.start
  <2> DEFINE rounded(s) == [start |-> RoundToFrames(s.start), end |-> RoundToFrames(s.end),
                            text |-> s.text]
  <2>1. Transcript(answer) = {rounded(s) : s \in answer}
    BY <1>2, Zenon DEF Transcript
  <2>2. IsFiniteSet(Transcript(answer))
    <3>1. IsFiniteSet(answer)
      BY DEF Answer
    <3> DEFINE f == [s \in answer |-> rounded(s)]
    <3>2. DOMAIN f = answer /\ Transcript(answer) = {f[s] : s \in answer}
          /\ f = [s \in answer |-> f[s]]
      <4> HIDE DEF rounded
      <4> QED BY <2>1
    <3> HIDE DEF f
    <3> QED BY <3>1, <3>2, ImageIsFinite
  <2>3. ASSUME NEW s \in answer
        PROVE  /\ rounded(s).start \in Nat /\ rounded(s).end \in Nat
               /\ rounded(s).start <= rounded(s).end /\ rounded(s).text \in Seq(Characters)
    <3>1. s.start \in Int /\ s.end \in Int /\ s.text \in Seq(Characters)
      BY DEF Answer
    <3>2. s.start \in Nat /\ s.end \in Nat /\ s.start <= s.end
      BY <1>2, <3>1
    <3>3. RoundToFrames(s.start) \in Nat /\ RoundToFrames(s.end) \in Nat
          /\ RoundToFrames(s.start) <= RoundToFrames(s.end)
      BY <3>2, RoundingGrows
    <3> QED BY <3>1, <3>3
  <2> HIDE DEF rounded
  <2> QED BY <2>1, <2>2, <2>3
<1> QED BY <1>1, <1>2

\* A transcript as the planner gets it.
Times(heard) == /\ IsFiniteSet(heard)
                /\ \A s \in heard : s.start \in Nat /\ s.end \in Nat

\* The planner's delay: a negative one counts as none.
Later(g) == IF g.delay < 0 THEN 0 ELSE g.delay

\* The segments in which find() finds a phrase.
Selected(heard, g) == {s \in heard : Find(s.text, g.phrases, g.matching) # {}}

\* The planned intervals cover the segments with a phrase, as the delay moves them.
LEMMA PlanCovers ==
    ASSUME NEW heard, Times(heard), NEW g, g.delay \in Int
    PROVE  /\ Plan(heard, g) \in Seq(Interval)
           /\ \A k \in 1 .. Len(Plan(heard, g)) :
                 0 <= Plan(heard, g)[k].start /\ Plan(heard, g)[k].start < Plan(heard, g)[k].end
           /\ Apart(Plan(heard, g))
           /\ \A f \in Int : Covers(Plan(heard, g), f)
                <=> \E s \in Selected(heard, g) : s.start + Later(g) <= f /\ f < s.end + Later(g)
<1> DEFINE chosen == {t \in heard : /\ t.start >= 0 /\ t.end > t.start
                                    /\ Find(t.text, g.phrases, g.matching) # {}}
           S == {ToInterval(s, g.delay) : s \in chosen}
           m == Merge(S)
<1>1. Plan(heard, g) = m
  BY Zenon DEF Plan
<1>2. Later(g) \in Nat
  BY DEF Later
<1>3. ASSUME NEW s \in heard
      PROVE  ToInterval(s, g.delay) = [start |-> s.start + Later(g), end |-> s.end + Later(g)]
  BY Zenon DEF ToInterval, Later
<1>4. \A s \in heard : s.start \in Nat /\ s.end \in Nat
  BY DEF Times
<1>5. \A s \in chosen : s \in Selected(heard, g) /\ s.start < s.end /\ s \in heard
  BY <1>4 DEF Selected
<1>6. \A s \in Selected(heard, g) : s \in heard /\ (s.start < s.end => s \in chosen)
  BY <1>4 DEF Selected
<1>7. IsFiniteSet(chosen)
  BY FS_Subset DEF Times
<1> HIDE DEF chosen
<1>8. ASSUME NEW s \in chosen
      PROVE  /\ ToInterval(s, g.delay) \in Interval
             /\ ToInterval(s, g.delay).start = s.start + Later(g)
             /\ ToInterval(s, g.delay).end = s.end + Later(g)
  <2>1. s.start + Later(g) \in Int /\ s.end + Later(g) \in Int
    BY <1>2, <1>4, <1>5
  <2>2. ToInterval(s, g.delay) = [start |-> s.start + Later(g), end |-> s.end + Later(g)]
    BY <1>3, <1>5
  <2> QED BY <2>1, <2>2 DEF Interval
<1>9. S \in SUBSET Interval /\ IsFiniteSet(S)
  <2>1. S \in SUBSET Interval
    BY <1>8
  <2> DEFINE f == [s \in chosen |-> ToInterval(s, g.delay)]
  <2>2. DOMAIN f = chosen /\ S = {f[s] : s \in chosen} /\ f = [s \in chosen |-> f[s]]
    OBVIOUS
  <2> HIDE DEF f
  <2>3. IsFiniteSet(S)
    BY <1>7, <2>2, ImageIsFinite
  <2> QED BY <2>1, <2>3
<1>10. \A i \in S : \E s \in chosen : i.start = s.start + Later(g) /\ i.end = s.end + Later(g)
  BY <1>8
<1>11. \A s \in chosen : \E i \in S : i.start = s.start + Later(g) /\ i.end = s.end + Later(g)
  BY <1>8
<1> HIDE DEF S
<1>12. \A i \in S : i \in Nonempty(S)
  BY <1>2, <1>4, <1>5, <1>10 DEF Nonempty
<1>13. Nonempty(S) \subseteq S
  BY DEF Nonempty
<1>14. /\ m \in Seq(Interval)
       /\ \A k \in 1 .. Len(m) : m[k].start < m[k].end
       /\ Apart(m)
       /\ \A i \in Nonempty(S) : \E k \in 1 .. Len(m) : m[k].start <= i.start /\ i.end <= m[k].end
       /\ \A f \in Int : Covers(m, f) => \E i \in Nonempty(S) : i.start <= f /\ f < i.end
       /\ \A k \in 1 .. Len(m) : \E i \in Nonempty(S) : m[k].start = i.start
  BY <1>9, MergeCovers
<1> HIDE DEF m
<1>15. \A k \in 1 .. Len(m) : 0 <= m[k].start
  <2> SUFFICES ASSUME NEW k \in 1 .. Len(m) PROVE 0 <= m[k].start
    OBVIOUS
  <2>1. PICK i \in S : m[k].start = i.start
    BY <1>13, <1>14
  <2>2. PICK s \in chosen : i.start = s.start + Later(g)
    BY <1>10
  <2> QED BY <2>1, <2>2, <1>2, <1>4, <1>5
<1>16. ASSUME NEW f \in Int, Covers(m, f)
       PROVE  \E s \in Selected(heard, g) : s.start + Later(g) <= f /\ f < s.end + Later(g)
  <2>1. PICK i \in S : i.start <= f /\ f < i.end
    BY <1>13, <1>14, <1>16
  <2>2. PICK s \in chosen : i.start = s.start + Later(g) /\ i.end = s.end + Later(g)
    BY <1>10
  <2> QED BY <2>1, <2>2, <1>5
<1>17. ASSUME NEW f \in Int, NEW s \in Selected(heard, g),
              s.start + Later(g) <= f, f < s.end + Later(g)
       PROVE  Covers(m, f)
  <2>1. s \in heard /\ s.start \in Nat /\ s.end \in Nat
    BY <1>4, <1>6
  <2>2. s.start < s.end
    BY <2>1, <1>2, <1>17
  <2>3. s \in chosen
    BY <2>2, <1>6
  <2>4. PICK i \in S : i.start = s.start + Later(g) /\ i.end = s.end + Later(g)
    BY <2>3, <1>11
  <2>5. PICK k \in 1 .. Len(m) : m[k].start <= i.start /\ i.end <= m[k].end
    BY <1>12, <1>14
  <2>6. m[k].start \in Int /\ m[k].end \in Int
    BY <1>14, ElementOfIntervals
  <2>7. m[k].start <= f /\ f < m[k].end
    BY <2>1, <2>4, <2>5, <2>6, <1>2, <1>17
  <2> QED BY <2>7 DEF Covers
<1> QED BY <1>1, <1>14, <1>15, <1>16, <1>17

\* The gain of a fade is a fraction above 0 and not above 1.
LEMMA FadeGainIsAFraction ==
    ASSUME NEW length \in Nat, NEW frame \in 0 .. length - 1, NEW fade \in Nat
    PROVE  0 < FadeGain(frame, length, fade).num
           /\ FadeGain(frame, length, fade).num <= FadeGain(frame, length, fade).den
<1> DEFINE half == length \div 2
           effective == IF fade < half THEN fade ELSE half
<1>1. half \in Nat /\ effective \in Nat
  OBVIOUS
<1>2. FadeGain(frame, length, fade)
        = IF effective = 0 THEN [num |-> 1, den |-> 1]
          ELSE IF frame < effective THEN [num |-> frame + 1, den |-> effective + 1]
          ELSE IF length - frame <= effective
               THEN [num |-> length - frame, den |-> effective + 1]
          ELSE [num |-> 1, den |-> 1]
  BY Zenon DEF FadeGain
<1> HIDE DEF effective
<1> DEFINE g == FadeGain(frame, length, fade)
<1>3. \/ g = [num |-> 1, den |-> 1]
      \/ frame < effective /\ g = [num |-> frame + 1, den |-> effective + 1]
      \/ length - frame <= effective /\ g = [num |-> length - frame, den |-> effective + 1]
  BY <1>2
<1> HIDE DEF g
<1>4. \/ g.num = 1 /\ g.den = 1
      \/ frame < effective /\ g.num = frame + 1 /\ g.den = effective + 1
      \/ length - frame <= effective /\ g.num = length - frame /\ g.den = effective + 1
  BY <1>3
<1>5. 0 < g.num /\ g.num <= g.den
  BY <1>1, <1>4
<1> QED BY <1>5 DEF g

-----------------------------------------------------------------------------
(* What the renderer replaces.                                               *)

\* The renderer's parts of a chunk of n frames.
Parts(n, m) == Nonempty({Clamped(i, n) : i \in ToSet(Merge(ToSet(m)))})
\* The parts that hold frame f.
PartsAt(n, m, f) == {p \in Parts(n, m) : p.start <= f /\ f < p.end}
\* The replacement's frame at f, faded in and out over part p.
Replaced(f, p, sound, fade) == [sample |-> (f - p.start) % sound,
                                gain |-> FadeGain(f - p.start, p.end - p.start, fade)]

\* Render, by those names.
LEMMA RenderUnfolded ==
    \A n, m, sound, fade :
           Render(n, m, sound, fade)
             = [f \in 0 .. n - 1 |->
                  IF sound = 0 \/ PartsAt(n, m, f) = {} THEN Original
                  ELSE Replaced(f, CHOOSE p \in PartsAt(n, m, f) : TRUE, sound, fade)]
BY Zenon DEF Render, PartsAt, Parts, Replaced

\* A part belongs to an interval of the list and lies in the chunk; every frame of the
\* chunk that an interval covers has one.
LEMMA PartsCover ==
    ASSUME NEW n \in Nat, NEW m \in Seq(Interval),
           \A k \in 1 .. Len(m) : m[k].start < m[k].end
    PROVE  \A f \in 0 .. n - 1 :
             /\ \A p \in PartsAt(n, m, f) : /\ p.start \in 0 .. f /\ p.end \in f + 1 .. n
             /\ PartsAt(n, m, f) # {} <=> Covers(m, f)
<1> DEFINE S == ToSet(m)
           w == Merge(S)
<1>1. DOMAIN m = 1 .. Len(m) /\ Len(m) \in Nat /\ \A k \in 1 .. Len(m) : m[k] \in Interval
  BY LenProperties, ElementOfSeq
<1>2. S = {m[k] : k \in 1 .. Len(m)}
  BY <1>1 DEF ToSet
<1>3. S \in SUBSET Interval /\ IsFiniteSet(S)
  <2>1. IsFiniteSet(1 .. Len(m))
    BY <1>1, FS_Interval
  <2>2. DOMAIN m = 1 .. Len(m) /\ m = [k \in 1 .. Len(m) |-> m[k]]
    BY <1>1
  <2>3. IsFiniteSet(S)
    BY <1>2, <2>1, <2>2, ImageIsFinite
  <2> QED BY <1>1, <1>2, <2>3
<1> HIDE DEF S
<1>4. /\ w \in Seq(Interval)
      /\ \A i \in Nonempty(S) : \E k \in 1 .. Len(w) : w[k].start <= i.start /\ i.end <= w[k].end
      /\ \A f \in Int : Covers(w, f) => \E i \in Nonempty(S) : i.start <= f /\ f < i.end
  BY <1>3, MergeCovers
<1>5. DOMAIN w = 1 .. Len(w) /\ \A k \in 1 .. Len(w) :
         w[k] \in Interval /\ w[k].start \in Int /\ w[k].end \in Int
  <2> HIDE DEF w
  <2> QED BY <1>4, ElementOfIntervals, LenProperties
<1>6. Parts(n, m) = Nonempty({Clamped(w[k], n) : k \in 1 .. Len(w)})
  <2>1. ToSet(w) = {w[k] : k \in 1 .. Len(w)}
    BY <1>5 DEF ToSet
  <2>2. Parts(n, m) = Nonempty({Clamped(i, n) : i \in ToSet(w)})
    BY DEF Parts, S
  <2>3. {Clamped(i, n) : i \in {w[k] : k \in 1 .. Len(w)}} = {Clamped(w[k], n) : k \in 1 .. Len(w)}
    <3> HIDE DEF w
    <3> QED OBVIOUS
  <2> QED BY <2>1, <2>2, <2>3
<1> HIDE DEF w
<1>7. ASSUME NEW k \in 1 .. Len(w)
      PROVE  /\ Clamped(w[k], n).start = IF w[k].start < 0 THEN 0 ELSE w[k].start
             /\ Clamped(w[k], n).end = IF w[k].end > n THEN n ELSE w[k].end
  BY DEF Clamped
<1> SUFFICES ASSUME NEW f \in 0 .. n - 1
             PROVE  /\ \A p \in PartsAt(n, m, f) : p.start \in 0 .. f /\ p.end \in f + 1 .. n
                    /\ PartsAt(n, m, f) # {} <=> Covers(m, f)
  OBVIOUS
<1>8. ASSUME NEW p \in PartsAt(n, m, f)
      PROVE  p.start \in 0 .. f /\ p.end \in f + 1 .. n /\ Covers(w, f)
  <2>1. p \in Parts(n, m) /\ p.start <= f /\ f < p.end
    BY DEF PartsAt
  <2>2. PICK k \in 1 .. Len(w) : p = Clamped(w[k], n)
    BY <2>1, <1>6 DEF Nonempty
  <2>3. /\ p.start = IF w[k].start < 0 THEN 0 ELSE w[k].start
        /\ p.end = IF w[k].end > n THEN n ELSE w[k].end
    BY <2>2, <1>7
  <2>4. p.start \in 0 .. f /\ p.end \in f + 1 .. n
    BY <2>1, <2>3, <1>5
  <2>5. w[k].start <= f /\ f < w[k].end
    BY <2>1, <2>3, <1>5
  <2> QED BY <2>4, <2>5 DEF Covers
<1>9. ASSUME Covers(w, f) PROVE PartsAt(n, m, f) # {}
  <2>1. PICK k \in 1 .. Len(w) : w[k].start <= f /\ f < w[k].end
    BY <1>9 DEF Covers
  <2> DEFINE p == Clamped(w[k], n)
  <2>2. /\ p.start = IF w[k].start < 0 THEN 0 ELSE w[k].start
        /\ p.end = IF w[k].end > n THEN n ELSE w[k].end
    BY <1>7
  <2>3. p \in {Clamped(w[l], n) : l \in 1 .. Len(w)}
    OBVIOUS
  <2> HIDE DEF p
  <2>4. p.start <= f /\ f < p.end /\ p.start < p.end
    BY <2>1, <2>2, <1>5
  <2>5. p \in PartsAt(n, m, f)
    BY <2>3, <2>4, <1>6 DEF PartsAt, Nonempty
  <2> QED BY <2>5
<1>10. Covers(w, f) <=> Covers(m, f)
  <2>1. ASSUME Covers(w, f) PROVE Covers(m, f)
    <3>1. f \in Int
      OBVIOUS
    <3>2. PICK i \in Nonempty(S) : i.start <= f /\ f < i.end
      BY <1>4, <2>1, <3>1
    <3>3. PICK k \in 1 .. Len(m) : i = m[k]
      BY <3>2, <1>2 DEF Nonempty
    <3> QED BY <3>2, <3>3 DEF Covers
  <2>2. ASSUME Covers(m, f) PROVE Covers(w, f)
    <3>1. PICK l \in 1 .. Len(m) : m[l].start <= f /\ f < m[l].end
      BY <2>2 DEF Covers
    <3>2. m[l] \in Nonempty(S)
      BY <1>2 DEF Nonempty
    <3>3. PICK k \in 1 .. Len(w) : w[k].start <= m[l].start /\ m[l].end <= w[k].end
      BY <3>2, <1>4
    <3>4. m[l].start \in Int /\ m[l].end \in Int
      BY ElementOfIntervals
    <3>5. w[k].start <= f /\ f < w[k].end
      BY <3>1, <3>3, <3>4, <1>5
    <3> QED BY <3>5 DEF Covers
  <2> QED BY <2>1, <2>2
<1> QED BY <1>8, <1>9, <1>10

\* What the renderer does to a frame: one that an interval covers gets a sample of the
\* replacement with a gain, any other stays.
LEMMA RenderReplaces ==
    ASSUME NEW n \in Nat, NEW m \in Seq(Interval),
           \A k \in 1 .. Len(m) : m[k].start < m[k].end,
           NEW sound \in Nat \ {0}, NEW fade \in Nat
    PROVE  /\ DOMAIN Render(n, m, sound, fade) = 0 .. n - 1
           /\ \A f \in 0 .. n - 1 :
                /\ Render(n, m, sound, fade)[f] # Original <=> Covers(m, f)
                /\ Covers(m, f) =>
                     /\ Render(n, m, sound, fade)[f].sample \in 0 .. sound - 1
                     /\ 0 < Render(n, m, sound, fade)[f].gain.num
                     /\ Render(n, m, sound, fade)[f].gain.num
                          <= Render(n, m, sound, fade)[f].gain.den
<1> DEFINE r == Render(n, m, sound, fade)
<1>1. r = [f \in 0 .. n - 1 |->
             IF sound = 0 \/ PartsAt(n, m, f) = {} THEN Original
             ELSE Replaced(f, CHOOSE p \in PartsAt(n, m, f) : TRUE, sound, fade)]
  BY Zenon, RenderUnfolded
<1> HIDE DEF r
<1>2. ASSUME NEW f \in 0 .. n - 1
      PROVE  /\ r[f] # Original <=> Covers(m, f)
             /\ Covers(m, f) => /\ r[f].sample \in 0 .. sound - 1
                                /\ 0 < r[f].gain.num /\ r[f].gain.num <= r[f].gain.den
  <2>1. CASE ~Covers(m, f)
    <3>1. PartsAt(n, m, f) = {}
      BY <2>1, PartsCover
    <3> QED BY <1>1, <2>1, <3>1
  <2>2. CASE Covers(m, f)
    <3> DEFINE p == CHOOSE q \in PartsAt(n, m, f) : TRUE
    <3>1. PartsAt(n, m, f) # {}
      BY <2>2, PartsCover
    <3>2. p \in PartsAt(n, m, f)
      BY <3>1
    <3>3. r[f] = Replaced(f, p, sound, fade)
      BY <1>1, <3>1
    <3> HIDE DEF p
    <3>4. p.start \in 0 .. f /\ p.end \in f + 1 .. n
      BY <3>2, PartsCover
    <3> DEFINE x == f - p.start
               z == p.end - p.start
    <3>5. x \in Nat /\ z \in Nat /\ x \in 0 .. z - 1
      BY <3>4
    <3>6. r[f].sample = x % sound /\ r[f].gain = FadeGain(x, z, fade)
      BY <3>3 DEF Replaced
    <3> HIDE DEF x, z
    <3>7. x % sound \in 0 .. sound - 1
      BY <3>5
    <3>8. 0 < FadeGain(x, z, fade).num /\ FadeGain(x, z, fade).num <= FadeGain(x, z, fade).den
      BY <3>5, FadeGainIsAFraction
    <3>9. r[f] # Original
      <4>1. Original.sample = -1
        BY DEF Original
      <4>2. r[f].sample # -1
        BY <3>6, <3>7
      <4> QED BY <4>1, <4>2
    <3> QED BY <2>2, <3>6, <3>7, <3>8, <3>9
  <2> QED BY <2>1, <2>2
<1>3. DOMAIN r = 0 .. n - 1
  BY <1>1
<1> QED BY <1>2, <1>3 DEF r

-----------------------------------------------------------------------------
(* The pipeline drives the timeline.                                         *)

\* What accept() is given of a frame.
AsChunk(c) == [first |-> c.first, count |-> c.count, rate |-> c.rate,
               discontinuity |-> c.discontinuity]

\* accept() sees of a chunk where it starts and how long it is.
LEMMA FramesAreChunks ==
    ASSUME NEW c \in Frames
    PROVE  /\ AsChunk(c) \in Chunks
           /\ \A t : /\ Refusal(t, c) = Refusal(t, AsChunk(c))
                     /\ AcceptChunk(t, c) = AcceptChunk(t, AsChunk(c))
           /\ Accept(c) => Accept(AsChunk(c))
           /\ AsChunk(c).first = c.first /\ AsChunk(c).count = c.count
<1>1. c.first \in -1 .. MaxFrame /\ c.count \in 0 .. MaxFrame /\ c.rate \in Rates
      /\ c.discontinuity \in BOOLEAN
  BY DEF Frames
<1>2. c.first \in Int64 /\ c.count \in Int64
  BY <1>1, WidthAssumption DEF Int64
<1> DEFINE d == AsChunk(c)
<1>3. d.first = c.first /\ d.count = c.count /\ d.rate = c.rate
      /\ d.discontinuity = c.discontinuity
  BY DEF AsChunk
<1>4. d \in Chunks
  BY <1>1, <1>2 DEF AsChunk, Chunks
<1> HIDE DEF d
<1>5. ASSUME NEW t
      PROVE  Refusal(t, c) = Refusal(t, d) /\ AcceptChunk(t, c) = AcceptChunk(t, d)
  <2>1. /\ Misfit(t, c) <=> Misfit(t, d)
        /\ Unacknowledged(t, c) <=> Unacknowledged(t, d)
        /\ GenerationFor(t, c) = GenerationFor(t, d)
    BY <1>3, Zenon DEF Misfit, Unacknowledged, GenerationFor, StartsEpoch
  <2>2. Refusal(t, c) = Refusal(t, d)
    BY <1>3, <2>1, Zenon DEF Refusal
  <2> QED BY <1>3, <2>1, <2>2, Zenon DEF AcceptChunk
<1>6. Accept(c) => Accept(d)
  <2>1. \A u : Restart(u, c) => Restart(u, d)
    BY <1>3, Zenon DEF Restart
  <2> QED BY <1>5, <2>1, Zenon DEF Accept
<1> QED BY <1>3, <1>4, <1>5, <1>6 DEF d

\* What the pipeline does to its coordinator is what an owner may do: every theorem
\* about the timeline holds inside the pipeline.
LEMMA PipelineStepIsTimelineStep == [PipelineNext]_allVars => [Next]_vars
<1> SUFFICES ASSUME [PipelineNext]_allVars PROVE [Next]_vars
  OBVIOUS
<1>1. ASSUME NEW c \in Frames, Process(c) PROVE [Next]_vars
  <2>1. Accept(c) \/ UNCHANGED vars
    BY <1>1, Zenon DEF Process, RejectAudio, RejectTime, RuntimeFails, Censor
  <2> QED BY <2>1, FramesAreChunks DEF Next
<1>2. CASE Complete
  BY <1>2 DEF Complete
<1>3. CASE StartPipeline
  BY <1>3 DEF StartPipeline, Next
<1>4. CASE UNCHANGED allVars
  BY <1>4 DEF allVars
<1> QED BY <1>1, <1>2, <1>3, <1>4 DEF PipelineNext

\* The pipeline uses the coordinator as the coordinator's own specification says: only
\* through accept() and reset(), so the timeline's theorems hold of it as well
\* (audio_pipeline.cpp calls nothing else).
THEOREM PipelineDrivesTheTimeline == PipelineSpec => Spec
<1>1. PipelineInit => Init
  BY DEF PipelineInit
<1> QED BY <1>1, PipelineStepIsTimelineStep, PTL DEF PipelineSpec, Spec

-----------------------------------------------------------------------------
(* What the pipeline reports.                                                *)

\* The anchor a chunk was accepted with places its results.
LEMMA AcceptedChunkIsAnchored ==
    ASSUME Inv, NEW c \in Frames, Refusal(timeline, c) = "none", Accept(c)
    PROVE  LET a == AcceptChunk(timeline, c).anchor
           IN  /\ ValidAnchor(timeline', a) /\ a.first = c.first /\ a.count = c.count
               /\ c.first \in Nat /\ c.count \in Nat \ {0}
<1> DEFINE d == AsChunk(c)
           a == AcceptChunk(timeline, c).anchor
<1>1. /\ d \in Chunks /\ Refusal(timeline, d) = "none" /\ d.first = c.first /\ d.count = c.count
      /\ AcceptChunk(timeline, c) = AcceptChunk(timeline, d)
  BY FramesAreChunks
<1>2. timeline \in Coordinator
  BY DEF Inv, TypeOK
<1> HIDE DEF d
<1>3. /\ d.first >= 0 /\ d.count > 0 /\ d.rate = Rate /\ d.first \in Int64 /\ d.count \in Int64
      /\ ~AddOverflows(d.first, d.count)
  BY <1>1, <1>2, AcceptedIsSound
<1>4. AcceptChunk(timeline, d)
        = [coordinator |-> [anchored |-> TRUE, requiresDiscontinuity |-> FALSE,
                            nextFrame |-> d.first + d.count,
                            generation |-> GenerationFor(timeline, d)],
           status |-> IF ~timeline.anchored THEN "anchored"
                      ELSE IF d.discontinuity THEN "reset" ELSE "advanced",
           anchor |-> [first |-> d.first, count |-> d.count, rate |-> d.rate,
                       generation |-> GenerationFor(timeline, d)]]
  BY <1>1, Zenon DEF AcceptChunk
<1>5. timeline' = AcceptChunk(timeline, d).coordinator
  BY <1>1 DEF Accept
<1>6. timeline'.anchored /\ timeline'.generation = GenerationFor(timeline, d)
  BY <1>4, <1>5
<1>7. a = [first |-> d.first, count |-> d.count, rate |-> d.rate,
           generation |-> GenerationFor(timeline, d)]
  BY <1>1, <1>4
<1> HIDE DEF a
<1>8. a.first = d.first /\ a.count = d.count /\ a.rate = d.rate
      /\ a.generation = GenerationFor(timeline, d)
  BY <1>7
<1>9. ValidAnchor(timeline', a)
  BY <1>3, <1>6, <1>8 DEF ValidAnchor
<1>10. c.first \in Nat /\ c.count \in Nat \ {0}
  BY <1>1, <1>3, WidthAssumption DEF Int64
<1> QED BY <1>1, <1>8, <1>9, <1>10 DEF a

\* An interval of a chunk, on the timeline.
Moved(i, first) == [start |-> first + i.start, end |-> first + i.end]

\* Placed moves the intervals that lie in the chunk, and leaves out the others.
LEMMA PlacedMoves ==
    ASSUME NEW t, NEW a, ValidAnchor(t, a), a.first \in Int, NEW S,
           \A i \in S : i.start \in Int /\ i.end \in Int
    PROVE  /\ \A p \in Placed(t, a, S) :
                 \E i \in S : WithinChunk(i, a.count) /\ p = Moved(i, a.first)
           /\ \A i \in S : WithinChunk(i, a.count) => Moved(i, a.first) \in Placed(t, a, S)
<1>1. ASSUME NEW p \in Placed(t, a, S)
      PROVE  \E i \in S : WithinChunk(i, a.count) /\ p = Moved(i, a.first)
  <2>1. PICK i \in S : p = MapInterval(t, a, i) /\ p # NoAnchor
    BY DEF Placed
  <2> QED BY <2>1, Zenon DEF MapInterval, Moved
<1>2. ASSUME NEW i \in S, WithinChunk(i, a.count) PROVE Moved(i, a.first) \in Placed(t, a, S)
  <2>1. MapInterval(t, a, i) = Moved(i, a.first)
    BY <1>2, Zenon DEF MapInterval, Moved
  <2>2. Moved(i, a.first) # NoAnchor
    <3>1. Moved(i, a.first) \in [start : Int, end : Int]
      BY DEF Moved
    <3> QED BY <3>1, NoAnchorAssumption
  <2> QED BY <2>1, <2>2 DEF Placed
<1> QED BY <1>1, <1>2

\* Of intervals in order, two that are not the same are apart.
LEMMA ApartMembers ==
    ASSUME NEW m \in Seq(Interval), Apart(m), NEW k \in 1 .. Len(m), NEW l \in 1 .. Len(m)
    PROVE  m[k] = m[l] \/ m[k].end < m[l].start \/ m[l].end < m[k].start
<1>1. k = l \/ k < l \/ l < k
  OBVIOUS
<1> QED BY <1>1 DEF Apart

\* The replacement has a frame at least, so the renderer never divides by zero.
LEMMA ReplacementIsLong ==
    ASSUME config \in Configs, NEW c, c.count \in Nat \ {0}
    PROVE  ReplacementLength(c) \in Nat \ {0}
BY ConfigsAssumption, BeepAssumption DEF ReplacementLength

\* The samples of a chunk that was processed.
LEMMA OutputCovers ==
    ASSUME config \in Configs, NEW c, c.count \in Nat \ {0}, NEW heard, Times(heard)
    PROVE  LET out == Render(c.count, Plan(heard, config), ReplacementLength(c), config.fade)
           IN  /\ DOMAIN out = 0 .. c.count - 1
               /\ \A f \in 0 .. c.count - 1 :
                    /\ out[f] # Original <=> Covers(Plan(heard, config), f)
                    /\ out[f] # Original =>
                         /\ out[f].sample \in 0 .. ReplacementLength(c) - 1
                         /\ 0 < out[f].gain.num /\ out[f].gain.num <= out[f].gain.den
<1> DEFINE n == c.count
           m == Plan(heard, config)
           sound == ReplacementLength(c)
           fade == config.fade
<1>1. n \in Nat /\ sound \in Nat \ {0}
  BY ReplacementIsLong
<1>2. config.delay \in Int /\ fade \in Nat
  BY ConfigsAssumption
<1>3. m \in Seq(Interval) /\ \A k \in 1 .. Len(m) : m[k].start < m[k].end
  BY <1>2, PlanCovers
<1> HIDE DEF n, m, sound, fade
<1>4. /\ DOMAIN Render(n, m, sound, fade) = 0 .. n - 1
      /\ \A f \in 0 .. n - 1 :
           /\ Render(n, m, sound, fade)[f] # Original <=> Covers(m, f)
           /\ Covers(m, f) =>
                /\ Render(n, m, sound, fade)[f].sample \in 0 .. sound - 1
                /\ 0 < Render(n, m, sound, fade)[f].gain.num
                /\ Render(n, m, sound, fade)[f].gain.num
                     <= Render(n, m, sound, fade)[f].gain.den
  BY <1>1, <1>2, <1>3, RenderReplaces
<1> QED BY <1>4, Zenon DEF n, m, sound, fade

\* What is reported of a chunk that was processed.
LEMMA ProcessedIsTold ==
    ASSUME Inv, config \in Configs, NEW c \in Frames, NEW answer \in Answers,
           Refusal(timeline, c) = "none", Accept(c), UNCHANGED config,
           result' = Processed(c, AcceptChunk(timeline, c).anchor, Transcript(answer))
    PROVE  ReportsAreBleeped'
<1> DEFINE a == AcceptChunk(timeline, c).anchor
           heard == Transcript(answer)
           m == Plan(heard, config)
           out == Render(c.count, m, ReplacementLength(c), config.fade)
           told == {[start |-> s.start, end |-> s.end] : s \in heard}
           r == result'
<1>1. /\ ValidAnchor(timeline', a) /\ a.first = c.first /\ a.count = c.count
      /\ c.first \in Nat /\ c.count \in Nat \ {0}
  BY AcceptedChunkIsAnchored
<1>2. Times(heard)
  BY AnswersAssumption, TranscriptTimes DEF Times
<1>3. config.delay \in Int /\ config.fade \in Nat
  BY ConfigsAssumption
<1>4. /\ r.chunk = c /\ r.heard = heard
      /\ r.transcript = Placed(timeline', a, told)
      /\ r.intervals = Placed(timeline', a, ToSet(m))
      /\ r.output = out
  <2>1. r = [status |-> "processed", chunk |-> c, heard |-> heard,
             transcript |-> Placed(timeline', a, told),
             intervals |-> Placed(timeline', a, ToSet(m)), output |-> out]
    BY Zenon DEF Processed
  <2> HIDE DEF told, a, heard, m, out, r
  <2> QED BY <2>1
<1> HIDE DEF a, heard
<1>5. /\ m \in Seq(Interval)
      /\ \A k \in 1 .. Len(m) : 0 <= m[k].start /\ m[k].start < m[k].end
      /\ Apart(m)
  BY <1>2, <1>3, PlanCovers
<1>6. ToSet(m) = {m[k] : k \in 1 .. Len(m)}
  <2> HIDE DEF m
  <2>1. DOMAIN m = 1 .. Len(m)
    BY <1>5, LenProperties
  <2> QED BY <2>1 DEF ToSet
<1>7. m = Plan(r.heard, config')
  BY <1>4
<1>9. /\ DOMAIN out = 0 .. c.count - 1
      /\ \A f \in 0 .. c.count - 1 : out[f] # Original <=> Covers(m, f)
  <2> HIDE DEF out, m
  <2> QED BY <1>1, <1>2, OutputCovers, Zenon DEF out, m
<1> HIDE DEF m
<1>8. \A k \in 1 .. Len(m) : m[k] \in Interval /\ m[k].start \in Int /\ m[k].end \in Int
  BY <1>5, ElementOfIntervals
<1> HIDE DEF out
<1>10. \A i \in told : i.start \in Int /\ i.end \in Int
  BY <1>2 DEF Times
<1>11. \A i \in ToSet(m) : i.start \in Int /\ i.end \in Int
  BY <1>6, <1>8
<1> HIDE DEF told
<1>12. /\ \A p \in r.intervals :
            \E k \in 1 .. Len(m) : WithinChunk(m[k], c.count) /\ p = Moved(m[k], c.first)
       /\ \A k \in 1 .. Len(m) :
            WithinChunk(m[k], c.count) => Moved(m[k], c.first) \in r.intervals
  <2>1. /\ \A p \in r.intervals :
             \E i \in ToSet(m) : WithinChunk(i, c.count) /\ p = Moved(i, c.first)
        /\ \A i \in ToSet(m) : WithinChunk(i, c.count) => Moved(i, c.first) \in r.intervals
    <3> HIDE DEF r
    <3> QED BY <1>1, <1>4, <1>11, PlacedMoves
  <2> HIDE DEF r
  <2> QED BY <2>1, <1>6
<1>13. \A p \in r.transcript :
         \E i \in told : WithinChunk(i, c.count) /\ p = Moved(i, c.first)
  <2> HIDE DEF r
  <2> QED BY <1>1, <1>4, <1>10, PlacedMoves
<1> HIDE DEF r
<1>14. ASSUME NEW i \in r.intervals \cup r.transcript
       PROVE  c.first <= i.start /\ i.start < i.end /\ i.end <= c.first + c.count
  <2>1. \E j : /\ j.start \in Int /\ j.end \in Int
               /\ WithinChunk(j, c.count) /\ i = Moved(j, c.first)
    <3>1. CASE i \in r.intervals
      BY <3>1, <1>8, <1>12
    <3>2. CASE i \in r.transcript
      BY <3>2, <1>10, <1>13
    <3> QED BY <3>1, <3>2
  <2>2. PICK j : /\ j.start \in Int /\ j.end \in Int
                 /\ WithinChunk(j, c.count) /\ i = Moved(j, c.first)
    BY <2>1
  <2>3. i.start = c.first + j.start /\ i.end = c.first + j.end
    BY <2>2 DEF Moved
  <2> QED BY <1>1, <2>2, <2>3 DEF WithinChunk
<1>15. ASSUME NEW i \in r.intervals, NEW j \in r.intervals
       PROVE  i = j \/ i.end < j.start \/ j.end < i.start
  <2>1. PICK k \in 1 .. Len(m) : i = Moved(m[k], c.first)
    BY <1>12
  <2>2. PICK l \in 1 .. Len(m) : j = Moved(m[l], c.first)
    BY <1>12
  <2>3. /\ i.start = c.first + m[k].start /\ i.end = c.first + m[k].end
        /\ j.start = c.first + m[l].start /\ j.end = c.first + m[l].end
    BY <2>1, <2>2 DEF Moved
  <2>4. m[k] = m[l] \/ m[k].end < m[l].start \/ m[l].end < m[k].start
    BY <1>5, ApartMembers
  <2>5. CASE m[k] = m[l]
    BY <2>1, <2>2, <2>5
  <2>6. CASE m[k].end < m[l].start
    BY <1>1, <1>8, <2>3, <2>6
  <2>7. CASE m[l].end < m[k].start
    BY <1>1, <1>8, <2>3, <2>7
  <2> QED BY <2>4, <2>5, <2>6, <2>7
<1> DEFINE open == {i \in ToSet(m) : i.end > c.count}
           heardOf == {f \in DOMAIN r.output :
                         \E i \in r.intervals : i.start <= c.first + f /\ c.first + f < i.end}
           bleeped == {f \in DOMAIN r.output : r.output[f] # Original}
<1>16. ASSUME NEW f \in heardOf PROVE f \in bleeped
  <2>1. f \in 0 .. c.count - 1
    BY <1>4, <1>9
  <2>2. PICK i \in r.intervals : i.start <= c.first + f /\ c.first + f < i.end
    OBVIOUS
  <2>3. PICK k \in 1 .. Len(m) : i = Moved(m[k], c.first)
    BY <1>12
  <2>4. i.start = c.first + m[k].start /\ i.end = c.first + m[k].end
    BY <2>3 DEF Moved
  <2>5. m[k].start <= f /\ f < m[k].end
    BY <1>1, <1>8, <2>1, <2>2, <2>4
  <2>6. Covers(m, f)
    BY <2>5 DEF Covers
  <2> QED BY <1>4, <1>9, <2>1, <2>6
<1>17. ASSUME NEW f \in bleeped, f \notin heardOf PROVE \E i \in open : i.start <= f
  <2>1. f \in 0 .. c.count - 1 /\ Covers(m, f)
    BY <1>4, <1>9
  <2>2. PICK k \in 1 .. Len(m) : m[k].start <= f /\ f < m[k].end
    BY <2>1 DEF Covers
  <2>3. ~WithinChunk(m[k], c.count)
    <3>1. SUFFICES ASSUME WithinChunk(m[k], c.count) PROVE FALSE
      OBVIOUS
    <3> DEFINE i == Moved(m[k], c.first)
    <3>2. i \in r.intervals
      BY <3>1, <1>12
    <3>3. i.start = c.first + m[k].start /\ i.end = c.first + m[k].end
      BY DEF Moved
    <3> HIDE DEF i
    <3>4. i.start <= c.first + f /\ c.first + f < i.end
      BY <1>1, <1>8, <2>1, <2>2, <3>3
    <3> QED BY <3>2, <3>4, <1>17
  <2>4. m[k].end > c.count
    BY <2>3, <1>1, <1>5, <1>8 DEF WithinChunk
  <2> QED BY <2>2, <2>4, <1>6
<1> QED BY <1>4, <1>7, <1>14, <1>15, <1>16, <1>17 DEF ReportsAreBleeped, Bleeped, r

\* A chunk that goes back as it came, of which nothing is reported.
LEMMA PassedThroughIsTold ==
    ASSUME NEW c, NEW status, result' = PassThrough(c, status) PROVE ReportsAreBleeped'
<1> DEFINE r == result'
<1>1. r = [status |-> status, chunk |-> c, heard |-> {}, transcript |-> {}, intervals |-> {},
           output |-> Untouched(c)]
  BY DEF PassThrough
<1> HIDE DEF r
<1>2. r.intervals = {} /\ r.transcript = {} /\ r.output = Untouched(c)
  BY <1>1
<1>3. \A f \in DOMAIN r.output : r.output[f] = Original
  BY <1>2 DEF Untouched
<1>4. Bleeped(r) = {}
  BY <1>3 DEF Bleeped
<1> QED BY <1>2, <1>4, Zenon DEF ReportsAreBleeped, r

\* Every step of the pipeline tells what it replaced.
LEMMA ToldStep ==
    ASSUME Inv, config \in Configs, ReportsAreBleeped, [PipelineNext]_allVars
    PROVE  ReportsAreBleeped'
<1>1. ASSUME NEW c \in Frames, Process(c) PROVE ReportsAreBleeped'
  <2>1. CASE RejectAudio(c)
    BY <2>1, PassedThroughIsTold DEF RejectAudio
  <2>2. CASE RejectTime(c)
    BY <2>2, PassedThroughIsTold DEF RejectTime
  <2>3. CASE RuntimeFails(c)
    BY <2>3, PassedThroughIsTold DEF RuntimeFails
  <2>4. CASE Censor(c)
    BY <1>1, <2>4, ProcessedIsTold DEF Censor, Process
  <2> QED BY <1>1, <2>1, <2>2, <2>3, <2>4 DEF Process
<1>2. CASE Complete
  BY <1>2 DEF Complete, ReportsAreBleeped
<1>3. CASE StartPipeline \/ UNCHANGED allVars
  <2>1. UNCHANGED <<config, result>>
    BY <1>3 DEF StartPipeline, allVars, pipelineVars
  <2> QED BY <2>1, Zenon DEF ReportsAreBleeped, Bleeped
<1> QED BY <1>1, <1>2, <1>3 DEF PipelineNext

\* The reported intervals are the replaced ones.
THEOREM ReportsMatchTheAudio == PipelineSpec => []ReportsAreBleeped
<1>1. PipelineInit => config \in Configs /\ ReportsAreBleeped
  BY DEF PipelineInit, ReportsAreBleeped
<1>2. config \in Configs /\ [PipelineNext]_allVars => (config \in Configs)'
  BY DEF PipelineNext, Process, Complete, StartPipeline, allVars, pipelineVars
<1>3. Inv /\ config \in Configs /\ ReportsAreBleeped /\ [PipelineNext]_allVars
        => ReportsAreBleeped'
  BY ToldStep
<1>4. PipelineSpec => []Inv
  BY PipelineDrivesTheTimeline, InvHolds, PTL
<1> QED BY <1>1, <1>2, <1>3, <1>4, PTL DEF PipelineSpec

-----------------------------------------------------------------------------
(* Sequences that grow at the end.                                           *)

\* An appended element is the last, and what is in front of it is the sequence.
LEMMA AppendedEnds ==
    ASSUME NEW E, NEW s \in Seq(E), NEW e \in E
    PROVE  /\ Append(s, e) \in Seq(E) /\ Append(s, e) # <<>>
           /\ Last(Append(s, e)) = e /\ Front(Append(s, e)) = s
<1>1. /\ Append(s, e) \in Seq(E) /\ Append(s, e) # <<>>
      /\ Len(Append(s, e)) = Len(s) + 1 /\ Len(s) \in Nat
      /\ \A i \in 1 .. Len(s) : Append(s, e)[i] = s[i]
      /\ Append(s, e)[Len(s) + 1] = e
  BY AppendProperties, LenProperties
<1>2. Last(Append(s, e)) = e
  BY <1>1 DEF Last
<1> DEFINE t == Append(s, e)
           f == SubSeq(t, 1, Len(t) - 1)
<1>3. \A i \in 1 .. Len(s) : t[i] \in E
  BY <1>1, ElementOfSeq
<1> HIDE DEF t
<1>4. Len(t) - 1 = Len(s)
  BY <1>1 DEF t
<1>5. f \in Seq(E) /\ Len(f) = Len(s) /\ \A i \in 1 .. Len(s) : f[i] = t[i]
  <2>1. /\ SubSeq(t, 1, Len(s)) \in Seq(E)
        /\ Len(SubSeq(t, 1, Len(s))) = IF 1 <= Len(s) THEN Len(s) - 1 + 1 ELSE 0
        /\ \A i \in 1 .. Len(s) - 1 + 1 : SubSeq(t, 1, Len(s))[i] = t[1 + i - 1]
    BY <1>1, <1>3, SubSeqProperties
  <2> QED BY <1>1, <1>4, <2>1
<1>6. f = s
  <2>1. \A i \in 1 .. Len(f) : f[i] = s[i]
    BY <1>1, <1>5 DEF t
  <2> HIDE DEF f
  <2> QED BY <1>5, <2>1, SeqEqual
<1> QED BY <1>1, <1>2, <1>6 DEF t, Front

\* Appending after a concatenation is concatenating with what is appended.
LEMMA ConcatAppend ==
    ASSUME NEW E, NEW s \in Seq(E), NEW t \in Seq(E), NEW e \in E
    PROVE  s \o Append(t, e) = Append(s \o t, e)
<1>1. Append(t, e) = t \o <<e>> /\ <<e>> \in Seq(E) /\ s \o t \in Seq(E)
  BY AppendIsConcat, ConcatProperties
<1>2. Append(s \o t, e) = (s \o t) \o <<e>>
  BY <1>1, AppendIsConcat
<1> QED BY <1>1, <1>2, ConcatAssociative

-----------------------------------------------------------------------------
(* The words of a text, as they grow from left to right.                     *)

\* The characters that words are made of, and what stands between words.
Letters == {"a", "b"}
Word == Seq(Letters) \ {<<>>}
IsSeparator(c) == IsSpace(c) \/ IsPunctuation(c)

\* One character read: it grows the last word, or ends it.
WordStep(unused, done, c) ==
    IF IsSeparator(c) THEN (IF Last(done) = <<>> THEN done ELSE Append(done, <<>>))
    ELSE [done EXCEPT ![Len(done)] = Append(@, Lower(c))]

WordFold == INSTANCE FoldFacts WITH Step <- WordStep, Base <- <<(<<>>)>>

\* The words read so far, the last of which may be empty.
Runs(text) == WordFold!Fold(0, text)

\* Words folds WordStep, and drops an empty last word.
LEMMA WordsAreRuns ==
    \A text : Words(text) = IF Last(Runs(text)) = <<>> THEN Front(Runs(text)) ELSE Runs(text)
BY Zenon DEF Words, Runs, IsSeparator, WordStep, FoldLeft, MapThenFoldSet, Max, WordFold!Fold,
             WordFold!FoldLeft, WordFold!MapThenFoldSet, WordFold!Max

\* What was read of a text: whole words and the beginning of one.
Read(text, whole, last) ==
    /\ whole \in Seq(Word) /\ last \in Seq(Letters)
    /\ Runs(text) = Append(whole, last)

\* Lower case changes neither what a space nor what a separator is.
LEMMA LowerLetter ==
    \A c \in Characters : /\ ~IsSeparator(c) => Lower(c) \in Letters
                          /\ IsSeparator(Lower(c)) <=> IsSeparator(c)
                          /\ Lower(Lower(c)) = Lower(c)
                          /\ Lower(c) \in Characters
                          /\ IsSpace(Lower(c)) <=> IsSpace(c)
BY DEF Characters, Letters, IsSeparator, IsSpace, IsPunctuation, Lower

\* Before the first character nothing is read.
LEMMA NothingIsRead == Read(<<>>, <<>>, <<>>)
<1>1. Runs(<<>>) = <<(<<>>)>>
  BY WordFold!FoldEmpty DEF Runs
<1>2. <<>> \in Seq(Word) /\ <<>> \in Seq(Letters)
  BY EmptySeq
<1>3. Append(<<>>, <<>>) = <<(<<>>)>>
  OBVIOUS
<1> QED BY <1>1, <1>2, <1>3 DEF Read

\* One character more.
LEMMA ReadOneMore ==
    ASSUME NEW text \in Seq(Characters), NEW c \in Characters,
           NEW whole, NEW last, Read(text, whole, last)
    PROVE  /\ IsSeparator(c) /\ last = <<>> => Read(Append(text, c), whole, <<>>)
           /\ IsSeparator(c) /\ last # <<>> => Read(Append(text, c), Append(whole, last), <<>>)
           /\ ~IsSeparator(c) => Read(Append(text, c), whole, Append(last, Lower(c)))
<1> DEFINE done == Append(whole, last)
<1>1. whole \in Seq(Seq(Letters)) /\ last \in Seq(Letters) /\ Runs(text) = done
  <2>1. whole \in Seq(Word) /\ Word \subseteq Seq(Letters)
    BY DEF Read, Word
  <2> QED BY <2>1, SeqMonotonic DEF Read
<1>2. Last(done) = last /\ done \in Seq(Seq(Letters)) /\ done # <<>>
  BY <1>1, AppendedEnds
<1>3. Runs(Append(text, c)) = WordStep(0, done, c)
  <2>1. WordFold!Fold(0, Append(text, c)) = WordStep(0, WordFold!Fold(0, text), c)
    BY WordFold!FoldAppend
  <2> QED BY <1>1, <2>1 DEF Runs
<1>4. CASE IsSeparator(c) /\ last = <<>>
  <2>1. WordStep(0, done, c) = done
    BY <1>2, <1>4, Zenon DEF WordStep
  <2> QED BY <1>1, <1>3, <1>4, <2>1 DEF Read
<1>5. CASE IsSeparator(c) /\ last # <<>>
  <2>1. WordStep(0, done, c) = Append(done, <<>>)
    BY <1>2, <1>5, Zenon DEF WordStep
  <2>2. done \in Seq(Word) /\ <<>> \in Seq(Letters)
    <3>1. last \in Word /\ whole \in Seq(Word)
      BY <1>1, <1>5 DEF Read, Word
    <3> QED BY <3>1, AppendedEnds, EmptySeq
  <2> QED BY <1>3, <1>5, <2>1, <2>2 DEF Read
<1>6. CASE ~IsSeparator(c)
  <2> DEFINE x == Append(last, Lower(c))
             t == [done EXCEPT ![Len(done)] = x]
             w == Append(whole, x)
  <2>1. x \in Seq(Letters)
    BY <1>1, <1>6, LowerLetter, AppendProperties
  <2>2. /\ Len(whole) \in Nat /\ Len(done) = Len(whole) + 1 /\ done[Len(whole) + 1] = last
        /\ \A i \in 1 .. Len(whole) : done[i] = whole[i]
    BY <1>1, AppendProperties, LenProperties
  <2> HIDE DEF x, done
  <2>3. WordStep(0, done, c) = [done EXCEPT ![Len(done)] = Append(@, Lower(c))]
    BY <1>6, Zenon DEF WordStep
  <2>4. [done EXCEPT ![Len(done)] = Append(@, Lower(c))] = t
    BY <2>2 DEF x
  <2>5. t \in Seq(Seq(Letters)) /\ Len(t) = Len(done)
        /\ \A i \in 1 .. Len(done) : t[i] = IF i = Len(done) THEN x ELSE done[i]
    <3>1. Len(done) \in 1 .. Len(done)
      BY <2>2
    <3> QED BY <1>2, <2>1, <3>1, ExceptSeq
  <2>6. /\ w \in Seq(Seq(Letters)) /\ Len(w) = Len(whole) + 1 /\ w[Len(whole) + 1] = x
        /\ \A i \in 1 .. Len(whole) : w[i] = whole[i]
    BY <1>1, <2>1, AppendProperties
  <2> HIDE DEF t, w
  <2>7. t = w
    <3>1. ASSUME NEW i \in 1 .. Len(t) PROVE t[i] = w[i]
      <4>1. t[i] = IF i = Len(done) THEN x ELSE done[i]
        BY <2>5
      <4>2. CASE i = Len(done)
        BY <2>2, <2>6, <4>1, <4>2
      <4>3. CASE i # Len(done)
        <5>1. i \in 1 .. Len(whole)
          BY <2>2, <2>5, <4>3
        <5> QED BY <2>2, <2>6, <4>1, <4>3, <5>1
      <4> QED BY <4>2, <4>3
    <3>2. Len(t) = Len(w)
      BY <2>2, <2>5, <2>6
    <3> QED BY <2>5, <2>6, <3>1, <3>2, SeqEqual
  <2>8. Runs(Append(text, c)) = Append(whole, x)
    BY <1>3, <2>3, <2>4, <2>7 DEF w
  <2>9. Read(Append(text, c), whole, x)
    BY <2>1, <2>8 DEF Read
  <2> QED BY <1>6, <2>9 DEF x
<1> QED BY <1>4, <1>5, <1>6

\* Every text is read as whole words and the beginning of one.
LEMMA AllIsRead ==
    ASSUME NEW text \in Seq(Characters) PROVE \E whole, last : Read(text, whole, last)
<1> DEFINE P == {t \in Seq(Characters) : \E whole, last : Read(t, whole, last)}
<1>1. <<>> \in P
  BY NothingIsRead, EmptySeq
<1>2. ASSUME NEW t \in Seq(Characters), NEW c \in Characters, t \in P PROVE Append(t, c) \in P
  <2>1. PICK whole, last : Read(t, whole, last)
    BY <1>2
  <2>2. Append(t, c) \in Seq(Characters)
    BY AppendProperties
  <2>3. \E w, l : Read(Append(t, c), w, l)
    BY <2>1, ReadOneMore, Zenon
  <2> QED BY <2>2, <2>3
<1> HIDE DEF P
<1>3. Seq(Characters) \subseteq P
  BY <1>1, <1>2, WordFold!SequenceInduction
<1> QED BY <1>3 DEF P

\* The words are what was read, with the last one if it has begun.
LEMMA WordsRead ==
    ASSUME NEW text, NEW whole, NEW last, Read(text, whole, last)
    PROVE  /\ Words(text) \in Seq(Word)
           /\ last = <<>> => Words(text) = whole
           /\ last # <<>> => Words(text) = Append(whole, last)
<1>1. whole \in Seq(Word) /\ whole \in Seq(Seq(Letters)) /\ last \in Seq(Letters)
  <2>1. whole \in Seq(Word) /\ Word \subseteq Seq(Letters)
    BY DEF Read, Word
  <2> QED BY <2>1, SeqMonotonic DEF Read
<1>2. Last(Runs(text)) = last /\ Front(Runs(text)) = whole /\ Runs(text) = Append(whole, last)
  BY <1>1, AppendedEnds DEF Read
<1>3. CASE last = <<>>
  <2>1. Words(text) = whole
    BY <1>2, <1>3, WordsAreRuns, Zenon
  <2> QED BY <1>1, <1>3, <2>1
<1>4. CASE last # <<>>
  <2>1. Words(text) = Append(whole, last)
    BY <1>2, <1>4, WordsAreRuns, Zenon
  <2>2. last \in Word
    BY <1>1, <1>4 DEF Word
  <2> QED BY <1>1, <1>4, <2>1, <2>2, AppendProperties
<1> QED BY <1>3, <1>4

\* An empty text has no words.
LEMMA WordsOfNothing == Words(<<>>) = <<>>
BY NothingIsRead, WordsRead

\* Words are not empty and hold neither spaces nor punctuation.
LEMMA WordsType ==
    ASSUME NEW text \in Seq(Characters) PROVE Words(text) \in Seq(Word)
BY AllIsRead, WordsRead

\* A space at the end adds nothing, and after it a word begins.
LEMMA ReadSpace ==
    ASSUME NEW text \in Seq(Characters)
    PROVE  Read(Append(text, " "), Words(text), <<>>) /\ Words(Append(text, " ")) = Words(text)
<1>1. " " \in Characters /\ IsSeparator(" ")
  BY DEF Characters, IsSeparator, IsSpace
<1>2. PICK whole, last : Read(text, whole, last)
  BY AllIsRead
<1>3. Read(Append(text, " "), Words(text), <<>>)
  <2>1. CASE last = <<>>
    <3>1. Read(Append(text, " "), whole, <<>>)
      BY <1>1, <1>2, <2>1, ReadOneMore, Zenon
    <3> QED BY <1>2, <2>1, <3>1, WordsRead, Zenon
  <2>2. CASE last # <<>>
    <3>1. Read(Append(text, " "), Append(whole, last), <<>>)
      BY <1>1, <1>2, <2>2, ReadOneMore, Zenon
    <3> QED BY <1>2, <2>2, <3>1, WordsRead, Zenon
  <2> QED BY <2>1, <2>2
<1> QED BY <1>3, WordsRead

\* The words on both sides of a space.
LEMMA WordsConcat ==
    ASSUME NEW u \in Seq(Characters), NEW v \in Seq(Characters)
    PROVE  Words(Append(u, " ") \o v) = Words(u) \o Words(v)
<1> DEFINE x == Append(u, " ")
           P == {t \in Seq(Characters) : \E w, l : Read(t, w, l) /\ Read(x \o t, Words(u) \o w, l)}
<1>1. x \in Seq(Characters) /\ Read(x, Words(u), <<>>) /\ Words(u) \in Seq(Word)
  <2>1. " " \in Characters
    BY DEF Characters
  <2> QED BY <2>1, ReadSpace, WordsType, AppendProperties
<1> HIDE DEF x
<1>2. <<>> \in P
  <2>1. x \o <<>> = x /\ Words(u) \o <<>> = Words(u) /\ <<>> \in Seq(Characters)
    BY <1>1, ConcatEmptySeq, EmptySeq
  <2>2. Read(x \o <<>>, Words(u) \o <<>>, <<>>)
    BY <1>1, <2>1
  <2> QED BY <2>1, <2>2, NothingIsRead
<1>3. ASSUME NEW t \in Seq(Characters), NEW c \in Characters, t \in P PROVE Append(t, c) \in P
  <2>1. PICK w, l : Read(t, w, l) /\ Read(x \o t, Words(u) \o w, l)
    BY <1>3
  <2>2. Append(t, c) \in Seq(Characters) /\ x \o t \in Seq(Characters)
        /\ x \o Append(t, c) = Append(x \o t, c)
    BY <1>1, ConcatAppend, ConcatProperties, AppendProperties
  <2>3. CASE IsSeparator(c) /\ l = <<>>
    <3>1. Read(Append(t, c), w, <<>>) /\ Read(Append(x \o t, c), Words(u) \o w, <<>>)
      BY <2>1, <2>2, <2>3, ReadOneMore
    <3> QED BY <2>2, <3>1
  <2>4. CASE IsSeparator(c) /\ l # <<>>
    <3>1. /\ Read(Append(t, c), Append(w, l), <<>>)
          /\ Read(Append(x \o t, c), Append(Words(u) \o w, l), <<>>)
      BY <2>1, <2>2, <2>4, ReadOneMore
    <3>2. l \in Word /\ w \in Seq(Word)
      BY <2>1, <2>4 DEF Read, Word
    <3>3. Words(u) \o Append(w, l) = Append(Words(u) \o w, l)
      BY <1>1, <3>2, ConcatAppend
    <3> QED BY <2>2, <3>1, <3>3
  <2>5. CASE ~IsSeparator(c)
    <3>1. /\ Read(Append(t, c), w, Append(l, Lower(c)))
          /\ Read(Append(x \o t, c), Words(u) \o w, Append(l, Lower(c)))
      BY <2>1, <2>2, <2>5, ReadOneMore
    <3> QED BY <2>2, <3>1
  <2> QED BY <2>3, <2>4, <2>5
<1> HIDE DEF P
<1>4. v \in P
  BY <1>2, <1>3, WordFold!SequenceInduction
<1>5. PICK w, l : Read(v, w, l) /\ Read(x \o v, Words(u) \o w, l)
  BY <1>4 DEF P
<1>6. CASE l = <<>>
  <2>1. Words(v) = w /\ Words(x \o v) = Words(u) \o w
    BY <1>5, <1>6, WordsRead, Zenon
  <2> QED BY <2>1 DEF x
<1>7. CASE l # <<>>
  <2>1. Words(v) = Append(w, l) /\ Words(x \o v) = Append(Words(u) \o w, l)
    BY <1>5, <1>7, WordsRead, Zenon
  <2>2. l \in Word /\ w \in Seq(Word)
    BY <1>5, <1>7 DEF Read, Word
  <2>3. Words(u) \o Append(w, l) = Append(Words(u) \o w, l)
    BY <1>1, <2>2, ConcatAppend
  <2> QED BY <2>1, <2>3 DEF x
<1> QED BY <1>6, <1>7

\* A word is its own only word.
LEMMA WordsOfWord ==
    ASSUME NEW w \in Word PROVE w \in Seq(Characters) /\ Words(w) = <<w>>
<1> DEFINE P == {t \in Seq(Letters) : Read(t, <<>>, t) /\ t \in Seq(Characters)}
<1>1. <<>> \in P
  BY NothingIsRead, EmptySeq
<1>2. ASSUME NEW t \in Seq(Letters), NEW c \in Letters, t \in P PROVE Append(t, c) \in P
  <2>1. c \in Characters /\ ~IsSeparator(c) /\ Lower(c) = c
    BY DEF Letters, Characters, IsSeparator, IsSpace, IsPunctuation, Lower
  <2>2. Read(Append(t, c), <<>>, Append(t, c))
    <3>1. Read(Append(t, c), <<>>, Append(t, Lower(c)))
      BY <1>2, <2>1, ReadOneMore
    <3> QED BY <2>1, <3>1
  <2>3. Append(t, c) \in Seq(Letters) /\ Append(t, c) \in Seq(Characters)
    BY <1>2, <2>1, AppendProperties
  <2> QED BY <2>2, <2>3
<1> HIDE DEF P
<1>3. w \in P /\ w # <<>>
  BY <1>1, <1>2, WordFold!SequenceInduction DEF Word
<1>4. Read(w, <<>>, w) /\ w \in Seq(Characters)
  BY <1>3 DEF P
<1>5. Words(w) = Append(<<>>, w)
  BY <1>3, <1>4, WordsRead
<1> QED BY <1>4, <1>5

-----------------------------------------------------------------------------
(* Words joined by single spaces: what is left of a text for whole words.    *)

\* One more word, after a space unless it is the first.
JoinStep(unused, done, w) == IF done = <<>> THEN w ELSE Append(done, " ") \o w

JoinFold == INSTANCE FoldFacts WITH Step <- JoinStep, Base <- <<>>

Join(words) == JoinFold!Fold(0, words)

\* What joined words consist of.
Glyphs == Letters \cup {" "}

\* No words make no text.
LEMMA JoinOfNothing == Join(<<>>) = <<>>
BY JoinFold!FoldEmpty DEF Join

\* The last word is joined last.
LEMMA JoinAppend ==
    ASSUME NEW W \in Seq(Word), NEW w \in Word
    PROVE  Join(Append(W, w)) = IF Join(W) = <<>> THEN w ELSE Append(Join(W), " ") \o w
<1>1. JoinFold!Fold(0, Append(W, w)) = JoinStep(0, JoinFold!Fold(0, W), w)
  BY JoinFold!FoldAppend
<1> QED BY <1>1, Zenon DEF Join, JoinStep

\* The last character of a concatenation.
LEMMA ConcatLast ==
    ASSUME NEW E, NEW s \in Seq(E), NEW t \in Seq(E), t # <<>>
    PROVE  s \o t \in Seq(E) /\ s \o t # <<>> /\ Last(s \o t) = Last(t)
<1>1. PICK x \in Seq(E), e \in E : t = Append(x, e)
  BY SequenceEmptyOrAppend
<1>2. s \o Append(x, e) = Append(s \o x, e)
  BY ConcatAppend
<1>3. s \o x \in Seq(E)
  BY ConcatProperties
<1> DEFINE y == s \o x
<1>4. /\ Append(y, e) \in Seq(E) /\ Append(y, e) # <<>> /\ Last(Append(y, e)) = e
      /\ Last(Append(x, e)) = e
  <2> HIDE DEF y
  <2> QED BY <1>3, AppendedEnds DEF y
<1> QED BY <1>1, <1>2, <1>4

\* Words joined make a text that ends with a word's letter.
LEMMA JoinIsText ==
    ASSUME NEW W \in Seq(Word)
    PROVE  /\ Join(W) \in Seq(Glyphs) /\ Join(W) \in Seq(Characters)
           /\ W # <<>> => Join(W) # <<>> /\ Last(Join(W)) # " "
           /\ Words(Join(W)) = W
<1> DEFINE P == {X \in Seq(Word) : /\ Join(X) \in Seq(Glyphs) /\ Join(X) \in Seq(Characters)
                                   /\ X # <<>> => Join(X) # <<>> /\ Last(Join(X)) # " "
                                   /\ Words(Join(X)) = X}
<1>1. <<>> \in P
  BY JoinOfNothing, WordsOfNothing, EmptySeq
<1>2. ASSUME NEW X \in Seq(Word), NEW w \in Word, X \in P PROVE Append(X, w) \in P
  <2>1. /\ w \in Seq(Glyphs) /\ w \in Seq(Characters) /\ w # <<>> /\ Last(w) # " "
        /\ Words(w) = <<w>>
    <3>1. w \in Seq(Letters) /\ w # <<>> /\ Letters \subseteq Glyphs
      BY DEF Word, Glyphs
    <3>2. PICK x \in Seq(Letters), e \in Letters : w = Append(x, e)
      BY <3>1, SequenceEmptyOrAppend
    <3>3. Last(w) = e
      BY <3>2, AppendedEnds
    <3>4. e # " "
      BY <3>2 DEF Letters
    <3>5. w \in Seq(Glyphs)
      BY <3>1, SeqMonotonic
    <3> QED BY <3>1, <3>3, <3>4, <3>5, WordsOfWord
  <2>2. Append(X, w) \in Seq(Word) /\ Append(X, w) # <<>>
    BY AppendProperties
  <2>3. CASE Join(X) = <<>>
    <3>1. Join(Append(X, w)) = w
      BY <2>3, JoinAppend
    <3>2. X = <<>>
      BY <1>2, <2>3
    <3>3. Append(X, w) = <<w>>
      BY <3>2
    <3> QED BY <2>1, <2>2, <3>1, <3>3
  <2>4. CASE Join(X) # <<>>
    <3> DEFINE x == Append(Join(X), " ")
    <3>1. Join(Append(X, w)) = x \o w
      BY <2>4, JoinAppend
    <3>2. x \in Seq(Glyphs) /\ x \in Seq(Characters)
      <4>1. " " \in Glyphs /\ " " \in Characters
        BY DEF Glyphs, Characters
      <4> QED BY <1>2, <4>1, AppendProperties
    <3>3. Words(x \o w) = Append(X, w)
      <4>1. Words(x \o w) = Words(Join(X)) \o Words(w)
        BY <1>2, <2>1, WordsConcat
      <4> QED BY <1>2, <2>1, <4>1, AppendIsConcat
    <3> HIDE DEF x
    <3>4. x \o w \in Seq(Glyphs) /\ x \o w \in Seq(Characters) /\ x \o w # <<>>
          /\ Last(x \o w) # " "
      BY <2>1, <3>2, ConcatLast
    <3> QED BY <2>2, <3>1, <3>3, <3>4
  <2> QED BY <2>3, <2>4
<1> HIDE DEF P
<1>3. W \in P
  BY <1>1, <1>2, WordFold!SequenceInduction
<1> QED BY <1>3 DEF P

\* Lists of words that are not empty, one behind the other.
LEMMA JoinConcat ==
    ASSUME NEW W \in Seq(Word), W # <<>>, NEW X \in Seq(Word), X # <<>>
    PROVE  Join(W \o X) = Append(Join(W), " ") \o Join(X)
<1> DEFINE j == Append(Join(W), " ")
           P == {Y \in Seq(Word) : Y # <<>> => Join(W \o Y) = j \o Join(Y)}
<1>1. j \in Seq(Characters) /\ Join(W) # <<>>
  <2>1. " " \in Characters
    BY DEF Characters
  <2> QED BY <2>1, JoinIsText, AppendProperties
<1> HIDE DEF j
<1>2. <<>> \in P
  BY EmptySeq
<1>3. ASSUME NEW Y \in Seq(Word), NEW w \in Word, Y \in P PROVE Append(Y, w) \in P
  <2>1. Append(Y, w) \in Seq(Word) /\ W \o Append(Y, w) = Append(W \o Y, w)
        /\ W \o Y \in Seq(Word)
    BY AppendProperties, ConcatAppend, ConcatProperties
  <2>2. CASE Y = <<>>
    <3>1. W \o Y = W
      BY <2>2, ConcatEmptySeq
    <3>2. Join(Append(W, w)) = j \o w
      BY <1>1, JoinAppend DEF j
    <3>3. Join(Append(Y, w)) = w
      BY <2>2, JoinAppend, JoinOfNothing
    <3> QED BY <2>1, <3>1, <3>2, <3>3
  <2>3. CASE Y # <<>>
    <3>1. Join(W \o Y) = j \o Join(Y) /\ Join(Y) # <<>> /\ Join(Y) \in Seq(Characters)
      BY <1>3, <2>3, JoinIsText
    <3>2. j \o Join(Y) # <<>>
      BY <1>1, <3>1, ConcatLast
    <3>3. Join(Append(W \o Y, w)) = Append(j \o Join(Y), " ") \o w
      BY <2>1, <3>1, <3>2, JoinAppend
    <3>4. Join(Append(Y, w)) = Append(Join(Y), " ") \o w
      BY <3>1, JoinAppend
    <3>5. " " \in Characters /\ w \in Seq(Characters)
      BY WordsOfWord DEF Characters
    <3>6. j \o Append(Join(Y), " ") = Append(j \o Join(Y), " ")
          /\ Append(Join(Y), " ") \in Seq(Characters)
      <4> DEFINE k == Join(Y)
                 space == " "
      <4>1. j \in Seq(Characters) /\ k \in Seq(Characters) /\ space \in Characters
        BY <1>1, <3>1, <3>5
      <4> HIDE DEF k, space
      <4>2. j \o Append(k, space) = Append(j \o k, space)
        BY <4>1, ConcatAppend
      <4>3. Append(k, space) \in Seq(Characters)
        BY <4>1, AppendProperties
      <4> QED BY <4>2, <4>3 DEF k, space
    <3>7. (j \o Append(Join(Y), " ")) \o w = j \o (Append(Join(Y), " ") \o w)
      <4> DEFINE k == Append(Join(Y), " ")
      <4>1. j \in Seq(Characters) /\ k \in Seq(Characters) /\ w \in Seq(Characters)
        BY <1>1, <3>5, <3>6
      <4> HIDE DEF k
      <4>2. (j \o k) \o w = j \o (k \o w)
        BY <4>1, ConcatAssociative
      <4> QED BY <4>2 DEF k
    <3> QED BY <2>1, <3>3, <3>4, <3>6, <3>7
  <2> QED BY <2>2, <2>3
<1> HIDE DEF P
<1>4. X \in P
  BY <1>2, <1>3, WordFold!SequenceInduction
<1> QED BY <1>4 DEF P, j

-----------------------------------------------------------------------------
(* Normalize.                                                                *)

\* The character as normalize() keeps it.
Shown(c, options) == IF options.caseSensitive THEN c ELSE Lower(c)

\* Nothing stands before the next character, or a space.
Open(done) == done = <<>> \/ Last(done) = " "

\* One character of normalize()'s loop: separators collapse to one space.
SpaceStep(options, done, c) ==
    IF ~Separates(c, options) THEN Append(done, Shown(c, options))
    ELSE IF done = <<>> \/ Last(done) = " " THEN done
    ELSE Append(done, " ")

SpaceFold == INSTANCE FoldFacts WITH Step <- SpaceStep, Base <- <<>>

\* Normalize before its last space is taken off.
Spaced(text, options) == SpaceFold!Fold(options, text)

\* Normalize folds SpaceStep, and takes off a last space.
LEMMA NormalizeUnfolded ==
    \A text, options :
        Normalize(text, options)
          = IF Spaced(text, options) # <<>> /\ Last(Spaced(text, options)) = " "
            THEN Front(Spaced(text, options)) ELSE Spaced(text, options)
BY Zenon DEF Normalize, Spaced, SpaceStep, Shown, FoldLeft, MapThenFoldSet, Max,
             SpaceFold!Fold, SpaceFold!FoldLeft, SpaceFold!MapThenFoldSet, SpaceFold!Max

\* Nothing is normalised to nothing.
LEMMA SpacedOfNothing == \A options : Spaced(<<>>, options) = <<>>
BY SpaceFold!FoldEmpty DEF Spaced

\* What one more character adds.
LEMMA SpacedStep ==
    ASSUME NEW options, NEW text \in Seq(Characters), NEW c \in Characters
    PROVE  /\ ~Separates(c, options)
                => Spaced(Append(text, c), options)
                     = Append(Spaced(text, options), Shown(c, options))
           /\ Separates(c, options) /\ Open(Spaced(text, options))
                => Spaced(Append(text, c), options) = Spaced(text, options)
           /\ Separates(c, options) /\ ~Open(Spaced(text, options))
                => Spaced(Append(text, c), options) = Append(Spaced(text, options), " ")
<1>1. SpaceFold!Fold(options, Append(text, c))
        = SpaceStep(options, SpaceFold!Fold(options, text), c)
  BY SpaceFold!FoldAppend
<1>2. Spaced(Append(text, c), options) = SpaceStep(options, Spaced(text, options), c)
  BY <1>1 DEF Spaced
<1> QED BY <1>2, Zenon DEF SpaceStep, Open

\* A separator of the matcher is one of words; what it shows of a character belongs to
\* the same word.
LEMMA ShownCharacter ==
    ASSUME NEW options, NEW c \in Characters
    PROVE  /\ Shown(c, options) \in Characters
           /\ Separates(c, options) => IsSeparator(c)
           /\ IsSeparator(Shown(c, options)) <=> IsSeparator(c)
           /\ Lower(Shown(c, options)) = Lower(c)
           /\ IsSpace(Shown(c, options)) <=> IsSpace(c)
           /\ ~Separates(c, options) => Shown(c, options) # " "
<1>1. Shown(c, options) = c \/ Shown(c, options) = Lower(c)
  BY DEF Shown
<1>2. Separates(c, options) => IsSeparator(c)
  BY DEF Separates, IsSeparator
<1>3. ~Separates(c, options) => ~IsSpace(c)
  BY DEF Separates
<1>4. IsSpace(Shown(c, options)) <=> IsSpace(c)
  BY <1>1, LowerLetter
<1>5. ~Separates(c, options) => Shown(c, options) # " "
  BY <1>3, <1>4 DEF IsSpace
<1> QED BY <1>1, <1>2, <1>4, <1>5, LowerLetter

\* The words are those of the text as it is read.
LEMMA SpacedKeepsWords ==
    ASSUME NEW options, NEW text \in Seq(Characters)
    PROVE  /\ Spaced(text, options) \in Seq(Characters)
           /\ \E w, l : /\ Read(text, w, l) /\ Read(Spaced(text, options), w, l)
                        /\ Open(Spaced(text, options)) => l = <<>>
<1> DEFINE P == {t \in Seq(Characters) :
                   /\ Spaced(t, options) \in Seq(Characters)
                   /\ \E w, l : /\ Read(t, w, l) /\ Read(Spaced(t, options), w, l)
                                /\ Open(Spaced(t, options)) => l = <<>>}
<1>1. <<>> \in P
  BY SpacedOfNothing, NothingIsRead, EmptySeq
<1>2. ASSUME NEW t \in Seq(Characters), NEW c \in Characters, t \in P PROVE Append(t, c) \in P
  <2> DEFINE d == Spaced(t, options)
             e == Spaced(Append(t, c), options)
  <2>1. Append(t, c) \in Seq(Characters) /\ d \in Seq(Characters)
    BY <1>2, AppendProperties
  <2>2. PICK w, l : Read(t, w, l) /\ Read(d, w, l) /\ (Open(d) => l = <<>>)
    BY <1>2
  <2> HIDE DEF d, e
  <2> SUFFICES /\ e \in Seq(Characters)
               /\ \E x, y : /\ Read(Append(t, c), x, y) /\ Read(e, x, y)
                            /\ Open(e) => y = <<>>
    BY <2>1 DEF e
  <2>3. CASE Separates(c, options) /\ Open(d)
    <3>1. e = d
      BY <2>3, SpacedStep DEF d, e
    <3>2. Read(Append(t, c), w, <<>>) /\ Read(d, w, <<>>)
      BY <2>2, <2>3, ShownCharacter, ReadOneMore
    <3> QED BY <2>1, <3>1, <3>2
  <2>4. CASE Separates(c, options) /\ ~Open(d)
    <3> DEFINE space == " "
    <3>1. e = Append(d, space)
      BY <2>4, SpacedStep DEF d, e
    <3>2. space \in Characters /\ IsSeparator(space) /\ IsSeparator(c)
      BY <2>4, ShownCharacter DEF Characters, IsSeparator, IsSpace
    <3> HIDE DEF space
    <3>3. Append(d, space) \in Seq(Characters)
      BY <2>1, <3>2, AppendProperties
    <3>4. CASE l = <<>>
      <4>1. Read(Append(t, c), w, <<>>) /\ Read(Append(d, space), w, <<>>)
        BY <2>1, <2>2, <3>2, <3>4, ReadOneMore
      <4> QED BY <3>1, <3>3, <4>1
    <3>5. CASE l # <<>>
      <4>1. /\ Read(Append(t, c), Append(w, l), <<>>)
            /\ Read(Append(d, space), Append(w, l), <<>>)
        BY <2>1, <2>2, <3>2, <3>5, ReadOneMore
      <4> QED BY <3>1, <3>3, <4>1
    <3> QED BY <3>4, <3>5
  <2>5. CASE ~Separates(c, options)
    <3> DEFINE s == Shown(c, options)
    <3>1. e = Append(d, s)
      BY <2>5, SpacedStep DEF d, e
    <3>2. s \in Characters /\ (IsSeparator(s) <=> IsSeparator(c)) /\ Lower(s) = Lower(c) /\ s # " "
      BY <2>5, ShownCharacter
    <3> HIDE DEF s
    <3>3. e \in Seq(Characters) /\ ~Open(e)
      <4>1. e \in Seq(Characters) /\ e # <<>> /\ Last(e) = s
        BY <2>1, <3>1, <3>2, AppendedEnds
      <4> QED BY <3>2, <4>1 DEF Open
    <3>4. \E x, y : Read(Append(t, c), x, y) /\ Read(Append(d, s), x, y)
      <4>1. CASE IsSeparator(c) /\ l = <<>>
        <5>1. Read(Append(t, c), w, <<>>) /\ Read(Append(d, s), w, <<>>)
          BY <2>1, <2>2, <3>2, <4>1, ReadOneMore
        <5> QED BY <5>1
      <4>2. CASE IsSeparator(c) /\ l # <<>>
        <5>1. Read(Append(t, c), Append(w, l), <<>>) /\ Read(Append(d, s), Append(w, l), <<>>)
          BY <2>1, <2>2, <3>2, <4>2, ReadOneMore
        <5> QED BY <5>1
      <4>3. CASE ~IsSeparator(c)
        <5>1. /\ Read(Append(t, c), w, Append(l, Lower(c)))
              /\ Read(Append(d, s), w, Append(l, Lower(s)))
          BY <2>1, <2>2, <3>2, <4>3, ReadOneMore
        <5> QED BY <3>2, <5>1
      <4> QED BY <4>1, <4>2, <4>3
    <3> QED BY <3>1, <3>3, <3>4
  <2> QED BY <2>3, <2>4, <2>5
<1> HIDE DEF P
<1>3. text \in P
  BY <1>1, <1>2, WordFold!SequenceInduction
<1> QED BY <1>3 DEF P

\* What Normalize leaves out at the end.
LEMMA NormalizeIs ==
    ASSUME NEW options, NEW text \in Seq(Characters)
    PROVE  /\ Normalize(text, options) \in Seq(Characters)
           /\ \/ Normalize(text, options) = Spaced(text, options)
                   /\ (Normalize(text, options) # <<>> => ~Open(Normalize(text, options)))
              \/ Append(Normalize(text, options), " ") = Spaced(text, options)
<1> DEFINE d == Spaced(text, options)
           space == " "
<1>1. d \in Seq(Characters)
  BY SpacedKeepsWords
<1>2. Normalize(text, options) = IF d # <<>> /\ Last(d) = space THEN Front(d) ELSE d
  BY NormalizeUnfolded, Zenon
<1> HIDE DEF d, space
<1>3. CASE d # <<>> /\ Last(d) = space
  <2>1. PICK x \in Seq(Characters), c \in Characters : d = Append(x, c)
    BY <1>1, <1>3, SequenceEmptyOrAppend
  <2>2. Last(d) = c /\ Front(d) = x
    BY <2>1, AppendedEnds
  <2> QED BY <1>2, <1>3, <2>1, <2>2 DEF d, space
<1>4. CASE ~(d # <<>> /\ Last(d) = space)
  <2>1. Normalize(text, options) = d
    BY <1>2, <1>4, Zenon
  <2>2. d # <<>> => ~Open(d)
    BY <1>4 DEF Open, space
  <2> QED BY <1>1, <2>1, <2>2 DEF d
<1> QED BY <1>3, <1>4

\* A normalised text has the words of the text.
LEMMA NormalizeKeepsWords ==
    ASSUME NEW options, NEW text \in Seq(Characters)
    PROVE  /\ Normalize(text, options) \in Seq(Characters)
           /\ Words(Normalize(text, options)) = Words(text)
<1> DEFINE n == Normalize(text, options)
<1>1. n \in Seq(Characters)
  BY NormalizeIs
<1>2. Words(Spaced(text, options)) = Words(text)
  <2>1. PICK w, l : Read(text, w, l) /\ Read(Spaced(text, options), w, l)
    BY SpacedKeepsWords
  <2>2. CASE l = <<>>
    BY <2>1, <2>2, WordsRead
  <2>3. CASE l # <<>>
    BY <2>1, <2>3, WordsRead
  <2> QED BY <2>2, <2>3
<1>3. Words(Append(n, " ")) = Words(n)
  <2> HIDE DEF n
  <2> QED BY <1>1, ReadSpace
<1>4. n = Spaced(text, options) \/ Append(n, " ") = Spaced(text, options)
  BY NormalizeIs
<1> QED BY <1>1, <1>2, <1>3, <1>4

\* What stands there when `whole` words and the beginning of one were read.
Shape(whole, last) ==
    IF last # <<>> THEN Join(Append(whole, last))
    ELSE IF whole = <<>> THEN <<>>
    ELSE Append(Join(whole), " ")

\* One more letter grows the last word.
LEMMA ShapeGrows ==
    ASSUME NEW whole \in Seq(Word), NEW last \in Seq(Letters), NEW x \in Letters
    PROVE  Append(Shape(whole, last), x) = Shape(whole, Append(last, x))
<1> DEFINE space == " "
           j == Append(Join(whole), space)
           l == Append(last, x)
<1>1. l \in Word /\ l \in Seq(Characters) /\ l \in Seq(Letters)
  <2>1. l \in Seq(Letters) /\ l # <<>>
    BY AppendProperties
  <2>2. l \in Word
    BY <2>1 DEF Word
  <2> HIDE DEF l
  <2> QED BY <2>1, <2>2, WordsOfWord
<1>2. Shape(whole, l) = Join(Append(whole, l))
  BY <1>1 DEF Shape, Word
<1>3. Join(whole) = <<>> <=> whole = <<>>
  BY JoinIsText, JoinOfNothing
<1>4. x \in Characters /\ space \in Characters /\ last \in Seq(Characters)
      /\ Join(whole) \in Seq(Characters)
  <2>1. Letters \subseteq Characters
    BY DEF Letters, Characters
  <2>2. last \in Seq(Characters)
    BY <2>1, SeqMonotonic
  <2> QED BY <2>1, <2>2, JoinIsText DEF Characters
<1>5. j \in Seq(Characters)
  <2> HIDE DEF space
  <2> QED BY <1>4, AppendProperties
<1>6. CASE whole = <<>>
  <2>1. Shape(whole, last) = last
    <3>1. CASE last = <<>>
      BY <1>6, <3>1 DEF Shape
    <3>2. CASE last # <<>>
      <4>1. last \in Word
        BY <3>2 DEF Word
      <4>2. Join(Append(whole, last)) = last
        BY <1>3, <1>6, <4>1, JoinAppend
      <4> QED BY <3>2, <4>2 DEF Shape
    <3> QED BY <3>1, <3>2
  <2>2. Join(Append(whole, l)) = l
    BY <1>1, <1>3, <1>6, JoinAppend
  <2> QED BY <1>2, <2>1, <2>2
<1>7. CASE whole # <<>>
  <2>1. Shape(whole, last) = j \o last
    <3>1. CASE last = <<>>
      <4>1. j \o <<>> = j
        <5> HIDE DEF j
        <5> QED BY <1>5, ConcatEmptySeq
      <4> QED BY <1>7, <3>1, <4>1 DEF Shape
    <3>2. CASE last # <<>>
      <4>1. last \in Word
        BY <3>2 DEF Word
      <4>2. Join(Append(whole, last)) = j \o last
        BY <1>3, <1>7, <4>1, JoinAppend
      <4> QED BY <3>2, <4>2 DEF Shape
    <3> QED BY <3>1, <3>2
  <2>2. Join(Append(whole, l)) = j \o l
    <3> HIDE DEF l
    <3> QED BY <1>1, <1>3, <1>7, JoinAppend
  <2> HIDE DEF j
  <2>3. j \o Append(last, x) = Append(j \o last, x)
    <3>1. j \in Seq(Characters) /\ last \in Seq(Characters) /\ x \in Characters
      BY <1>4, <1>5
    <3> QED BY <3>1, ConcatAppend
  <2> QED BY <1>2, <2>1, <2>2, <2>3
<1> QED BY <1>6, <1>7

\* With words to be matched whole, a text is its words, joined.
LEMMA NormalizeWhole ==
    ASSUME NEW options, options.separator, ~options.caseSensitive, NEW text \in Seq(Characters)
    PROVE  Normalize(text, options) = Join(Words(text))
<1> DEFINE P == {t \in Seq(Characters) :
                   \E w, l : Read(t, w, l) /\ Spaced(t, options) = Shape(w, l)}
<1>1. <<>> \in P
  <2>1. Shape(<<>>, <<>>) = <<>>
    BY DEF Shape
  <2> QED BY <2>1, SpacedOfNothing, NothingIsRead, EmptySeq
<1>2. \A c : Separates(c, options) <=> IsSeparator(c)
  BY DEF Separates, IsSeparator
<1>3. \A c : Shown(c, options) = Lower(c)
  BY DEF Shown
<1>4. ASSUME NEW w, NEW l, NEW t, Read(t, w, l) PROVE Open(Shape(w, l)) <=> l = <<>>
  <2>1. w \in Seq(Word) /\ l \in Seq(Letters)
    BY <1>4 DEF Read
  <2>2. CASE l # <<>>
    <3>1. l \in Word
      BY <2>1, <2>2 DEF Word
    <3>2. Append(w, l) \in Seq(Word) /\ Append(w, l) # <<>>
      BY <2>1, <3>1, AppendProperties
    <3>3. Join(Append(w, l)) # <<>> /\ Last(Join(Append(w, l))) # " "
      BY <3>2, JoinIsText
    <3> QED BY <2>2, <3>3 DEF Shape, Open
  <2>3. CASE l = <<>> /\ w = <<>>
    BY <2>3 DEF Shape, Open
  <2>4. CASE l = <<>> /\ w # <<>>
    <3> DEFINE space == " "
               j == Join(w)
    <3>1. j \in Seq(Characters) /\ space \in Characters
      BY <2>1, JoinIsText DEF Characters
    <3>2. Last(Append(j, space)) = space
      <4> HIDE DEF j, space
      <4> QED BY <3>1, AppendedEnds
    <3> QED BY <2>4, <3>2 DEF Shape, Open
  <2> QED BY <2>2, <2>3, <2>4
<1>5. ASSUME NEW t \in Seq(Characters), NEW c \in Characters, t \in P PROVE Append(t, c) \in P
  <2>1. PICK w, l : Read(t, w, l) /\ Spaced(t, options) = Shape(w, l)
    BY <1>5
  <2>2. w \in Seq(Word) /\ l \in Seq(Letters)
    BY <2>1 DEF Read
  <2>3. Append(t, c) \in Seq(Characters)
    BY AppendProperties
  <2>4. CASE IsSeparator(c) /\ l = <<>>
    <3>1. Spaced(Append(t, c), options) = Shape(w, l)
      <4>1. Separates(c, options) /\ Open(Spaced(t, options))
        BY <1>2, <1>4, <2>1, <2>4
      <4> QED BY <2>1, <4>1, SpacedStep
    <3>2. Read(Append(t, c), w, <<>>)
      BY <2>1, <2>4, ReadOneMore
    <3> QED BY <2>3, <2>4, <3>1, <3>2
  <2>5. CASE IsSeparator(c) /\ l # <<>>
    <3>1. Spaced(Append(t, c), options) = Append(Shape(w, l), " ")
      <4>1. Separates(c, options) /\ ~Open(Spaced(t, options))
        BY <1>2, <1>4, <2>1, <2>5
      <4>2. Spaced(Append(t, c), options) = Append(Spaced(t, options), " ")
        BY <4>1, SpacedStep
      <4> QED BY <2>1, <4>2
    <3>2. Read(Append(t, c), Append(w, l), <<>>)
      BY <2>1, <2>5, ReadOneMore
    <3>3. l \in Word
      BY <2>2, <2>5 DEF Word
    <3>4. Append(w, l) # <<>>
      BY <2>2, <3>3, AppendProperties
    <3>5. Append(Shape(w, l), " ") = Shape(Append(w, l), <<>>)
      BY <2>5, <3>4 DEF Shape
    <3> QED BY <2>3, <3>1, <3>2, <3>5
  <2>6. CASE ~IsSeparator(c)
    <3>1. Spaced(Append(t, c), options) = Append(Shape(w, l), Lower(c))
      BY <1>2, <1>3, <2>1, <2>6, SpacedStep
    <3>2. Read(Append(t, c), w, Append(l, Lower(c)))
      BY <2>1, <2>6, ReadOneMore
    <3>3. Append(Shape(w, l), Lower(c)) = Shape(w, Append(l, Lower(c)))
      BY <2>2, <2>6, LowerLetter, ShapeGrows
    <3> QED BY <2>3, <3>1, <3>2, <3>3
  <2> QED BY <2>4, <2>5, <2>6
<1> HIDE DEF P
<1>6. text \in P
  BY <1>1, <1>5, WordFold!SequenceInduction
<1>7. PICK w, l : Read(text, w, l) /\ Spaced(text, options) = Shape(w, l)
  BY <1>6 DEF P
<1>8. w \in Seq(Word) /\ l \in Seq(Letters)
  BY <1>7 DEF Read
<1> DEFINE n == Normalize(text, options)
           d == Spaced(text, options)
<1>9. n = IF d # <<>> /\ Last(d) = " " THEN Front(d) ELSE d
  BY NormalizeUnfolded, Zenon
<1> HIDE DEF n, d
<1>10. CASE l # <<>>
  <2>1. Words(text) = Append(w, l)
    BY <1>7, <1>10, WordsRead
  <2>2. ~Open(d)
    BY <1>4, <1>7, <1>10 DEF d
  <2>3. n = d
    BY <1>9, <2>2, Zenon DEF Open
  <2> QED BY <1>7, <1>10, <2>1, <2>3 DEF Shape, n, d
<1>11. CASE l = <<>> /\ w = <<>>
  <2>1. Words(text) = <<>>
    BY <1>7, <1>11, WordsRead
  <2>2. d = <<>>
    BY <1>7, <1>11 DEF Shape, d
  <2>3. n = <<>>
    BY <1>9, <2>2, Zenon
  <2> QED BY <2>1, <2>3, JoinOfNothing DEF n
<1>12. CASE l = <<>> /\ w # <<>>
  <2> DEFINE space == " "
             j == Join(w)
  <2>1. Words(text) = w
    BY <1>7, <1>12, WordsRead
  <2>2. d = Append(j, space)
    BY <1>7, <1>12 DEF Shape, d
  <2>3. j \in Seq(Characters) /\ space \in Characters
    BY <1>8, JoinIsText DEF Characters
  <2>4. d # <<>> /\ Last(d) = space /\ Front(d) = j
    <3> HIDE DEF j, space
    <3> QED BY <2>2, <2>3, AppendedEnds
  <2>5. n = j
    BY <1>9, <2>4, Zenon
  <2> QED BY <2>1, <2>5 DEF n
<1> QED BY <1>10, <1>11, <1>12

-----------------------------------------------------------------------------
(* A part of a sequence.                                                     *)

\* A sequence of three parts.
MadeOf(s, u, p, v) == s = (u \o p) \o v

\* Cut at two places.
LEMMA Cut ==
    ASSUME NEW E, NEW s \in Seq(E), NEW at \in Nat, NEW n \in Nat, at + n <= Len(s)
    PROVE  \E u, v \in Seq(E) : Len(u) = at /\ MadeOf(s, u, SubSeq(s, at + 1, at + n), v)
<1> DEFINE u == SubSeq(s, 1, at)
           p == SubSeq(s, at + 1, at + n)
           v == SubSeq(s, at + n + 1, Len(s))
<1>1. Len(s) \in Nat /\ \A i \in 1 .. Len(s) : s[i] \in E
  BY LenProperties, ElementOfSeq
<1>2. u \in Seq(E) /\ Len(u) = at
  <2>1. \A i \in 1 .. at : s[i] \in E
    BY <1>1
  <2>2. Len(u) = IF 1 <= at THEN at - 1 + 1 ELSE 0
    BY <2>1, SubSeqProperties
  <2> QED BY <2>1, <2>2, SubSeqProperties
<1>3. p \in Seq(E) /\ Len(p) = n
  <2>1. \A i \in at + 1 .. at + n : s[i] \in E
    BY <1>1
  <2>2. at + 1 \in Int /\ at + n \in Int
    OBVIOUS
  <2>3. p \in Seq(E) /\ Len(p) = IF at + 1 <= at + n THEN at + n - (at + 1) + 1 ELSE 0
    BY <2>1, <2>2, SubSeqProperties
  <2> QED BY <2>3
<1>4. v \in Seq(E)
  <2>1. \A i \in at + n + 1 .. Len(s) : s[i] \in E
    BY <1>1
  <2>2. at + n + 1 \in Int /\ Len(s) \in Int
    BY <1>1
  <2> QED BY <2>1, <2>2, SubSeqProperties
<1>5. u \o p = SubSeq(s, 1, at + n)
  <2>1. 1 \in 1 .. Len(s) + 1 /\ at \in 1 - 1 .. Len(s) /\ at + n \in at .. Len(s)
    BY <1>1
  <2> QED BY <2>1, ConcatAdjacentSubSeq
<1>6. SubSeq(s, 1, at + n) \o v = SubSeq(s, 1, Len(s))
  <2>1. 1 \in 1 .. Len(s) + 1 /\ at + n \in 1 - 1 .. Len(s) /\ Len(s) \in at + n .. Len(s)
    BY <1>1
  <2> QED BY <2>1, ConcatAdjacentSubSeq
<1>7. SubSeq(s, 1, Len(s)) = s
  BY SubSeqFull
<1>8. s = (u \o p) \o v
  BY <1>5, <1>6, <1>7, Zenon
<1> HIDE DEF u, v
<1> QED BY <1>2, <1>4, <1>8, Zenon DEF MadeOf

\* Put together.
LEMMA Glue ==
    ASSUME NEW E, NEW u \in Seq(E), NEW p \in Seq(E), NEW v \in Seq(E),
           NEW s, MadeOf(s, u, p, v)
    PROVE  /\ s \in Seq(E) /\ Len(u) \in Nat /\ Len(p) \in Nat /\ Len(v) \in Nat
           /\ Len(s) = Len(u) + Len(p) + Len(v)
           /\ SubSeq(s, Len(u) + 1, Len(u) + Len(p)) = p
           /\ u # <<>> => s[Len(u)] = u[Len(u)]
           /\ v # <<>> => s[Len(u) + Len(p) + 1] = v[1]
<1> DEFINE x == u \o p
           q == SubSeq(s, Len(u) + 1, Len(u) + Len(p))
<1>1. Len(u) \in Nat /\ Len(p) \in Nat /\ Len(v) \in Nat
  BY LenProperties
<1>2. /\ x \in Seq(E) /\ Len(x) = Len(u) + Len(p)
      /\ \A i \in 1 .. Len(u) + Len(p) : x[i] = IF i <= Len(u) THEN u[i] ELSE p[i - Len(u)]
  BY ConcatProperties
<1>s. s = x \o v
  BY Zenon DEF MadeOf
<1> HIDE DEF x, q
<1>x. x \in Seq(E)
  BY <1>2
<1>y. /\ x \o v \in Seq(E) /\ Len(x \o v) = Len(x) + Len(v)
      /\ \A i \in 1 .. Len(x) + Len(v) :
            (x \o v)[i] = IF i <= Len(x) THEN x[i] ELSE v[i - Len(x)]
  BY <1>x, ConcatProperties
<1>3. /\ s \in Seq(E) /\ Len(s) = Len(x) + Len(v)
      /\ \A i \in 1 .. Len(x) + Len(v) : s[i] = IF i <= Len(x) THEN x[i] ELSE v[i - Len(x)]
  BY <1>s, <1>y, Zenon
<1>4. q = p
  <2>1. \A i \in Len(u) + 1 .. Len(u) + Len(p) : s[i] \in E
    <3>1. \A i \in Len(u) + 1 .. Len(u) + Len(p) : i \in 1 .. Len(s)
      BY <1>1, <1>2, <1>3
    <3> QED BY <1>3, <3>1, ElementOfSeq
  <2>2. Len(u) + 1 \in Int /\ Len(u) + Len(p) \in Int
    BY <1>1
  <2>3. /\ q \in Seq(E)
        /\ Len(q) = IF Len(u) + 1 <= Len(u) + Len(p)
                    THEN Len(u) + Len(p) - (Len(u) + 1) + 1 ELSE 0
        /\ \A i \in 1 .. Len(u) + Len(p) - (Len(u) + 1) + 1 : q[i] = s[Len(u) + 1 + i - 1]
    BY <2>1, <2>2, <1>3, SubSeqProperties DEF q
  <2>4. Len(q) = Len(p)
    BY <1>1, <2>3
  <2>5. ASSUME NEW i \in 1 .. Len(q) PROVE q[i] = p[i]
    <3>1. q[i] = s[Len(u) + i]
      BY <1>1, <2>3, <2>4
    <3>2. Len(u) + i \in 1 .. Len(x) /\ ~(Len(u) + i <= Len(u)) /\ (Len(u) + i) - Len(u) = i
          /\ Len(u) + i \in 1 .. Len(x) + Len(v)
      BY <1>1, <1>2, <2>4
    <3>3. s[Len(u) + i] = x[Len(u) + i]
      BY <1>3, <3>2
    <3>4. x[Len(u) + i] = p[i]
      BY <1>2, <3>2
    <3> QED BY <3>1, <3>3, <3>4
  <2> QED BY <2>3, <2>4, <2>5, SeqEqual
<1>5. ASSUME u # <<>> PROVE s[Len(u)] = u[Len(u)]
  <2>1. Len(u) \in 1 .. Len(u)
    BY <1>1, <1>5, EmptySeq
  <2>2. Len(u) \in 1 .. Len(u) + Len(p) /\ Len(u) \in 1 .. Len(x) + Len(v) /\ Len(u) <= Len(x)
    BY <1>1, <1>2, <2>1
  <2> QED BY <1>2, <1>3, <2>2
<1>6. ASSUME v # <<>> PROVE s[Len(u) + Len(p) + 1] = v[1]
  <2>1. Len(v) >= 1
    BY <1>1, <1>6, EmptySeq
  <2>2. Len(x) + 1 \in 1 .. Len(x) + Len(v) /\ ~(Len(x) + 1 <= Len(x)) /\ (Len(x) + 1) - Len(x) = 1
    BY <1>1, <1>2, <2>1
  <2>3. s[Len(x) + 1] = v[1]
    BY <1>3, <2>2
  <2> QED BY <1>2, <2>3
<1> QED BY <1>1, <1>2, <1>3, <1>4, <1>5, <1>6 DEF q

\* A sequence holds a part when it is made of something, the part and something.
LEMMA HoldsMeans ==
    ASSUME NEW E, NEW s \in Seq(E), NEW p \in Seq(E), p # <<>>
    PROVE  Holds(s, p) <=> \E u, v \in Seq(E) : MadeOf(s, u, p, v)
<1>1. Len(s) \in Nat /\ Len(p) \in Nat
  BY LenProperties
<1>2. ASSUME Holds(s, p) PROVE \E u, v \in Seq(E) : MadeOf(s, u, p, v)
  <2>1. PICK k \in 0 .. Len(s) - Len(p) : SubSeq(s, k + 1, k + Len(p)) = p
    BY <1>2 DEF Holds
  <2>2. k \in Nat /\ k + Len(p) <= Len(s)
    BY <1>1
  <2>3. \E u, v \in Seq(E) : Len(u) = k /\ MadeOf(s, u, SubSeq(s, k + 1, k + Len(p)), v)
    BY <1>1, <2>2, Cut, Zenon
  <2> QED BY <2>1, <2>3, Zenon
<1>3. ASSUME NEW u \in Seq(E), NEW v \in Seq(E), MadeOf(s, u, p, v) PROVE Holds(s, p)
  <2>1. /\ Len(u) \in Nat /\ Len(v) \in Nat /\ Len(s) = Len(u) + Len(p) + Len(v)
        /\ SubSeq(s, Len(u) + 1, Len(u) + Len(p)) = p
    BY <1>3, Glue
  <2>2. Len(u) \in 0 .. Len(s) - Len(p)
    BY <1>1, <2>1
  <2> QED BY <2>1, <2>2 DEF Holds
<1> QED BY <1>2, <1>3, Zenon

\* One element between two sequences belongs to either.
LEMMA AppendedInside ==
    ASSUME NEW E, NEW x \in Seq(E), NEW c \in E, NEW y \in Seq(E)
    PROVE  x \o (<<c>> \o y) = Append(x, c) \o y
<1> DEFINE k == <<c>>
<1>1. k \in Seq(E) /\ Append(x, c) = x \o k
  BY AppendIsConcat
<1> HIDE DEF k
<1>2. (x \o k) \o y = x \o (k \o y)
  BY <1>1, ConcatAssociative
<1> QED BY <1>1, <1>2 DEF k

\* The first element of what follows may be appended before.
Rest(w, v, y) == w \o v = Append(w, v[1]) \o y

\* A sequence that is not empty has a first element and a rest.
LEMMA FirstApart ==
    ASSUME NEW E, NEW w \in Seq(E), NEW v \in Seq(E), v # <<>>
    PROVE  \E y \in Seq(E) : Rest(w, v, y)
<1>2. Len(v) \in Nat /\ Len(v) >= 1
  BY LenProperties, EmptySeq
<1>3. PICK y : y = SubSeq(v, 2, Len(v))
  OBVIOUS
<1>1. PICK c \in E : c = v[1]
  BY <1>2, ElementOfSeq
<1>4. y \in Seq(E)
  <2>1. \A i \in 2 .. Len(v) : v[i] \in E
    BY ElementOfSeq
  <2>2. 2 \in Int /\ Len(v) \in Int
    BY <1>2
  <2> QED BY <1>3, <2>1, <2>2, SubSeqProperties
<1>5. v = <<c>> \o y
  <2>1. 1 \in 1 .. Len(v) /\ Len(v) \in 1 .. Len(v)
    BY <1>2
  <2>2. SubSeq(v, 1, Len(v)) = <<v[1]>> \o SubSeq(v, 1 + 1, Len(v))
    BY <2>1, SubSeqRecursiveFirst
  <2>3. SubSeq(v, 1, Len(v)) = v
    BY SubSeqFull
  <2> QED BY <1>1, <1>3, <2>2, <2>3
<1>6. w \o (<<c>> \o y) = Append(w, c) \o y
  BY <1>4, AppendedInside
<1> QED BY <1>1, <1>4, <1>5, <1>6 DEF Rest

\* A space parts the words before it from those behind it.
LEMMA WordsBehindSpace ==
    ASSUME NEW w \in Seq(Characters), NEW v \in Seq(Characters), v # <<>>, v[1] = " "
    PROVE  \E y \in Seq(Characters) : Words(w \o v) = Words(w) \o Words(y)
<1>1. PICK y \in Seq(Characters) : Rest(w, v, y)
  BY FirstApart, Zenon
<1>2. w \o v = Append(w, " ") \o y
  BY <1>1, Zenon DEF Rest
<1>3. Words(Append(w, " ") \o y) = Words(w) \o Words(y)
  BY WordsConcat
<1> QED BY <1>2, <1>3, Zenon

-----------------------------------------------------------------------------
(* Find.                                                                     *)

\* The phrase stands in the text behind position `at`, at a boundary of the kind asked for.
Match(normal, phrase, at, boundary) ==
    /\ at + Len(phrase) <= Len(normal)
    /\ SubSeq(normal, at + 1, at + Len(phrase)) = phrase
    /\ RespectsBoundary(normal, at, Len(phrase), boundary)

\* It stands there somewhere.
Matches(normal, phrase, boundary) ==
    \E at \in 0 .. Len(normal) : Match(normal, phrase, at, boundary)

\* The phrases that find() looks for, normalised.
Effective(phrases, options) == {Normalize(p, options) : p \in Originals(phrases)} \ {<<>>}

\* find() finds something when one of the effective phrases stands in the text.
LEMMA FindMeans ==
    ASSUME NEW text, NEW phrases, NEW options
    PROVE  Find(text, phrases, options) # {}
             <=> \E p \in Effective(phrases, options) :
                    Matches(Normalize(text, options), p, options.boundary)
<1> DEFINE normal == Normalize(text, options)
           all == Effective(phrases, options)
           pairs == {[start |-> at, phrase |-> p] : at \in 0 .. Len(normal), p \in all}
<1>0. Find(text, phrases, options)
        = {m \in pairs :
             /\ m.start + Len(m.phrase) <= Len(normal)
             /\ SubSeq(normal, m.start + 1, m.start + Len(m.phrase)) = m.phrase
             /\ RespectsBoundary(normal, m.start, Len(m.phrase), options.boundary)}
  BY SMT DEF Find, Effective
<1>1. Find(text, phrases, options)
        = {m \in pairs : Match(normal, m.phrase, m.start, options.boundary)}
  BY <1>0 DEF Match
<1> HIDE DEF normal, all
<1>2. ASSUME NEW m \in pairs, Match(normal, m.phrase, m.start, options.boundary)
      PROVE  \E p \in all : Matches(normal, p, options.boundary)
  <2>1. m.start \in 0 .. Len(normal) /\ m.phrase \in all
    OBVIOUS
  <2> QED BY <1>2, <2>1 DEF Matches
<1>3. ASSUME NEW p \in all, NEW at \in 0 .. Len(normal), Match(normal, p, at, options.boundary)
      PROVE  \E m \in pairs : Match(normal, m.phrase, m.start, options.boundary)
  <2> DEFINE m == [start |-> at, phrase |-> p]
  <2>1. m \in pairs /\ m.start = at /\ m.phrase = p
    OBVIOUS
  <2> QED BY <1>3, <2>1
<1> HIDE DEF pairs
<1>4. Find(text, phrases, options) # {}
        <=> \E m \in pairs : Match(normal, m.phrase, m.start, options.boundary)
  BY <1>1
<1>5. (\E m \in pairs : Match(normal, m.phrase, m.start, options.boundary))
        <=> \E p \in all : Matches(normal, p, options.boundary)
  BY <1>2, <1>3 DEF Matches
<1> QED BY <1>4, <1>5 DEF normal, all

\* A text of joined words has a phrase of joined words between word boundaries exactly
\* when the words of the one hold the words of the other.
LEMMA WholeMatch ==
    ASSUME NEW T \in Seq(Word), NEW Q \in Seq(Word), Q # <<>>
    PROVE  Matches(Join(T), Join(Q), "whole_word") <=> Holds(T, Q)
<1> DEFINE space == " "
           N == Join(T)
           P == Join(Q)
<1>1. N \in Seq(Characters) /\ N \in Seq(Glyphs) /\ Words(N) = T
  BY JoinIsText
<1>2. P \in Seq(Characters) /\ P # <<>> /\ Words(P) = Q
  BY JoinIsText
<1>3. space \in Characters /\ ~IsWordCharacter(space)
      /\ \A c \in Glyphs : ~IsWordCharacter(c) => c = space
  BY DEF Characters, IsWordCharacter, Glyphs, Letters
<1> HIDE DEF space
<1>4. \A at, n : RespectsBoundary(N, at, n, "whole_word")
         <=> /\ at # 0 => ~IsWordCharacter(N[at])
             /\ at + n < Len(N) => ~IsWordCharacter(N[at + n + 1])
  BY Zenon DEF RespectsBoundary
<1> HIDE DEF N, P
<1>5. ASSUME Matches(N, P, "whole_word") PROVE Holds(T, Q)
  <2>1. PICK at \in 0 .. Len(N) : Match(N, P, at, "whole_word")
    BY <1>5 DEF Matches
  <2>2. /\ at + Len(P) <= Len(N) /\ SubSeq(N, at + 1, at + Len(P)) = P
        /\ at # 0 => ~IsWordCharacter(N[at])
        /\ at + Len(P) < Len(N) => ~IsWordCharacter(N[at + Len(P) + 1])
    BY <2>1, <1>4, Zenon DEF Match
  <2>3. at \in Nat /\ Len(P) \in Nat /\ Len(N) \in Nat
    BY <1>1, <1>2, LenProperties
  <2>c. \E u, v \in Seq(Characters) :
           Len(u) = at /\ MadeOf(N, u, SubSeq(N, at + 1, at + Len(P)), v)
    BY <1>1, <2>2, <2>3, Cut, Zenon
  <2>4. PICK u \in Seq(Characters), v \in Seq(Characters) : Len(u) = at /\ MadeOf(N, u, P, v)
    BY <2>2, <2>c, Zenon
  <2>d. N = (u \o P) \o v
    BY <2>4 DEF MadeOf
  <2>5. /\ Len(v) \in Nat /\ Len(N) = Len(u) + Len(P) + Len(v)
        /\ u # <<>> => N[Len(u)] = u[Len(u)]
        /\ v # <<>> => N[Len(u) + Len(P) + 1] = v[1]
    <3>1. P \in Seq(Characters) /\ u \in Seq(Characters) /\ v \in Seq(Characters)
          /\ MadeOf(N, u, P, v)
      BY <1>2, <2>4
    <3> QED BY <3>1, Glue
  <2>6. \E A \in Seq(Word) : u \o P \in Seq(Characters) /\ Words(u \o P) = A \o Q
    <3>1. CASE u = <<>>
      <4>1. u \o P = P
        BY <1>2, <3>1, ConcatEmptySeq
      <4>2. <<>> \in Seq(Word) /\ <<>> \o Q = Q
        BY ConcatEmptySeq, EmptySeq
      <4> QED BY <1>2, <4>1, <4>2
    <3>2. CASE u # <<>>
      <4>1. PICK x \in Seq(Characters), c \in Characters : u = Append(x, c)
        BY <2>4, <3>2, SequenceEmptyOrAppend
      <4>2. Last(u) = c
        BY <4>1, AppendedEnds
      <4>3. at # 0 /\ at \in 1 .. Len(N)
        <5>1. Len(u) # 0
          BY <2>4, <3>2, EmptySeq
        <5> QED BY <2>2, <2>3, <2>4, <5>1
      <4>4. N[at] = c /\ ~IsWordCharacter(c)
        BY <2>2, <2>4, <2>5, <3>2, <4>2, <4>3 DEF Last
      <4>5. c = space
        <5>1. N[at] \in Glyphs
          BY <1>1, <4>3, ElementOfSeq
        <5> QED BY <1>3, <4>4, <5>1
      <4>6. Words(u \o P) = Words(x) \o Words(P)
        BY <1>2, <4>1, <4>5, WordsConcat DEF space
      <4>7. Words(x) \in Seq(Word)
        BY <4>1, WordsType
      <4>8. u \o P \in Seq(Characters)
        BY <1>2, <2>4, ConcatProperties
      <4> QED BY <1>2, <4>6, <4>7, <4>8
    <3> QED BY <3>1, <3>2
  <2>7. PICK A \in Seq(Word) : u \o P \in Seq(Characters) /\ Words(u \o P) = A \o Q
    BY <2>6
  <2> DEFINE w == u \o P
  <2>8. \E B \in Seq(Word) : Words(w \o v) = (A \o Q) \o B
    <3>1. CASE v = <<>>
      <4>1. w \o v = w
        BY <2>7, <3>1, ConcatEmptySeq
      <4>2. A \o Q \in Seq(Word)
        BY ConcatProperties
      <4>3. (A \o Q) \o <<>> = A \o Q /\ <<>> \in Seq(Word)
        BY <4>2, ConcatEmptySeq, EmptySeq
      <4> QED BY <2>7, <4>1, <4>3
    <3>2. CASE v # <<>>
      <4>1. Len(v) >= 1 /\ Len(v) \in Nat
        BY <2>4, <2>5, <3>2, EmptySeq
      <4>2. at + Len(P) < Len(N) /\ at + Len(P) + 1 \in 1 .. Len(N)
        BY <2>3, <2>4, <2>5, <4>1
      <4>3. v[1] = space
        <5>1. N[at + Len(P) + 1] \in Glyphs
          BY <1>1, <4>2, ElementOfSeq
        <5>2. v[1] = N[at + Len(P) + 1]
          BY <2>4, <2>5, <3>2
        <5> QED BY <1>3, <2>2, <4>2, <5>1, <5>2
      <4>4. w \in Seq(Characters)
        BY <2>7
      <4>5. v[1] = " "
        BY <4>3 DEF space
      <4> HIDE DEF w
      <4>6. \E y \in Seq(Characters) : Words(w \o v) = Words(w) \o Words(y)
        BY <2>4, <3>2, <4>4, <4>5, WordsBehindSpace, Zenon
      <4>7. \E B \in Seq(Word) : Words(w \o v) = Words(w) \o B
        BY <4>6, WordsType, Zenon
      <4> QED BY <2>7, <4>7, Zenon DEF w
    <3> QED BY <3>1, <3>2
  <2>9. \E A1, B1 \in Seq(Word) : MadeOf(T, A1, Q, B1)
    BY <1>1, <2>d, <2>8 DEF MadeOf
  <2> QED BY <2>9, HoldsMeans, Zenon
<1>6. ASSUME Holds(T, Q) PROVE Matches(N, P, "whole_word")
  <2>0. \E A, B \in Seq(Word) : MadeOf(T, A, Q, B)
    BY <1>6, HoldsMeans, Zenon
  <2>1. PICK A \in Seq(Word), B \in Seq(Word) : T = (A \o Q) \o B
    BY <2>0, Zenon DEF MadeOf
  <2> DEFINE R == A \o Q
             u == IF A = <<>> THEN <<>> ELSE Append(Join(A), space)
             v == IF B = <<>> THEN <<>> ELSE <<space>> \o Join(B)
  <2>2. R \in Seq(Word) /\ R # <<>>
    BY ConcatLast
  <2>3. Join(A) \in Seq(Characters) /\ Join(B) \in Seq(Characters) /\ Join(R) \in Seq(Characters)
    <3> HIDE DEF R
    <3> QED BY <2>2, JoinIsText
  <2>4. u \in Seq(Characters) /\ (u # <<>> => u[Len(u)] = space)
    <3>1. CASE A = <<>>
      BY <3>1, EmptySeq
    <3>2. CASE A # <<>>
      <4> DEFINE j == Join(A)
      <4>1. j \in Seq(Characters) /\ u = Append(j, space)
        BY <2>3, <3>2
      <4> HIDE DEF j, u
      <4>2. u \in Seq(Characters) /\ Last(u) = space
        BY <1>3, <4>1, AppendedEnds
      <4> QED BY <4>2 DEF Last
    <3> QED BY <3>1, <3>2
  <2>5. v \in Seq(Characters) /\ (v # <<>> => v[1] = space)
    <3>1. CASE B = <<>>
      BY <3>1, EmptySeq
    <3>2. CASE B # <<>>
      <4> DEFINE j == Join(B)
                 k == <<space>>
      <4>1. j \in Seq(Characters) /\ v = k \o j
        BY <2>3, <3>2
      <4>2. k \in Seq(Characters) /\ Len(k) = 1 /\ k[1] = space
        BY <1>3
      <4> HIDE DEF j, k, v
      <4>3. /\ v \in Seq(Characters)
            /\ \A i \in 1 .. Len(k) + Len(j) : v[i] = IF i <= Len(k) THEN k[i] ELSE j[i - Len(k)]
        BY <4>1, <4>2, ConcatProperties
      <4>4. 1 \in 1 .. Len(k) + Len(j)
        BY <4>1, <4>2, LenProperties
      <4> QED BY <4>2, <4>3, <4>4
    <3> QED BY <3>1, <3>2
  <2>6. Join(R) = u \o P
    <3>1. CASE A = <<>>
      <4>1. R = Q /\ u = <<>>
        BY <3>1, ConcatEmptySeq
      <4>2. <<>> \o P = P
        BY <1>2, ConcatEmptySeq
      <4> QED BY <4>1, <4>2 DEF P
    <3>2. CASE A # <<>>
      BY <3>2, JoinConcat DEF P, space
    <3> QED BY <3>1, <3>2
  <2>7. MadeOf(N, u, P, v)
    <3> DEFINE r == Join(R)
               b == Join(B)
               k == <<space>>
    <3>1. CASE B = <<>>
      <4>1. T = R /\ v = <<>>
        <5> HIDE DEF R
        <5> QED BY <2>1, <2>2, <3>1, ConcatEmptySeq DEF R
      <4>2. r \o <<>> = r
        <5> HIDE DEF r
        <5> QED BY <2>3, ConcatEmptySeq DEF r
      <4> QED BY <2>6, <4>1, <4>2 DEF N, MadeOf
    <3>2. CASE B # <<>>
      <4>1. N = Append(r, space) \o b
        <5> HIDE DEF R
        <5>1. Join(R \o B) = Append(Join(R), " ") \o Join(B)
          BY <2>2, <3>2, JoinConcat
        <5> QED BY <2>1, <5>1 DEF N, R, space
      <4>2. v = k \o b
        BY <3>2
      <4>3. r \in Seq(Characters) /\ b \in Seq(Characters) /\ k \in Seq(Characters)
        BY <1>3, <2>3
      <4>4. Append(r, space) = r \o k
        <5> HIDE DEF r
        <5> QED BY <1>3, <4>3, AppendIsConcat
      <4>5. (r \o k) \o b = r \o (k \o b)
        <5>1. \A x, y, z \in Seq(Characters) : (x \o y) \o z = x \o (y \o z)
          BY ConcatAssociative
        <5> HIDE DEF r, b, k
        <5> QED BY <4>3, <5>1
      <4> QED BY <2>6, <4>1, <4>2, <4>4, <4>5, Zenon DEF MadeOf
    <3> QED BY <3>1, <3>2
  <2> HIDE DEF u, v
  <2>8. /\ Len(u) \in Nat /\ Len(P) \in Nat /\ Len(v) \in Nat
        /\ Len(N) = Len(u) + Len(P) + Len(v)
        /\ SubSeq(N, Len(u) + 1, Len(u) + Len(P)) = P
        /\ u # <<>> => N[Len(u)] = u[Len(u)]
        /\ v # <<>> => N[Len(u) + Len(P) + 1] = v[1]
    <3>1. P \in Seq(Characters) /\ u \in Seq(Characters) /\ v \in Seq(Characters)
      BY <1>2, <2>4, <2>5
    <3> HIDE DEF R
    <3> QED BY <2>7, <3>1, Glue
  <2>9. Len(u) # 0 => u # <<>>
    BY EmptySeq
  <2>10. Len(u) + Len(P) < Len(N) => v # <<>>
    BY <2>8, EmptySeq
  <2>11. RespectsBoundary(N, Len(u), Len(P), "whole_word")
    <3>1. Len(u) # 0 => ~IsWordCharacter(N[Len(u)])
      BY <1>3, <2>4, <2>8, <2>9
    <3>2. Len(u) + Len(P) < Len(N) => ~IsWordCharacter(N[Len(u) + Len(P) + 1])
      BY <1>3, <2>5, <2>8, <2>10
    <3> QED BY <1>4, <3>1, <3>2, Zenon
  <2>12. Len(u) \in 0 .. Len(N) /\ Len(u) + Len(P) <= Len(N)
    BY <2>8
  <2> QED BY <2>8, <2>11, <2>12 DEF Matches, Match
<1> QED BY <1>5, <1>6 DEF N, P

-----------------------------------------------------------------------------
(* A phrase with its case, and without.                                      *)

\* The options under which PhraseMatcher tells its originals apart.
KeepCase == [DefaultOptions EXCEPT !.caseSensitive = TRUE]

\* What those options make of a character.
LEMMA TheOptions ==
    /\ ~DefaultOptions.caseSensitive /\ ~DefaultOptions.separator
    /\ DefaultOptions.boundary = "substring"
    /\ KeepCase.caseSensitive /\ ~KeepCase.separator
    /\ \A c : (Separates(c, DefaultOptions) <=> IsSpace(c))
    /\ \A c : (Separates(c, KeepCase) <=> IsSpace(c))
    /\ \A c : Shown(c, DefaultOptions) = Lower(c) /\ Shown(c, KeepCase) = c
<1>1. /\ ~DefaultOptions.caseSensitive /\ ~DefaultOptions.separator
      /\ DefaultOptions.boundary = "substring"
  BY Zenon DEF DefaultOptions
<1>2. KeepCase.caseSensitive /\ ~KeepCase.separator
  BY Zenon DEF DefaultOptions, KeepCase
<1> QED BY <1>1, <1>2, Zenon DEF Separates, Shown

\* Spaces are seen alike with the case and without it.
LEMMA SpacedTwice ==
    ASSUME NEW text \in Seq(Characters)
    PROVE  /\ Spaced(Spaced(text, KeepCase), DefaultOptions) = Spaced(text, DefaultOptions)
           /\ Open(Spaced(text, KeepCase)) <=> Open(Spaced(text, DefaultOptions))
           /\ Spaced(text, KeepCase) \in Seq(Characters)
           /\ Spaced(text, DefaultOptions) \in Seq(Characters)
<1> DEFINE Agrees(t) == /\ Spaced(Spaced(t, KeepCase), DefaultOptions) = Spaced(t, DefaultOptions)
                        /\ Open(Spaced(t, KeepCase)) <=> Open(Spaced(t, DefaultOptions))
           P == {t \in Seq(Characters) : Agrees(t)}
<1>0. \A t \in Seq(Characters) : /\ Spaced(t, KeepCase) \in Seq(Characters)
                                 /\ Spaced(t, DefaultOptions) \in Seq(Characters)
  BY SpacedKeepsWords, Zenon
<1>1. <<>> \in P
  <2>1. Spaced(<<>>, KeepCase) = <<>> /\ Spaced(<<>>, DefaultOptions) = <<>>
    BY SpacedOfNothing, Zenon
  <2>2. <<>> \in Seq(Characters)
    BY EmptySeq
  <2> QED BY <2>1, <2>2
<1>2. ASSUME NEW t \in Seq(Characters), NEW c \in Characters, t \in P PROVE Append(t, c) \in P
  <2> DEFINE k == Spaced(t, KeepCase)
             d == Spaced(t, DefaultOptions)
             K == Spaced(Append(t, c), KeepCase)
             D == Spaced(Append(t, c), DefaultOptions)
  <2>1. Append(t, c) \in Seq(Characters)
    BY AppendProperties
  <2>2. k \in Seq(Characters) /\ d \in Seq(Characters)
    BY <1>0
  <2>3. Spaced(k, DefaultOptions) = d /\ (Open(k) <=> Open(d))
    BY <1>2
  <2>4. CASE ~IsSpace(c)
    <3>1. K = Append(k, c) /\ D = Append(d, Lower(c))
      <4>1. K = Append(k, Shown(c, KeepCase)) /\ D = Append(d, Shown(c, DefaultOptions))
        BY <2>4, SpacedStep, TheOptions, Zenon
      <4> QED BY <4>1, TheOptions, Zenon
    <3>2. Spaced(Append(k, c), DefaultOptions) = Append(Spaced(k, DefaultOptions), Lower(c))
      <4>1. Spaced(Append(k, c), DefaultOptions)
              = Append(Spaced(k, DefaultOptions), Shown(c, DefaultOptions))
        BY <2>2, <2>4, SpacedStep, TheOptions, Zenon
      <4> QED BY <4>1, TheOptions, Zenon
    <3>3. ~Open(K) /\ ~Open(D)
      <4>1. Lower(c) \in Characters /\ ~IsSpace(Lower(c))
        BY <2>4, LowerLetter, Zenon
      <4>2. Append(k, c) # <<>> /\ Last(Append(k, c)) = c
        BY <2>2, AppendedEnds
      <4>3. Append(d, Lower(c)) # <<>> /\ Last(Append(d, Lower(c))) = Lower(c)
        BY <2>2, <4>1, AppendedEnds
      <4> QED BY <2>4, <3>1, <4>1, <4>2, <4>3, Zenon DEF Open, IsSpace
    <3>4. Spaced(K, DefaultOptions) = D
      BY <2>3, <3>1, <3>2, Zenon
    <3> QED BY <2>1, <3>3, <3>4, Zenon
  <2>5. CASE IsSpace(c) /\ Open(k)
    <3>1. K = k /\ D = d
      BY <2>3, <2>5, SpacedStep, TheOptions, Zenon
    <3> QED BY <2>1, <2>3, <3>1, Zenon
  <2>6. CASE IsSpace(c) /\ ~Open(k)
    <3> DEFINE space == " "
    <3>s. space \in Characters /\ IsSpace(space)
      BY DEF Characters, IsSpace
    <3>1. K = Append(k, space) /\ D = Append(d, space)
      BY <2>3, <2>6, SpacedStep, TheOptions, Zenon
    <3>2. Spaced(Append(k, space), DefaultOptions) = Append(Spaced(k, DefaultOptions), space)
      BY <2>2, <2>3, <2>6, <3>s, SpacedStep, TheOptions, Zenon
    <3>o. Open(K) /\ Open(D)
      <4>1. \A s : s = space => s = " "
        OBVIOUS
      <4> HIDE DEF space
      <4>2. Last(Append(k, space)) = space
        BY <2>2, <3>s, AppendedEnds
      <4>3. Last(Append(d, space)) = space
        BY <2>2, <3>s, AppendedEnds
      <4> QED BY <3>1, <4>1, <4>2, <4>3, Zenon DEF Open
    <3>3. Spaced(K, DefaultOptions) = D
      BY <2>3, <3>1, <3>2, Zenon
    <3> QED BY <2>1, <3>o, <3>3, Zenon
  <2> QED BY <2>4, <2>5, <2>6
<1>3. Seq(Characters) \subseteq P
  <2> HIDE DEF P
  <2> QED BY <1>1, <1>2, SpaceFold!SequenceInduction
<1>4. text \in P
  BY <1>3
<1> QED BY <1>0, <1>4, Zenon

\* A space at the end is of no account.
LEMMA NormalizeSpace ==
    ASSUME NEW options, NEW text \in Seq(Characters)
    PROVE  Normalize(Append(text, " "), options) = Normalize(text, options)
<1> DEFINE space == " "
           s == Spaced(text, options)
<1>1. space \in Characters /\ Separates(space, options)
  BY DEF Characters, Separates, IsSpace
<1>2. s \in Seq(Characters)
  BY SpacedKeepsWords, Zenon
<1>3. CASE Open(s)
  <2>1. Spaced(Append(text, space), options) = s
    BY <1>1, <1>3, SpacedStep, Zenon
  <2> QED BY <2>1, NormalizeUnfolded, Zenon
<1>4. CASE ~Open(s)
  <2>1. Spaced(Append(text, space), options) = Append(s, space)
    BY <1>1, <1>4, SpacedStep, Zenon
  <2>2. Normalize(text, options) = s
    BY <1>4, NormalizeUnfolded, Zenon DEF Open
  <2>3. \A x : x = space => x = " "
    OBVIOUS
  <2>4. Append(s, space) # <<>> /\ Last(Append(s, space)) = space /\ Front(Append(s, space)) = s
    <3> HIDE DEF space, s
    <3> QED BY <1>1, <1>2, AppendedEnds
  <2>5. Normalize(Append(text, space), options) = Front(Append(s, space))
    BY <2>1, <2>3, <2>4, NormalizeUnfolded, Zenon
  <2> QED BY <2>2, <2>4, <2>5, Zenon
<1> QED BY <1>3, <1>4

\* The spelling of a phrase is found again from the one that is kept.
LEMMA NormalizeTwice ==
    ASSUME NEW text \in Seq(Characters)
    PROVE  Normalize(Normalize(text, KeepCase), DefaultOptions) = Normalize(text, DefaultOptions)
<1> DEFINE s == Spaced(text, KeepCase)
           n == Normalize(text, KeepCase)
<1>1. s \in Seq(Characters) /\ Spaced(s, DefaultOptions) = Spaced(text, DefaultOptions)
  BY SpacedTwice, Zenon
<1>2. Normalize(s, DefaultOptions) = Normalize(text, DefaultOptions)
  BY <1>1, NormalizeUnfolded, Zenon
<1>3. n \in Seq(Characters) /\ (n = s \/ Append(n, " ") = s)
  BY NormalizeIs, Zenon
<1>4. Normalize(Append(n, " "), DefaultOptions) = Normalize(n, DefaultOptions)
  BY <1>3, NormalizeSpace, Zenon
<1> QED BY <1>2, <1>3, <1>4, Zenon

-----------------------------------------------------------------------------
(* The phrases that are looked for.                                          *)

\* The key under which a phrase is a duplicate of another.
Normal(p) == Normalize(p, DefaultOptions)

\* The phrases that are the first of their key.
First(phrases) ==
    {i \in DOMAIN phrases : /\ Normal(phrases[i]) # <<>>
                            /\ \A j \in 1 .. i - 1 : Normal(phrases[j]) # Normal(phrases[i])}

\* The originals are the first phrases, normalised with their case.
LEMMA OriginalsMeans ==
    \A phrases : Originals(phrases) = {Normalize(phrases[i], KeepCase) : i \in First(phrases)}
BY Zenon DEF Originals, First, Normal, KeepCase

\* No phrase is lost: one of the same spelling is kept.
LEMMA OneIsKept ==
    ASSUME NEW phrases \in Seq(Seq(Characters)), NEW p \in ToSet(phrases), Normal(p) # <<>>
    PROVE  \E i \in First(phrases) : phrases[i] \in Seq(Characters)
                                     /\ Normal(phrases[i]) = Normal(p)
<1> DEFINE S == {i \in 1 .. Len(phrases) : Normal(phrases[i]) = Normal(p)}
<1>1. DOMAIN phrases = 1 .. Len(phrases) /\ Len(phrases) \in Nat
  BY LenProperties
<1>2. PICK k \in DOMAIN phrases : p = phrases[k]
  BY DEF ToSet
<1>3. S \in SUBSET (1 .. Len(phrases)) /\ S # {}
  BY <1>1, <1>2
<1>4. PICK i \in S : \A x \in S : i <= x
  <2> HIDE DEF S
  <2>1. 1 \in Int /\ Len(phrases) \in Int
    BY <1>1
  <2> QED BY <1>3, <2>1, SpaceFold!LeastOfInterval
<1>5. i \in 1 .. Len(phrases) /\ Normal(phrases[i]) = Normal(p)
  BY <1>4
<1>6. ASSUME NEW j \in 1 .. i - 1 PROVE Normal(phrases[j]) # Normal(phrases[i])
  <2>1. j \in 1 .. Len(phrases) /\ ~(i <= j)
    BY <1>1, <1>5
  <2>2. j \notin S
    BY <1>4, <2>1
  <2> QED BY <1>5, <2>1, <2>2
<1>7. phrases[i] \in Seq(Characters)
  BY <1>5, ElementOfSeq
<1>8. i \in First(phrases)
  BY <1>1, <1>5, <1>6, Zenon DEF First
<1> QED BY <1>5, <1>7, <1>8, Zenon

\* What is kept was listed.
LEMMA KeptIsAPhrase ==
    ASSUME NEW phrases \in Seq(Seq(Characters)), NEW i \in First(phrases)
    PROVE  phrases[i] \in ToSet(phrases) /\ phrases[i] \in Seq(Characters)
<1>1. i \in DOMAIN phrases /\ DOMAIN phrases = 1 .. Len(phrases)
  BY LenProperties DEF First
<1> QED BY <1>1, ElementOfSeq DEF ToSet

\* With words to be matched whole, segments are found exactly by the words they speak.
LEMMA FindsWords ==
    ASSUME NEW options, Whole(options),
           NEW text \in Seq(Characters), NEW phrases \in Seq(Seq(Characters))
    PROVE  Find(text, phrases, options) # {}
             <=> \E p \in ToSet(phrases) : Holds(Words(text), Words(p))
<1>1. options.boundary = "whole_word" /\ options.separator /\ ~options.caseSensitive
  BY Zenon DEF Whole
<1>2. ASSUME NEW x \in Seq(Characters)
      PROVE  /\ Normalize(x, options) = Join(Words(x))
             /\ Normalize(x, KeepCase) \in Seq(Characters)
             /\ Normalize(Normalize(x, KeepCase), options) = Join(Words(x))
             /\ Words(x) \in Seq(Word)
  <2>1. /\ Normalize(x, KeepCase) \in Seq(Characters)
        /\ Words(Normalize(x, KeepCase)) = Words(x)
    BY NormalizeKeepsWords, Zenon
  <2> QED BY <1>1, <2>1, NormalizeWhole, WordsType, Zenon
<1>3. ASSUME NEW W \in Seq(Word) PROVE Join(W) = <<>> <=> W = <<>>
  BY JoinIsText, JoinOfNothing, Zenon
<1>4. ASSUME NEW W \in Seq(Word), W # <<>>
      PROVE  Matches(Normalize(text, options), Join(W), options.boundary)
               <=> Holds(Words(text), W)
  BY <1>1, <1>2, <1>4, WholeMatch, Zenon
<1>5. ASSUME NEW q \in Effective(phrases, options),
             Matches(Normalize(text, options), q, options.boundary)
      PROVE  \E p \in ToSet(phrases) : Holds(Words(text), Words(p))
  <2>1. PICK o \in Originals(phrases) : q = Normalize(o, options) /\ q # <<>>
    BY DEF Effective
  <2>2. PICK i \in First(phrases) : o = Normalize(phrases[i], KeepCase)
    BY OriginalsMeans
  <2>3. phrases[i] \in ToSet(phrases) /\ phrases[i] \in Seq(Characters)
    BY KeptIsAPhrase
  <2>4. q = Join(Words(phrases[i])) /\ Words(phrases[i]) \in Seq(Word)
    BY <1>2, <2>1, <2>2, <2>3, Zenon
  <2>5. Words(phrases[i]) # <<>>
    BY <1>3, <2>1, <2>4, Zenon
  <2>6. Holds(Words(text), Words(phrases[i]))
    BY <1>4, <1>5, <2>4, <2>5, Zenon
  <2> QED BY <2>3, <2>6, Zenon
<1>6. ASSUME NEW p \in ToSet(phrases), Holds(Words(text), Words(p))
      PROVE  \E q \in Effective(phrases, options) :
               Matches(Normalize(text, options), q, options.boundary)
  <2>1. p \in Seq(Characters) /\ Words(p) # <<>>
    <3>1. p \in Seq(Characters)
      BY LenProperties, ElementOfSeq DEF ToSet
    <3> QED BY <1>6, <3>1 DEF Holds
  <2>2. Normal(p) \in Seq(Characters) /\ Words(Normal(p)) = Words(p)
    BY <2>1, NormalizeKeepsWords, Zenon DEF Normal
  <2>3. Normal(p) # <<>>
    BY <2>1, <2>2, WordsOfNothing, Zenon
  <2>4. PICK i \in First(phrases) : phrases[i] \in Seq(Characters) /\ Normal(phrases[i]) = Normal(p)
    BY <2>3, OneIsKept, Zenon
  <2>5. Words(phrases[i]) = Words(p)
    BY <2>2, <2>4, NormalizeKeepsWords, Zenon DEF Normal
  <2> DEFINE q == Normalize(Normalize(phrases[i], KeepCase), options)
  <2>6. q = Join(Words(p)) /\ Words(p) \in Seq(Word)
    BY <1>2, <2>1, <2>4, <2>5, Zenon
  <2>7. q # <<>>
    BY <1>3, <2>1, <2>6, Zenon
  <2>8. Normalize(phrases[i], KeepCase) \in Originals(phrases)
    BY OriginalsMeans
  <2>9. q \in Effective(phrases, options)
    BY <2>7, <2>8 DEF Effective
  <2>10. Matches(Normalize(text, options), Join(Words(p)), options.boundary)
    BY <1>4, <1>6, <2>1, <2>6, Zenon
  <2> HIDE DEF q
  <2> QED BY <2>6, <2>9, <2>10, Zenon
<1>7. Find(text, phrases, options) # {}
        <=> \E q \in Effective(phrases, options) :
              Matches(Normalize(text, options), q, options.boundary)
  BY FindMeans, Zenon
<1> QED BY <1>5, <1>6, <1>7, Zenon

-----------------------------------------------------------------------------
(* A phrase that is spoken as it is listed.                                  *)

\* Without a space at either end, as trim() leaves an entry.
Bare(p) == p # <<>> /\ ~IsSpace(p[1]) /\ ~IsSpace(Last(p))

\* What is read is not changed by what is read after it.
LEMMA SpacedGrows ==
    ASSUME NEW options, NEW w \in Seq(Characters), NEW v \in Seq(Characters)
    PROVE  \E z \in Seq(Characters) : Spaced(w \o v, options) = Spaced(w, options) \o z
<1> DEFINE s == Spaced(w, options)
           Grown(t) == \E z \in Seq(Characters) : Spaced(w \o t, options) = s \o z
           P == {t \in Seq(Characters) : Grown(t)}
<1>0. s \in Seq(Characters)
  BY SpacedKeepsWords, Zenon
<1>1. <<>> \in P
  <2>1. w \o <<>> = w
    BY ConcatEmptySeq
  <2>2. s \o <<>> = s /\ <<>> \in Seq(Characters)
    <3> HIDE DEF s
    <3> QED BY <1>0, ConcatEmptySeq, EmptySeq
  <2> QED BY <2>1, <2>2, Zenon
<1>2. ASSUME NEW t \in Seq(Characters), NEW c \in Characters, t \in P PROVE Append(t, c) \in P
  <2>1. PICK z \in Seq(Characters) : Spaced(w \o t, options) = s \o z
    BY <1>2
  <2>2. w \o Append(t, c) = Append(w \o t, c) /\ w \o t \in Seq(Characters)
    BY ConcatAppend, ConcatProperties
  <2>3. Append(t, c) \in Seq(Characters)
    BY AppendProperties
  <2>4. \A x : \/ Spaced(Append(w \o t, c), options) = Append(Spaced(w \o t, options), Shown(c, options))
               \/ Spaced(Append(w \o t, c), options) = Spaced(w \o t, options)
               \/ Spaced(Append(w \o t, c), options) = Append(Spaced(w \o t, options), " ")
    BY <2>2, SpacedStep, Zenon
  <2>5. Shown(c, options) \in Characters /\ " " \in Characters
    BY ShownCharacter DEF Characters
  <2>6. \E e \in Characters :
          \/ Spaced(Append(w \o t, c), options) = Spaced(w \o t, options)
          \/ Spaced(Append(w \o t, c), options) = Append(Spaced(w \o t, options), e)
    BY <2>4, <2>5, Zenon
  <2>7. PICK e \in Characters :
          \/ Spaced(w \o Append(t, c), options) = s \o z
          \/ Spaced(w \o Append(t, c), options) = Append(s \o z, e)
    BY <2>1, <2>2, <2>6
  <2>8. Append(s \o z, e) = s \o Append(z, e) /\ Append(z, e) \in Seq(Characters)
    <3> HIDE DEF s
    <3>1. s \o Append(z, e) = Append(s \o z, e)
      BY <1>0, ConcatAppend
    <3>2. Append(z, e) \in Seq(Characters)
      BY AppendProperties
    <3> QED BY <3>1, <3>2
  <2>9. Grown(Append(t, c))
    <3> HIDE DEF s
    <3> QED BY <2>7, <2>8
  <2> HIDE DEF Grown
  <2> QED BY <2>3, <2>9
<1>3. Seq(Characters) \subseteq P
  <2> HIDE DEF P
  <2> QED BY <1>1, <1>2, SpaceFold!SequenceInduction
<1> HIDE DEF s
<1> QED BY <1>3 DEF s

\* What begins with a character that is shown is read alike wherever it stands.
LEMMA SpacedAlike ==
    ASSUME NEW options, NEW u \in Seq(Characters), NEW p \in Seq(Characters),
           p # <<>>, ~Separates(p[1], options)
    PROVE  /\ Spaced(u \o p, options) = Spaced(u, options) \o Spaced(p, options)
           /\ Spaced(p, options) # <<>>
<1> DEFINE s == Spaced(u, options)
           Alike(t) == /\ Spaced(u \o t, options) = s \o Spaced(t, options)
                       /\ Spaced(t, options) # <<>>
           Begins(t) == t # <<>> /\ ~Separates(t[1], options)
           P == {t \in Seq(Characters) : Begins(t) => Alike(t)}
<1>0. s \in Seq(Characters)
  BY SpacedKeepsWords, Zenon
<1>1. <<>> \in P
  BY EmptySeq
<1>2. ASSUME NEW t \in Seq(Characters), NEW c \in Characters, t \in P PROVE Append(t, c) \in P
  <2> DEFINE q == Spaced(t, options)
             a == Append(t, c)
  <2>1. a \in Seq(Characters)
    BY AppendProperties
  <2>2. u \o a = Append(u \o t, c) /\ u \o t \in Seq(Characters)
    BY ConcatAppend, ConcatProperties
  <2>3. q \in Seq(Characters)
    BY SpacedKeepsWords, Zenon
  <2>4. ASSUME Begins(a) PROVE Alike(a)
    <3>1. CASE t = <<>>
      <4>1. ~Separates(c, options)
        <5>1. a[1] = c
          BY <3>1
        <5> QED BY <2>4, <5>1
      <4>2. u \o t = u
        BY <3>1, ConcatEmptySeq
      <4>3. Spaced(u \o a, options) = Append(s, Shown(c, options))
        BY <2>2, <4>1, <4>2, SpacedStep, Zenon
      <4>4. Spaced(a, options) = Append(q, Shown(c, options)) /\ q = <<>>
        BY <3>1, <4>1, SpacedStep, SpacedOfNothing, Zenon
      <4>5. Shown(c, options) \in Characters
        BY ShownCharacter
      <4> HIDE DEF q, s, a
      <4>6. Append(q, Shown(c, options)) # <<>>
        BY <2>3, <4>5, AppendedEnds
      <4>7. s \o Append(q, Shown(c, options)) = Append(s, Shown(c, options))
        <5>1. s \o Append(q, Shown(c, options)) = Append(s \o q, Shown(c, options))
          BY <1>0, <2>3, <4>5, ConcatAppend
        <5>2. s \o q = s
          BY <1>0, <4>4, ConcatEmptySeq
        <5> QED BY <5>1, <5>2
      <4> QED BY <4>3, <4>4, <4>6, <4>7
    <3>2. CASE t # <<>>
      <4>1. Begins(t)
        <5>1. a[1] = t[1]
          BY <3>2, LenProperties, EmptySeq, AppendProperties
        <5> QED BY <2>4, <3>2, <5>1
      <4>2. Spaced(u \o t, options) = s \o q /\ q # <<>>
        BY <1>2, <4>1
      <4>3. Last(s \o q) = Last(q) /\ s \o q # <<>> /\ s \o q \in Seq(Characters)
        <5> HIDE DEF s, q
        <5> QED BY <1>0, <2>3, <4>2, ConcatLast
      <4>4. Open(Spaced(u \o t, options)) <=> Open(q)
        BY <4>2, <4>3, Zenon DEF Open
      <4>5. \/ /\ Spaced(u \o a, options) = Append(s \o q, Shown(c, options))
               /\ Spaced(a, options) = Append(q, Shown(c, options))
            \/ /\ Spaced(u \o a, options) = s \o q
               /\ Spaced(a, options) = q
            \/ /\ Spaced(u \o a, options) = Append(s \o q, " ")
               /\ Spaced(a, options) = Append(q, " ")
        BY <2>2, <4>2, <4>4, SpacedStep, Zenon
      <4>6. Shown(c, options) \in Characters /\ " " \in Characters
        BY ShownCharacter DEF Characters
      <4>7. PICK e \in Characters :
              \/ /\ Spaced(u \o a, options) = s \o q
                 /\ Spaced(a, options) = q
              \/ /\ Spaced(u \o a, options) = Append(s \o q, e)
                 /\ Spaced(a, options) = Append(q, e)
        BY <4>5, <4>6, Zenon
      <4> HIDE DEF s, q, a
      <4>8. s \o Append(q, e) = Append(s \o q, e)
        BY <1>0, <2>3, ConcatAppend
      <4>9. Append(q, e) # <<>>
        BY <2>3, AppendedEnds
      <4> QED BY <4>2, <4>7, <4>8, <4>9
    <3> QED BY <3>1, <3>2
  <2> HIDE DEF Begins, Alike, a
  <2>5. a \in P
    BY <2>1, <2>4
  <2> QED BY <2>5 DEF a
<1>3. Seq(Characters) \subseteq P
  <2> HIDE DEF P
  <2> QED BY <1>1, <1>2, SpaceFold!SequenceInduction
<1>4. Begins(p) => Alike(p)
  <2> HIDE DEF Begins, Alike
  <2> QED BY <1>3
<1> QED BY <1>4, Zenon

\* A bare phrase keeps its last character.
LEMMA SpacedBare ==
    ASSUME NEW p \in Seq(Characters), Bare(p)
    PROVE  /\ Normal(p) = Spaced(p, DefaultOptions)
           /\ Normal(p) \in Seq(Characters) /\ Normal(p) # <<>> /\ Last(Normal(p)) # " "
           /\ ~Separates(p[1], DefaultOptions)
<1>1. p # <<>> /\ ~IsSpace(p[1]) /\ ~IsSpace(Last(p))
  BY DEF Bare
<1>2. ~Separates(p[1], DefaultOptions)
  BY <1>1, TheOptions
<1>3. PICK x \in Seq(Characters), c \in Characters : p = Append(x, c)
  BY <1>1, SequenceEmptyOrAppend
<1>4. Last(p) = c
  BY <1>3, AppendedEnds
<1> DEFINE s == Spaced(x, DefaultOptions)
           d == Shown(c, DefaultOptions)
<1>5. ~Separates(c, DefaultOptions)
  BY <1>1, <1>4, TheOptions
<1>6. Spaced(p, DefaultOptions) = Append(s, d)
  BY <1>3, <1>5, SpacedStep, Zenon
<1>7. s \in Seq(Characters) /\ d \in Characters /\ d # " "
  <2>1. s \in Seq(Characters)
    BY SpacedKeepsWords, Zenon
  <2>2. d \in Characters /\ d # " "
    BY <1>5, ShownCharacter, Zenon
  <2> QED BY <2>1, <2>2
<1>8. Append(s, d) \in Seq(Characters) /\ Append(s, d) # <<>> /\ Last(Append(s, d)) = d
  <2>1. s \in Seq(Characters) /\ d \in Characters
    BY <1>7
  <2> HIDE DEF s, d
  <2> QED BY <2>1, AppendedEnds
<1>9. Normal(p) = Append(s, d)
  BY <1>6, <1>7, <1>8, NormalizeUnfolded, Zenon DEF Normal
<1> QED BY <1>2, <1>6, <1>7, <1>8, <1>9, Zenon

\* A bare phrase in a text is there when both are normalised.
LEMMA HeldLiterally ==
    ASSUME NEW text \in Seq(Characters), NEW p \in Seq(Characters), Bare(p), Holds(text, p)
    PROVE  Holds(Normal(text), Normal(p))
<1> DEFINE n == Normal(p)
           N == Normal(text)
           S(t) == Spaced(t, DefaultOptions)
<1>1. n = S(p) /\ n \in Seq(Characters) /\ n # <<>> /\ Last(n) # " "
      /\ ~Separates(p[1], DefaultOptions) /\ p # <<>>
  BY SpacedBare, Zenon DEF Bare
<1>2. PICK u \in Seq(Characters), v \in Seq(Characters) : MadeOf(text, u, p, v)
  BY <1>1, HoldsMeans, Zenon
<1>3. S(u \o p) = S(u) \o n
  <2>1. S(u \o p) = S(u) \o S(p)
    BY <1>1, SpacedAlike
  <2> QED BY <1>1, <2>1
<1>4. S(u) \in Seq(Characters)
  BY SpacedKeepsWords, Zenon
<1>5. PICK z \in Seq(Characters) : S(text) = (S(u) \o n) \o z
  <2>1. u \o p \in Seq(Characters)
    BY ConcatProperties
  <2>2. \E z \in Seq(Characters) : S((u \o p) \o v) = S(u \o p) \o z
    <3> DEFINE w == u \o p
    <3>1. w \in Seq(Characters)
      BY <2>1
    <3> HIDE DEF w
    <3>2. \E z \in Seq(Characters) : S(w \o v) = S(w) \o z
      BY <3>1, SpacedGrows
    <3> QED BY <3>2 DEF w
  <2>3. text = (u \o p) \o v
    BY <1>2 DEF MadeOf
  <2> HIDE DEF S, n
  <2> QED BY <1>3, <2>2, <2>3
<1>6. N \in Seq(Characters) /\ (N = S(text) \/ Append(N, " ") = S(text))
  BY NormalizeIs, Zenon DEF Normal
<1>s. PICK s \in Seq(Characters) : s = S(u)
  BY <1>4
<1> DEFINE x == s \o n
<1>x. x \in Seq(Characters) /\ x # <<>> /\ Last(x) = Last(n)
  <2>1. n \in Seq(Characters) /\ n # <<>>
    BY <1>1
  <2> HIDE DEF n
  <2> QED BY <2>1, ConcatLast
<1>t. S(text) = x \o z
  BY <1>5, <1>s
<1>7. \E y \in Seq(Characters) : MadeOf(N, s, n, y)
  <2>1. CASE N = S(text)
    BY <1>t, <2>1 DEF MadeOf
  <2>2. CASE Append(N, " ") = S(text)
    <3> DEFINE space == " "
    <3>0. space \in Characters /\ Append(N, space) = x \o z /\ Last(x) # space
      BY <1>1, <1>x, <1>t, <2>2 DEF Characters
    <3> HIDE DEF space, S, N, n, x
    <3>1. Last(Append(N, space)) = space /\ Front(Append(N, space)) = N
      <4>1. N \in Seq(Characters)
        BY <1>6
      <4> QED BY <3>0, <4>1, AppendedEnds
    <3>2. z # <<>>
      <4>1. SUFFICES ASSUME z = <<>> PROVE FALSE
        OBVIOUS
      <4>2. x \o z = x
        BY <1>x, <4>1, ConcatEmptySeq
      <4> QED BY <3>0, <3>1, <4>2
    <3>3. PICK y \in Seq(Characters), e \in Characters : z = Append(y, e)
      BY <3>2, SequenceEmptyOrAppend
    <3>4. x \o Append(y, e) = Append(x \o y, e) /\ x \o y \in Seq(Characters)
      <4>1. x \in Seq(Characters)
        BY <1>x
      <4>2. x \o Append(y, e) = Append(x \o y, e)
        BY <4>1, ConcatAppend
      <4>3. x \o y \in Seq(Characters)
        BY <4>1, ConcatProperties
      <4> QED BY <4>2, <4>3
    <3>5. Front(Append(x \o y, e)) = x \o y
      BY <3>4, AppendedEnds
    <3>6. N = x \o y
      BY <3>0, <3>1, <3>3, <3>4, <3>5
    <3> QED BY <3>6 DEF MadeOf, x
  <2> QED BY <1>6, <2>1, <2>2
<1> HIDE DEF N, n, S
<1>8. n \in Seq(Characters) /\ n # <<>>
  BY <1>1
<1>9. N \in Seq(Characters)
  BY <1>6
<1>10. Holds(N, n)
  BY <1>7, <1>8, <1>9, <1>s, HoldsMeans, Zenon
<1> QED BY <1>10 DEF N, n

\* A listed phrase that is spoken as it is listed is found.
LEMMA FindsLiterally ==
    ASSUME NEW text \in Seq(Characters), NEW phrases \in Seq(Seq(Characters)),
           NEW p \in ToSet(phrases), Bare(p), Holds(text, p)
    PROVE  Find(text, phrases, DefaultOptions) # {}
<1>1. p \in Seq(Characters)
  BY LenProperties, ElementOfSeq DEF ToSet
<1>2. Normal(p) \in Seq(Characters) /\ Normal(p) # <<>>
  BY <1>1, SpacedBare
<1>3. PICK i \in First(phrases) : phrases[i] \in Seq(Characters) /\ Normal(phrases[i]) = Normal(p)
  BY <1>2, OneIsKept, Zenon
<1>4. Normalize(Normalize(phrases[i], KeepCase), DefaultOptions) = Normal(p)
  BY <1>3, NormalizeTwice, Zenon DEF Normal
<1>5. Normalize(phrases[i], KeepCase) \in Originals(phrases)
  BY OriginalsMeans
<1>6. Normal(p) \in Effective(phrases, DefaultOptions)
  BY <1>2, <1>4, <1>5 DEF Effective
<1>7. Holds(Normal(text), Normal(p))
  BY <1>1, HeldLiterally
<1>8. Matches(Normal(text), Normal(p), DefaultOptions.boundary)
  <2>1. Normal(text) \in Seq(Characters)
    BY NormalizeKeepsWords, Zenon DEF Normal
  <2>2. Len(Normal(text)) \in Nat /\ Len(Normal(p)) \in Nat
    BY <1>2, <2>1, LenProperties
  <2>3. PICK k \in 0 .. Len(Normal(text)) - Len(Normal(p)) :
          SubSeq(Normal(text), k + 1, k + Len(Normal(p))) = Normal(p)
    BY <1>7 DEF Holds
  <2>4. k \in 0 .. Len(Normal(text)) /\ k + Len(Normal(p)) <= Len(Normal(text))
    BY <2>2
  <2>5. RespectsBoundary(Normal(text), k, Len(Normal(p)), DefaultOptions.boundary)
    BY TheOptions, Zenon DEF RespectsBoundary
  <2> QED BY <2>3, <2>4, <2>5 DEF Matches, Match
<1> QED BY <1>6, <1>8, FindMeans, Zenon DEF Normal

-----------------------------------------------------------------------------
(* The list of phrases.                                                      *)

\* One character of the list: after the end of a phrase the next part begins.
PartStep(unused, parts, c) ==
    IF EndsPhrase(c) THEN Append(parts, <<>>) ELSE [parts EXCEPT ![Len(parts)] = Append(@, c)]

PartFold == INSTANCE FoldFacts WITH Step <- PartStep, Base <- <<(<<>>)>>

\* One part of the list: kept when something is left of it.
KeepStep(unused, done, part) ==
    IF Trimmed(part) = <<>> THEN done ELSE Append(done, Trimmed(part))

KeepFold == INSTANCE FoldFacts WITH Step <- KeepStep, Base <- <<>>

\* SplitPhrases folds the one, then the other.
LEMMA SplitIsFolded ==
    \A listed : SplitPhrases(listed) = KeepFold!Fold(0, PartFold!Fold(0, listed))
BY Zenon DEF SplitPhrases, PartStep, KeepStep, FoldLeft, MapThenFoldSet, Max,
             KeepFold!Fold, KeepFold!FoldLeft, KeepFold!MapThenFoldSet, KeepFold!Max,
             PartFold!Fold, PartFold!FoldLeft, PartFold!MapThenFoldSet, PartFold!Max

\* What is kept of the parts.
LEMMA KeptParts ==
    ASSUME NEW E, NEW parts \in Seq(E), \A x \in E : Trimmed(x) \in E
    PROVE  /\ KeepFold!Fold(0, parts) \in Seq(E)
           /\ ToSet(KeepFold!Fold(0, parts)) = {Trimmed(x) : x \in ToSet(parts)} \ {<<>>}
<1> DEFINE K(s) == KeepFold!Fold(0, s)
           T(s) == {Trimmed(x) : x \in ToSet(s)} \ {<<>>}
           P == {s \in Seq(E) : K(s) \in Seq(E) /\ ToSet(K(s)) = T(s)}
<1>0. ASSUME NEW s \in Seq(E), NEW e \in E
      PROVE  Append(s, e) \in Seq(E) /\ ToSet(Append(s, e)) = ToSet(s) \cup {e}
  <2>1. /\ Append(s, e) \in Seq(E) /\ Len(Append(s, e)) = Len(s) + 1
        /\ \A i \in 1 .. Len(s) : Append(s, e)[i] = s[i]
        /\ Append(s, e)[Len(s) + 1] = e
    BY AppendProperties
  <2>2. Len(s) \in Nat /\ DOMAIN s = 1 .. Len(s)
        /\ DOMAIN Append(s, e) = 1 .. Len(Append(s, e))
    BY <2>1, LenProperties
  <2> HIDE DEF P
  <2> QED BY <2>1, <2>2 DEF ToSet
<1>1. <<>> \in P
  <2>1. K(<<>>) = <<>>
    BY KeepFold!FoldEmpty
  <2>2. <<>> \in Seq(E) /\ ToSet(<<>>) = {}
    BY EmptySeq DEF ToSet
  <2> QED BY <2>1, <2>2
<1>2. ASSUME NEW s \in Seq(E), NEW e \in E, s \in P PROVE Append(s, e) \in P
  <2>1. K(Append(s, e)) = KeepStep(0, K(s), e)
    BY KeepFold!FoldAppend
  <2>2. K(s) \in Seq(E) /\ ToSet(K(s)) = T(s)
    BY <1>2
  <2>3. T(Append(s, e)) = T(s) \cup ({Trimmed(e)} \ {<<>>})
    <3>1. ToSet(Append(s, e)) = ToSet(s) \cup {e}
      BY <1>0
    <3> QED BY <3>1
  <2> HIDE DEF K, T
  <2>4. CASE Trimmed(e) = <<>>
    BY <1>0, <2>1, <2>2, <2>3, <2>4 DEF KeepStep
  <2>5. CASE Trimmed(e) # <<>>
    <3>1. K(Append(s, e)) = Append(K(s), Trimmed(e))
      BY <2>1, <2>5 DEF KeepStep
    <3>2. Append(K(s), Trimmed(e)) \in Seq(E)
          /\ ToSet(Append(K(s), Trimmed(e))) = ToSet(K(s)) \cup {Trimmed(e)}
      BY <1>0, <2>2
    <3>3. {Trimmed(e)} \ {<<>>} = {Trimmed(e)}
      BY <2>5
    <3>4. K(Append(s, e)) \in Seq(E) /\ ToSet(K(Append(s, e))) = T(Append(s, e))
      BY <2>2, <2>3, <3>1, <3>2, <3>3, Zenon
    <3>5. Append(s, e) \in Seq(E)
      BY <1>0
    <3> QED BY <3>4, <3>5, Zenon
  <2> QED BY <2>4, <2>5
<1>3. Seq(E) \subseteq P
  <2> HIDE DEF P
  <2> QED BY <1>1, <1>2, KeepFold!SequenceInduction
<1> QED BY <1>3

-----------------------------------------------------------------------------
(* Cuts.                                                                     *)

\* The list is cut where a phrase ends and at both its own ends.
IsCut(listed, i) == i = 0 \/ i = Len(listed) + 1 \/ EndsPhrase(listed[i])

\* Between two cuts, with none in between.
Cuts(listed, n) ==
    {q \in (0 .. Len(listed)) \X (1 .. n) :
       /\ q[1] < q[2] /\ IsCut(listed, q[1]) /\ IsCut(listed, q[2])
       /\ \A k \in q[1] + 1 .. q[2] - 1 : ~IsCut(listed, k)}

\* What stands between two cuts.
Part(listed, a, b) == SubSeq(listed, a + 1, b - 1)

\* The parts that end at or before n.
PartsOf(listed, n) == {Part(listed, q[1], q[2]) : q \in Cuts(listed, n)}

\* What was read of the list: whole parts and the beginning of one.
PartsRead(listed, n, done, a) ==
    /\ done \in Seq(Seq(Characters)) /\ ToSet(done) = PartsOf(listed, n)
    /\ a \in 0 .. n /\ IsCut(listed, a) /\ \A k \in a + 1 .. n : ~IsCut(listed, k)
    /\ PartFold!Fold(0, SubSeq(listed, 1, n)) = Append(done, SubSeq(listed, a + 1, n))

\* One cut more is one part more.
LEMMA CutsGrow ==
    ASSUME NEW listed \in Seq(Characters), NEW n \in 0 .. Len(listed), NEW a \in 0 .. n,
           IsCut(listed, a), \A k \in a + 1 .. n : ~IsCut(listed, k)
    PROVE  /\ IsCut(listed, n + 1) =>
                PartsOf(listed, n + 1) = PartsOf(listed, n) \cup {SubSeq(listed, a + 1, n)}
           /\ ~IsCut(listed, n + 1) => PartsOf(listed, n + 1) = PartsOf(listed, n)
<1>1. Len(listed) \in Nat /\ n \in Nat /\ a \in Nat
  BY LenProperties
<1>2. ASSUME NEW q \in Cuts(listed, n + 1), q \notin Cuts(listed, n)
      PROVE  IsCut(listed, n + 1) /\ q[1] = a /\ q[2] = n + 1
  <2>1. /\ q[1] \in 0 .. Len(listed) /\ q[2] \in 1 .. n + 1 /\ q = <<q[1], q[2]>>
        /\ q[1] < q[2] /\ IsCut(listed, q[1]) /\ IsCut(listed, q[2])
        /\ \A k \in q[1] + 1 .. q[2] - 1 : ~IsCut(listed, k)
    BY DEF Cuts
  <2>2. q[2] = n + 1
    <3>1. SUFFICES ASSUME q[2] # n + 1 PROVE FALSE
      OBVIOUS
    <3>2. q[2] \in 1 .. n
      BY <1>1, <2>1, <3>1
    <3>3. q \in Cuts(listed, n)
      BY <2>1, <3>2 DEF Cuts
    <3> QED BY <1>2, <3>3
  <2>3. q[1] = a
    <3>1. ~(q[1] < a)
      <4>1. SUFFICES ASSUME q[1] < a PROVE FALSE
        OBVIOUS
      <4>2. a \in q[1] + 1 .. q[2] - 1
        BY <1>1, <2>1, <2>2, <4>1
      <4> QED BY <2>1, <4>2
    <3>2. ~(q[1] > a)
      <4>1. SUFFICES ASSUME q[1] > a PROVE FALSE
        OBVIOUS
      <4>2. q[1] \in a + 1 .. n
        BY <1>1, <2>1, <2>2, <4>1
      <4> QED BY <2>1, <4>2
    <3> QED BY <1>1, <2>1, <3>1, <3>2
  <2> QED BY <2>1, <2>2, <2>3
<1>3. Cuts(listed, n) \subseteq Cuts(listed, n + 1)
  BY <1>1 DEF Cuts
<1>4. ASSUME IsCut(listed, n + 1) PROVE <<a, n + 1>> \in Cuts(listed, n + 1)
  <2>1. <<a, n + 1>> \in (0 .. Len(listed)) \X (1 .. n + 1) /\ a < n + 1
        /\ a + 1 .. (n + 1) - 1 = a + 1 .. n
    BY <1>1
  <2> QED BY <1>4, <2>1 DEF Cuts
<1>5. Part(listed, a, n + 1) = SubSeq(listed, a + 1, n)
  <2>1. (n + 1) - 1 = n
    BY <1>1
  <2> QED BY <2>1 DEF Part
<1>6. ASSUME ~IsCut(listed, n + 1) PROVE Cuts(listed, n + 1) = Cuts(listed, n)
  BY <1>2, <1>3, <1>6
<1>7. ASSUME IsCut(listed, n + 1)
      PROVE  PartsOf(listed, n + 1) = PartsOf(listed, n) \cup {SubSeq(listed, a + 1, n)}
  <2>1. ASSUME NEW q \in Cuts(listed, n + 1)
        PROVE  Part(listed, q[1], q[2]) \in PartsOf(listed, n) \cup {SubSeq(listed, a + 1, n)}
    <3>1. CASE q \in Cuts(listed, n)
      BY <3>1 DEF PartsOf
    <3>2. CASE q \notin Cuts(listed, n)
      <4>1. q[1] = a /\ q[2] = n + 1
        BY <1>2, <3>2
      <4> QED BY <1>5, <4>1
    <3> QED BY <3>1, <3>2
  <2>2. SubSeq(listed, a + 1, n) \in PartsOf(listed, n + 1)
    <3> DEFINE q == <<a, n + 1>>
    <3>1. q \in Cuts(listed, n + 1) /\ q[1] = a /\ q[2] = n + 1
      BY <1>4, <1>7
    <3> HIDE DEF q
    <3> QED BY <1>5, <3>1 DEF PartsOf
  <2>3. PartsOf(listed, n) \subseteq PartsOf(listed, n + 1)
    BY <1>3 DEF PartsOf
  <2>4. PartsOf(listed, n + 1) \subseteq PartsOf(listed, n) \cup {SubSeq(listed, a + 1, n)}
    BY <2>1 DEF PartsOf
  <2> QED BY <2>2, <2>3, <2>4
<1> QED BY <1>6, <1>7 DEF PartsOf

\* The last element of a sequence is replaced.
LEMMA LastReplaced ==
    ASSUME NEW E, NEW s \in Seq(E), NEW l \in E, NEW x \in E
    PROVE  [Append(s, l) EXCEPT ![Len(Append(s, l))] = x] = Append(s, x)
<1> DEFINE d == Append(s, l)
           w == Append(s, x)
           t == [d EXCEPT ![Len(d)] = x]
<1>1. /\ d \in Seq(E) /\ Len(s) \in Nat /\ Len(d) = Len(s) + 1
      /\ \A i \in 1 .. Len(s) : d[i] = s[i]
  BY AppendProperties, LenProperties
<1>2. /\ w \in Seq(E) /\ Len(w) = Len(s) + 1 /\ w[Len(s) + 1] = x
      /\ \A i \in 1 .. Len(s) : w[i] = s[i]
  BY AppendProperties
<1> HIDE DEF d, w
<1>3. /\ t \in Seq(E) /\ Len(t) = Len(d)
      /\ \A i \in 1 .. Len(d) : t[i] = IF i = Len(d) THEN x ELSE d[i]
  <2>1. Len(d) \in 1 .. Len(d)
    BY <1>1
  <2> QED BY <1>1, <2>1, ExceptSeq
<1> HIDE DEF t
<1>4. ASSUME NEW i \in 1 .. Len(t) PROVE t[i] = w[i]
  <2>1. t[i] = IF i = Len(d) THEN x ELSE d[i]
    BY <1>3
  <2>2. CASE i = Len(d)
    BY <1>1, <1>2, <2>1, <2>2
  <2>3. CASE i # Len(d)
    <3>1. i \in 1 .. Len(s)
      BY <1>1, <1>3, <2>3
    <3> QED BY <1>1, <1>2, <2>1, <2>3, <3>1
  <2> QED BY <2>2, <2>3
<1>5. Len(t) = Len(w)
  BY <1>1, <1>2, <1>3
<1>6. t = w
  BY <1>2, <1>3, <1>4, <1>5, SeqEqual
<1> QED BY <1>6 DEF t, w, d

\* A part of a sequence, and the next element.
LEMMA PartGrows ==
    ASSUME NEW E, NEW s \in Seq(E), NEW n \in 0 .. Len(s) - 1, NEW a \in 0 .. n
    PROVE  /\ SubSeq(s, a + 1, n) \in Seq(E) /\ s[n + 1] \in E
           /\ SubSeq(s, a + 1, n + 1) = Append(SubSeq(s, a + 1, n), s[n + 1])
<1>1. Len(s) \in Nat /\ n \in Nat /\ a \in Nat
  BY LenProperties
<1>2. SubSeq(s, a + 1, n) \in Seq(E)
  <2>1. \A i \in a + 1 .. n : s[i] \in E
    <3>1. \A i \in a + 1 .. n : i \in 1 .. Len(s)
      BY <1>1
    <3> QED BY <3>1, ElementOfSeq
  <2>2. a + 1 \in Int /\ n \in Int
    BY <1>1
  <2> QED BY <2>1, <2>2, SubSeqProperties
<1>3. s[n + 1] \in E
  <2>1. n + 1 \in 1 .. Len(s)
    BY <1>1
  <2> QED BY <2>1, ElementOfSeq
<1>4. SubSeq(s, a + 1, n + 1) = SubSeq(s, a + 1, n) \o <<s[n + 1]>>
  <2>1. a + 1 \in 1 .. Len(s) /\ n + 1 \in a + 1 .. Len(s) /\ (n + 1) - 1 = n
    BY <1>1
  <2>2. SubSeq(s, a + 1, n + 1) = SubSeq(s, a + 1, (n + 1) - 1) \o <<s[n + 1]>>
    BY <2>1, SubSeqRecursiveSecond
  <2> QED BY <2>1, <2>2
<1>5. Append(SubSeq(s, a + 1, n), s[n + 1]) = SubSeq(s, a + 1, n) \o <<s[n + 1]>>
  BY <1>2, <1>3, AppendIsConcat
<1> QED BY <1>2, <1>3, <1>4, <1>5

\* An appended element joins the set.
LEMMA AppendedSet ==
    ASSUME NEW E, NEW s \in Seq(E), NEW e \in E
    PROVE  ToSet(Append(s, e)) = ToSet(s) \cup {e}
<1>1. /\ Append(s, e) \in Seq(E) /\ Len(Append(s, e)) = Len(s) + 1
      /\ \A i \in 1 .. Len(s) : Append(s, e)[i] = s[i]
      /\ Append(s, e)[Len(s) + 1] = e
  BY AppendProperties
<1>2. Len(s) \in Nat /\ DOMAIN s = 1 .. Len(s)
      /\ DOMAIN Append(s, e) = 1 .. Len(Append(s, e))
  BY <1>1, LenProperties
<1> QED BY <1>1, <1>2 DEF ToSet

\* Before the first character the first part is empty and not ended.
LEMMA NoPartIsRead ==
    ASSUME NEW listed \in Seq(Characters) PROVE PartsRead(listed, 0, <<>>, 0)
<1>1. Cuts(listed, 0) = {}
  BY DEF Cuts
<1>2. <<>> \in Seq(Seq(Characters)) /\ ToSet(<<>>) = {}
  BY EmptySeq DEF ToSet
<1>3. PartsOf(listed, 0) = {}
  BY <1>1 DEF PartsOf
<1>4. PartFold!Fold(0, SubSeq(listed, 1, 0)) = <<(<<>>)>>
  BY PartFold!FoldPrefix
<1>5. SubSeq(listed, 0 + 1, 0) = <<>>
  BY SubSeqEmpty
<1>6. Append(<<>>, SubSeq(listed, 0 + 1, 0)) = <<(<<>>)>>
  BY <1>5
<1>7. 0 \in 0 .. 0 /\ IsCut(listed, 0) /\ \A k \in 0 + 1 .. 0 : ~IsCut(listed, k)
  BY DEF IsCut
<1> QED BY <1>2, <1>3, <1>4, <1>6, <1>7 DEF PartsRead

\* One more character ends a part or grows it.
LEMMA PartReadOneMore ==
    ASSUME NEW listed \in Seq(Characters), NEW n \in 0 .. Len(listed) - 1,
           NEW done, NEW a, PartsRead(listed, n, done, a)
    PROVE  \E d, b : PartsRead(listed, n + 1, d, b)
<1> DEFINE last == SubSeq(listed, a + 1, n)
           c == listed[n + 1]
<1>1. /\ done \in Seq(Seq(Characters)) /\ ToSet(done) = PartsOf(listed, n)
      /\ a \in 0 .. n /\ IsCut(listed, a) /\ \A k \in a + 1 .. n : ~IsCut(listed, k)
      /\ PartFold!Fold(0, SubSeq(listed, 1, n)) = Append(done, last)
  BY DEF PartsRead
<1>2. Len(listed) \in Nat /\ n \in Nat /\ a \in Nat /\ n \in 0 .. Len(listed)
  BY <1>1, LenProperties
<1>3. last \in Seq(Characters) /\ c \in Characters
      /\ SubSeq(listed, a + 1, n + 1) = Append(last, c)
  BY <1>1, PartGrows
<1>4. PartFold!Fold(0, SubSeq(listed, 1, n + 1)) = PartStep(0, Append(done, last), c)
  <2>1. PartFold!Fold(0, SubSeq(listed, 1, n + 1))
          = PartStep(0, PartFold!Fold(0, SubSeq(listed, 1, n)), listed[n + 1])
    BY PartFold!FoldPrefix
  <2> QED BY <1>1, <2>1
<1>5. /\ IsCut(listed, n + 1) => PartsOf(listed, n + 1) = PartsOf(listed, n) \cup {last}
      /\ ~IsCut(listed, n + 1) => PartsOf(listed, n + 1) = PartsOf(listed, n)
  BY <1>1, <1>2, CutsGrow
<1>6. IsCut(listed, n + 1) <=> EndsPhrase(c)
  <2>1. n + 1 # 0 /\ n + 1 # Len(listed) + 1
    BY <1>2
  <2> QED BY <2>1, Zenon DEF IsCut
<1>7. CASE EndsPhrase(c)
  <2>1. PartStep(0, Append(done, last), c) = Append(Append(done, last), <<>>)
    BY <1>7, Zenon DEF PartStep
  <2> HIDE DEF last, c
  <2>2. Append(done, last) \in Seq(Seq(Characters))
        /\ ToSet(Append(done, last)) = PartsOf(listed, n + 1)
    <3>1. ToSet(Append(done, last)) = ToSet(done) \cup {last}
      BY <1>1, <1>3, AppendedSet
    <3>2. Append(done, last) \in Seq(Seq(Characters))
      BY <1>1, <1>3, AppendProperties
    <3> QED BY <1>1, <1>5, <1>6, <1>7, <3>1, <3>2
  <2>3. SubSeq(listed, (n + 1) + 1, n + 1) = <<>>
    BY <1>2, SubSeqEmpty
  <2>4. n + 1 \in 0 .. n + 1 /\ (\A k \in (n + 1) + 1 .. n + 1 : ~IsCut(listed, k))
    BY <1>2
  <2>5. PartsRead(listed, n + 1, Append(done, last), n + 1)
    BY <1>4, <1>6, <1>7, <2>1, <2>2, <2>3, <2>4 DEF PartsRead
  <2> QED BY <2>5
<1>8. CASE ~EndsPhrase(c)
  <2> DEFINE d == Append(done, last)
  <2>1. PartStep(0, d, c) = [d EXCEPT ![Len(d)] = Append(@, c)]
    BY <1>8, Zenon DEF PartStep
  <2> HIDE DEF last, c
  <2>2. Append(last, c) \in Seq(Characters)
    BY <1>3, AppendProperties
  <2>3. d[Len(d)] = last
    <3>1. Len(d) = Len(done) + 1 /\ d[Len(done) + 1] = last
      BY <1>1, <1>3, AppendProperties
    <3> QED BY <3>1
  <2>4. [d EXCEPT ![Len(d)] = Append(@, c)] = [d EXCEPT ![Len(d)] = Append(last, c)]
    <3> HIDE DEF d
    <3> QED BY <2>3
  <2>5. [d EXCEPT ![Len(d)] = Append(last, c)] = Append(done, Append(last, c))
    <3> DEFINE x == Append(last, c)
    <3>1. done \in Seq(Seq(Characters)) /\ last \in Seq(Characters) /\ x \in Seq(Characters)
      BY <1>1, <1>3, <2>2
    <3> HIDE DEF x
    <3>2. [d EXCEPT ![Len(d)] = x] = Append(done, x)
      BY <3>1, LastReplaced
    <3> QED BY <3>2 DEF x
  <2>6. PartFold!Fold(0, SubSeq(listed, 1, n + 1)) = Append(done, SubSeq(listed, a + 1, n + 1))
    BY <1>3, <1>4, <2>1, <2>4, <2>5, Zenon
  <2>7. a \in 0 .. n + 1 /\ \A k \in a + 1 .. n + 1 : ~IsCut(listed, k)
    <3>1. ASSUME NEW k \in a + 1 .. n + 1 PROVE k \in a + 1 .. n \/ k = n + 1
      BY <1>2
    <3>2. a \in 0 .. n + 1
      BY <1>1, <1>2
    <3> QED BY <1>1, <1>6, <1>8, <3>1, <3>2
  <2>8. PartsRead(listed, n + 1, done, a)
    BY <1>1, <1>5, <1>6, <1>8, <2>6, <2>7 DEF PartsRead
  <2> QED BY <2>8
<1> QED BY <1>7, <1>8

\* The parts of a list are what lies between the cuts.
LEMMA PartsAreRead ==
    ASSUME NEW listed \in Seq(Characters)
    PROVE  /\ PartFold!Fold(0, listed) \in Seq(Seq(Characters))
           /\ ToSet(PartFold!Fold(0, listed)) = PartsOf(listed, Len(listed) + 1)
<1> DEFINE N == Len(listed)
           P == {n \in Nat : n <= N => \E done, a : PartsRead(listed, n, done, a)}
<1>1. N \in Nat
  BY LenProperties
<1>2. 0 \in P
  BY NoPartIsRead
<1>3. ASSUME NEW n \in Nat, n \in P PROVE n + 1 \in P
  <2>1. ASSUME n + 1 <= N PROVE \E d, b : PartsRead(listed, n + 1, d, b)
    <3>1. n \in 0 .. Len(listed) - 1
      BY <1>1, <2>1
    <3>2. PICK done, a : PartsRead(listed, n, done, a)
      BY <1>1, <1>3, <2>1
    <3> QED BY <3>1, <3>2, PartReadOneMore
  <2> QED BY <2>1
<1>4. Nat \subseteq P
  <2> HIDE DEF P
  <2> QED BY <1>2, <1>3, PartFold!NaturalInduction
<1>5. PICK done, a : PartsRead(listed, N, done, a)
  BY <1>1, <1>4
<1> DEFINE last == SubSeq(listed, a + 1, N)
<1>6. /\ done \in Seq(Seq(Characters)) /\ ToSet(done) = PartsOf(listed, N)
      /\ a \in 0 .. N /\ IsCut(listed, a) /\ \A k \in a + 1 .. N : ~IsCut(listed, k)
      /\ PartFold!Fold(0, SubSeq(listed, 1, N)) = Append(done, last)
  BY <1>5 DEF PartsRead
<1>7. PartFold!Fold(0, listed) = Append(done, last)
  <2>1. PartFold!Fold(0, SubSeq(listed, 1, Len(listed))) = PartFold!Fold(0, listed)
    BY PartFold!FoldPrefix
  <2> QED BY <1>6, <2>1
<1>8. last \in Seq(Characters)
  <2>1. \A i \in a + 1 .. N : i \in 1 .. N
    BY <1>1, <1>6
  <2>2. \A i \in a + 1 .. N : listed[i] \in Characters
    BY <2>1, ElementOfSeq
  <2>3. a + 1 \in Int /\ N \in Int
    BY <1>1, <1>6
  <2> QED BY <2>2, <2>3, SubSeqProperties
<1>9. PartsOf(listed, N + 1) = PartsOf(listed, N) \cup {last}
  <2>1. N \in 0 .. Len(listed) /\ IsCut(listed, N + 1)
    BY <1>1 DEF IsCut
  <2> QED BY <1>6, <2>1, CutsGrow
<1> HIDE DEF last, N
<1>10. Append(done, last) \in Seq(Seq(Characters))
       /\ ToSet(Append(done, last)) = ToSet(done) \cup {last}
  <2>1. ToSet(Append(done, last)) = ToSet(done) \cup {last}
    BY <1>6, <1>8, AppendedSet
  <2>2. Append(done, last) \in Seq(Seq(Characters))
    BY <1>6, <1>8, AppendProperties
  <2> QED BY <2>1, <2>2
<1> QED BY <1>6, <1>7, <1>9, <1>10 DEF N

-----------------------------------------------------------------------------
(* Trimmed.                                                                  *)

\* The text from i to j is what is left without the spaces at both ends.
Inner(s, i, j) ==
    /\ i \in 1 .. Len(s) /\ j \in 1 .. Len(s) /\ i <= j
    /\ ~IsSpace(s[i]) /\ ~IsSpace(s[j])
    /\ \A k \in 1 .. i - 1 : IsSpace(s[k])
    /\ \A k \in j + 1 .. Len(s) : IsSpace(s[k])

\* Min and Max by their bounds.
LEMMA LeastIs ==
    ASSUME NEW S \in SUBSET Int, NEW m \in S, \A x \in S : m <= x
    PROVE  Min(S) = m
<1>1. \E y \in S : \A x \in S : y <= x
  OBVIOUS
<1>2. Min(S) \in S /\ \A x \in S : Min(S) <= x
  BY <1>1 DEF Min
<1>3. Min(S) \in Int /\ m \in Int /\ Min(S) <= m /\ m <= Min(S)
  BY <1>2
<1> QED BY <1>3

\* An element that no other exceeds is the maximum.
LEMMA GreatestIs ==
    ASSUME NEW S \in SUBSET Int, NEW m \in S, \A x \in S : m >= x
    PROVE  Max(S) = m
<1>1. \E y \in S : \A x \in S : y >= x
  OBVIOUS
<1>2. Max(S) \in S /\ \A x \in S : Max(S) >= x
  BY <1>1 DEF Max
<1>3. Max(S) \in Int /\ m \in Int /\ Max(S) >= m /\ m >= Max(S)
  BY <1>2
<1> QED BY <1>3

\* Trimmed takes the text from its first to its last character that is no space.
LEMMA TrimmedInner ==
    ASSUME NEW E, NEW s \in Seq(E), NEW i, NEW j, Inner(s, i, j)
    PROVE  /\ Trimmed(s) = SubSeq(s, i, j)
           /\ SubSeq(s, i, j) \in Seq(E) /\ SubSeq(s, i, j) # <<>>
<1> DEFINE S == {k \in DOMAIN s : ~IsSpace(s[k])}
<1>1. Len(s) \in Nat /\ DOMAIN s = 1 .. Len(s)
  BY LenProperties
<1>2. /\ i \in 1 .. Len(s) /\ j \in 1 .. Len(s) /\ i <= j
      /\ i \in S /\ j \in S
  BY <1>1 DEF Inner
<1>3. ASSUME NEW x \in S PROVE i <= x /\ j >= x
  <2>1. x \in 1 .. Len(s) /\ ~IsSpace(s[x])
    BY <1>1
  <2>2. x \notin 1 .. i - 1 /\ x \notin j + 1 .. Len(s)
    BY <2>1 DEF Inner
  <2> QED BY <1>1, <1>2, <2>1, <2>2
<1>4. S \in SUBSET Int
  BY <1>1
<1>5. Trimmed(s) = IF S = {} THEN <<>> ELSE SubSeq(s, Min(S), Max(S))
  BY Zenon DEF Trimmed
<1> HIDE DEF S
<1>6. Min(S) = i
  BY <1>2, <1>3, <1>4, LeastIs
<1>7. Max(S) = j
  BY <1>2, <1>3, <1>4, GreatestIs
<1>8. Trimmed(s) = SubSeq(s, i, j)
  BY <1>2, <1>5, <1>6, <1>7
<1>9. SubSeq(s, i, j) \in Seq(E) /\ Len(SubSeq(s, i, j)) = j - i + 1
  <2>1. \A k \in i .. j : k \in 1 .. Len(s)
    BY <1>1, <1>2
  <2>2. \A k \in i .. j : s[k] \in E
    BY <2>1, ElementOfSeq
  <2>3. i \in Int /\ j \in Int
    BY <1>2
  <2>4. Len(SubSeq(s, i, j)) = IF i <= j THEN j - i + 1 ELSE 0
    BY <2>2, <2>3, SubSeqProperties
  <2>5. SubSeq(s, i, j) \in Seq(E)
    BY <2>2, <2>3, SubSeqProperties
  <2> QED BY <1>2, <2>4, <2>5
<1>10. SubSeq(s, i, j) # <<>>
  <2>1. Len(SubSeq(s, i, j)) # 0
    BY <1>2, <1>9
  <2> QED BY <2>1, EmptySeq
<1> QED BY <1>8, <1>9, <1>10

\* Of a text that has no such character it leaves nothing.
LEMMA TrimmedBlank ==
    ASSUME NEW E, NEW s \in Seq(E)
    PROVE  Trimmed(s) = <<>> \/ \E i, j : Inner(s, i, j)
<1> DEFINE S == {k \in DOMAIN s : ~IsSpace(s[k])}
<1>1. Len(s) \in Nat /\ DOMAIN s = 1 .. Len(s)
  BY LenProperties
<1>2. CASE S = {}
  <2>1. Trimmed(s) = <<>>
    BY <1>2, Zenon DEF Trimmed
  <2> QED BY <2>1
<1>3. CASE S # {}
  <2>1. S \in SUBSET (1 .. Len(s)) /\ 1 \in Int /\ Len(s) \in Int
    BY <1>1
  <2>2. \A x \in 1 .. Len(s) : x \notin S => IsSpace(s[x])
    BY <1>1
  <2>3. \A x \in S : ~IsSpace(s[x])
    OBVIOUS
  <2> HIDE DEF S
  <2>4. PICK i \in S : \A x \in S : i <= x
    BY <1>3, <2>1, PartFold!LeastOfInterval
  <2>5. PICK j \in S : \A x \in S : j >= x
    BY <1>3, <2>1, PartFold!GreatestOfInterval
  <2>6. i \in 1 .. Len(s) /\ j \in 1 .. Len(s) /\ i <= j
    BY <2>1, <2>4, <2>5
  <2>7. ASSUME NEW k \in 1 .. i - 1 PROVE IsSpace(s[k])
    <3>1. k \in 1 .. Len(s) /\ ~(i <= k)
      BY <1>1, <2>6
    <3>2. k \notin S
      BY <2>4, <3>1
    <3> QED BY <2>2, <3>1, <3>2
  <2>8. ASSUME NEW k \in j + 1 .. Len(s) PROVE IsSpace(s[k])
    <3>1. k \in 1 .. Len(s) /\ ~(j >= k)
      BY <1>1, <2>6
    <3>2. k \notin S
      BY <2>5, <3>1
    <3> QED BY <2>2, <3>1, <3>2
  <2>9. Inner(s, i, j)
    BY <2>3, <2>6, <2>7, <2>8 DEF Inner
  <2> QED BY <2>9
<1> QED BY <1>2, <1>3

-----------------------------------------------------------------------------
(* Entries.                                                                  *)

\* The list as if a comma stood before it and behind it.
At(listed, i) == IF i \in DOMAIN listed THEN listed[i] ELSE ","

\* No phrase ends from i to j.
Inside(listed, i, j) == \A k \in i .. j : ~EndsPhrase(At(listed, k))

\* Between i and j is nothing but spaces, and no end of a phrase.
Blank(listed, i, j) ==
    Inside(listed, i + 1, j - 1) /\ \A k \in i + 1 .. j - 1 : IsSpace(At(listed, k))

\* From i to j stands an entry: bare, in one phrase, and only spaces to the ends of that.
Entry(listed, i, j) ==
    /\ i <= j /\ Inside(listed, i, j)
    /\ ~IsSpace(At(listed, i)) /\ ~IsSpace(At(listed, j))
    /\ \E a \in 0 .. i - 1 : EndsPhrase(At(listed, a)) /\ Blank(listed, a, i)
    /\ \E b \in j + 1 .. Len(listed) + 1 : EndsPhrase(At(listed, b)) /\ Blank(listed, j, b)

\* Entries, by those names.
LEMMA EntriesUnfolded ==
    \A listed :
      Entries(listed) =
        {SubSeq(listed, p[1], p[2])
           : p \in {q \in (DOMAIN listed) \X (DOMAIN listed) : Entry(listed, q[1], q[2])}}
BY Zenon DEF Entries, Entry, Inside, Blank, At

\* An end of a phrase in the extended list is a cut.
LEMMA AtIsCut ==
    ASSUME NEW listed \in Seq(Characters), NEW i \in 0 .. Len(listed) + 1
    PROVE  /\ EndsPhrase(At(listed, i)) <=> IsCut(listed, i)
           /\ i \in 1 .. Len(listed) => At(listed, i) = listed[i]
<1>1. DOMAIN listed = 1 .. Len(listed) /\ Len(listed) \in Nat
  BY LenProperties
<1>2. i \in 1 .. Len(listed) \/ i = 0 \/ i = Len(listed) + 1
  BY <1>1
<1>3. i \in 1 .. Len(listed) => i # 0 /\ i # Len(listed) + 1
  BY <1>1
<1>4. i \in DOMAIN listed <=> i \in 1 .. Len(listed)
  BY <1>1
<1>5. (i = 0 \/ i = Len(listed) + 1) => i \notin 1 .. Len(listed)
  BY <1>1
<1>6. EndsPhrase(",")
  BY DEF EndsPhrase
<1>7. EndsPhrase(At(listed, i)) <=> IsCut(listed, i)
  BY <1>2, <1>3, <1>4, <1>5, <1>6, Zenon DEF At, IsCut
<1>8. i \in 1 .. Len(listed) => At(listed, i) = listed[i]
  BY <1>4, Zenon DEF At
<1> QED BY <1>7, <1>8, Zenon

\* A part between two cuts, and what is left of it.
LEMMA PartIs ==
    ASSUME NEW listed \in Seq(Characters), NEW q \in Cuts(listed, Len(listed) + 1)
    PROVE  LET a == q[1]
               b == q[2]
               s == Part(listed, a, b)
           IN  /\ a \in 0 .. Len(listed) /\ b \in 1 .. Len(listed) + 1 /\ a < b
               /\ s \in Seq(Characters) /\ Len(s) = b - 1 - a
               /\ \A k \in 1 .. b - 1 - a : s[k] = listed[a + k]
<1> DEFINE a == q[1]
           b == q[2]
           s == Part(listed, a, b)
<1>1. a \in 0 .. Len(listed) /\ b \in 1 .. Len(listed) + 1 /\ a < b /\ Len(listed) \in Nat
  BY LenProperties DEF Cuts
<1> HIDE DEF a, b
<1>2. \A k \in a + 1 .. b - 1 : listed[k] \in Characters
  <2>1. \A k \in a + 1 .. b - 1 : k \in 1 .. Len(listed)
    BY <1>1
  <2> QED BY <2>1, ElementOfSeq
<1>3. a + 1 \in Int /\ b - 1 \in Int
  BY <1>1
<1>4. /\ s \in Seq(Characters) /\ Len(s) = IF a + 1 <= b - 1 THEN b - 1 - (a + 1) + 1 ELSE 0
      /\ \A k \in 1 .. b - 1 - (a + 1) + 1 : s[k] = listed[a + 1 + k - 1]
  BY <1>2, <1>3, SubSeqProperties DEF Part
<1>5. Len(s) = b - 1 - a
  BY <1>1, <1>4
<1>6. ASSUME NEW k \in 1 .. b - 1 - a PROVE s[k] = listed[a + k]
  <2>1. k \in 1 .. b - 1 - (a + 1) + 1 /\ a + 1 + k - 1 = a + k
    BY <1>1
  <2> QED BY <1>4, <2>1
<1> QED BY <1>1, <1>4, <1>5, <1>6 DEF a, b

\* A piece of a part is a piece of the list.
LEMMA SubSeqOfPart ==
    ASSUME NEW E, NEW s \in Seq(E), NEW a \in 0 .. Len(s), NEW b \in 1 .. Len(s) + 1, a < b,
           NEW m \in 1 .. b - 1 - a, NEW n \in 1 .. b - 1 - a
    PROVE  SubSeq(Part(s, a, b), m, n) = SubSeq(s, a + m, a + n)
<1>1. Len(s) \in Nat
  BY LenProperties
<1>2. a + 1 \in 1 .. Len(s) /\ b - 1 \in 1 .. Len(s)
  BY <1>1
<1>3. m \in 1 .. (b - 1) - (a + 1) + 1 /\ n \in 1 .. (b - 1) - (a + 1) + 1
  BY <1>1
<1>4. SubSeq(SubSeq(s, a + 1, b - 1), m, n) = SubSeq(s, a + 1 + m - 1, a + 1 + n - 1)
  BY <1>2, <1>3, SubSeqOfSubSeq
<1>5. a + 1 + m - 1 = a + m /\ a + 1 + n - 1 = a + n
  BY <1>1
<1> QED BY <1>4, <1>5 DEF Part

\* The entries of a list are what is between its ends of phrases, without the spaces.
LEMMA EntryIsTrimmed ==
    ASSUME NEW listed \in Seq(Characters),
           NEW i \in 1 .. Len(listed), NEW j \in 1 .. Len(listed), Entry(listed, i, j)
    PROVE  \E x \in PartsOf(listed, Len(listed) + 1) :
              SubSeq(listed, i, j) = Trimmed(x) /\ Trimmed(x) # <<>>
<1> DEFINE N == Len(listed)
<1>1. N \in Nat
  BY LenProperties
<1>2. i <= j
  BY Zenon DEF Entry
<1>e. /\ \A k \in i .. j : ~EndsPhrase(At(listed, k))
      /\ ~IsSpace(At(listed, i)) /\ ~IsSpace(At(listed, j))
  BY Zenon DEF Entry, Inside
<1>3. PICK a \in 0 .. i - 1 :
        /\ EndsPhrase(At(listed, a))
        /\ \A k \in a + 1 .. i - 1 : IsSpace(At(listed, k)) /\ ~EndsPhrase(At(listed, k))
  BY Zenon DEF Entry, Blank, Inside
<1>4. PICK b \in j + 1 .. Len(listed) + 1 :
        /\ EndsPhrase(At(listed, b))
        /\ \A k \in j + 1 .. b - 1 : IsSpace(At(listed, k)) /\ ~EndsPhrase(At(listed, k))
  BY Zenon DEF Entry, Blank, Inside
<1>5. \A k \in 0 .. N + 1 : /\ EndsPhrase(At(listed, k)) <=> IsCut(listed, k)
                            /\ k \in 1 .. N => At(listed, k) = listed[k]
  BY AtIsCut, Zenon
<1>6. a \in 0 .. N + 1 /\ b \in 0 .. N + 1 /\ a \in 0 .. N /\ b \in 1 .. N + 1 /\ a < i /\ j < b
  BY <1>1, <1>2
<1>7. IsCut(listed, a) /\ IsCut(listed, b)
  BY <1>3, <1>4, <1>5, <1>6, Zenon
<1>8. ASSUME NEW k \in a + 1 .. b - 1 PROVE ~IsCut(listed, k)
  <2>1. k \in 0 .. N + 1 /\ (k \in a + 1 .. i - 1 \/ k \in i .. j \/ k \in j + 1 .. b - 1)
    BY <1>1, <1>2, <1>6
  <2> QED BY <1>e, <1>3, <1>4, <1>5, <2>1, Zenon
<1> DEFINE q == <<a, b>>
           s == Part(listed, a, b)
           m == i - a
           n == j - a
<1>9. q \in Cuts(listed, N + 1) /\ q[1] = a /\ q[2] = b
  <2>1. q \in (0 .. Len(listed)) \X (1 .. N + 1) /\ q[1] = a /\ q[2] = b /\ a < b
    BY <1>1, <1>2, <1>6
  <2> HIDE DEF q
  <2> QED BY <1>7, <1>8, <2>1 DEF Cuts
<1> HIDE DEF q
<1>10. /\ s \in Seq(Characters) /\ Len(s) = b - 1 - a
       /\ \A k \in 1 .. b - 1 - a : s[k] = listed[a + k]
  BY <1>9, PartIs
<1>11. s \in PartsOf(listed, N + 1)
  BY <1>9 DEF PartsOf
<1>12. m \in 1 .. Len(s) /\ n \in 1 .. Len(s) /\ m <= n /\ a + m = i /\ a + n = j
       /\ b - 1 - a = Len(s)
  BY <1>1, <1>2, <1>6, <1>10
<1> HIDE DEF s, m, n
<1>13. \A k \in 1 .. Len(s) : a + k \in 1 .. N /\ a + k \in 0 .. N + 1
                              /\ s[k] = At(listed, a + k)
  <2>1. \A k \in 1 .. Len(s) : a + k \in 1 .. N /\ a + k \in 0 .. N + 1 /\ s[k] = listed[a + k]
    BY <1>1, <1>6, <1>10, <1>12
  <2> QED BY <1>5, <2>1, Zenon
<1>14. Inner(s, m, n)
  <2>1. ~IsSpace(s[m]) /\ ~IsSpace(s[n])
    <3>1. s[m] = At(listed, i) /\ s[n] = At(listed, j)
      BY <1>12, <1>13
    <3> QED BY <1>e, <3>1, Zenon
  <2>2. ASSUME NEW k \in 1 .. m - 1 PROVE IsSpace(s[k])
    <3>1. k \in 1 .. Len(s) /\ a + k \in a + 1 .. i - 1
      BY <1>6, <1>12
    <3> QED BY <1>3, <1>13, <3>1, Zenon
  <2>3. ASSUME NEW k \in n + 1 .. Len(s) PROVE IsSpace(s[k])
    <3>1. k \in 1 .. Len(s) /\ a + k \in j + 1 .. b - 1
      BY <1>6, <1>10, <1>12
    <3> QED BY <1>4, <1>13, <3>1, Zenon
  <2> QED BY <1>12, <2>1, <2>2, <2>3 DEF Inner
<1>15. Trimmed(s) = SubSeq(s, m, n) /\ SubSeq(s, m, n) # <<>>
  BY <1>10, <1>14, TrimmedInner
<1>16. SubSeq(s, m, n) = SubSeq(listed, i, j)
  BY <1>6, <1>10, <1>12, SubSeqOfPart DEF s
<1> QED BY <1>11, <1>15, <1>16

\* What is left of a part is an entry.
LEMMA TrimmedIsEntry ==
    ASSUME NEW listed \in Seq(Characters),
           NEW x \in PartsOf(listed, Len(listed) + 1), Trimmed(x) # <<>>
    PROVE  \E i, j \in 1 .. Len(listed) :
              Entry(listed, i, j) /\ SubSeq(listed, i, j) = Trimmed(x)
<1> DEFINE N == Len(listed)
<1>1. PICK q \in Cuts(listed, Len(listed) + 1) : x = Part(listed, q[1], q[2])
  BY DEF PartsOf
<1>2. PICK a, b : a = q[1] /\ b = q[2]
  OBVIOUS
<1>3. /\ a \in 0 .. N /\ b \in 1 .. N + 1 /\ a < b
      /\ x \in Seq(Characters) /\ Len(x) = b - 1 - a
      /\ \A k \in 1 .. b - 1 - a : x[k] = listed[a + k]
  BY <1>1, <1>2, PartIs
<1>4. /\ IsCut(listed, a) /\ IsCut(listed, b)
      /\ \A k \in a + 1 .. b - 1 : ~IsCut(listed, k)
  BY <1>2 DEF Cuts
<1>5. N \in Nat
  BY LenProperties
<1>6. PICK m, n : Inner(x, m, n)
  BY <1>3, TrimmedBlank
<1>7. Trimmed(x) = SubSeq(x, m, n)
  BY <1>3, <1>6, TrimmedInner
<1>8. /\ m \in 1 .. b - 1 - a /\ n \in 1 .. b - 1 - a /\ m <= n
      /\ ~IsSpace(x[m]) /\ ~IsSpace(x[n])
      /\ \A k \in 1 .. m - 1 : IsSpace(x[k])
      /\ \A k \in n + 1 .. Len(x) : IsSpace(x[k])
  BY <1>3, <1>6 DEF Inner
<1>9. SubSeq(x, m, n) = SubSeq(listed, a + m, a + n)
  <2>1. /\ a \in 0 .. Len(listed) /\ b \in 1 .. Len(listed) + 1 /\ a < b
        /\ m \in 1 .. b - 1 - a /\ n \in 1 .. b - 1 - a
    BY <1>3, <1>8
  <2>2. SubSeq(Part(listed, a, b), m, n) = SubSeq(listed, a + m, a + n)
    BY <2>1, SubSeqOfPart
  <2> QED BY <1>1, <1>2, <2>2
<1>10. PICK i, j : i = a + m /\ j = a + n
  OBVIOUS
<1>11. /\ i \in 1 .. N /\ j \in 1 .. N /\ i <= j
       /\ a \in 0 .. i - 1 /\ b \in j + 1 .. N + 1 /\ a \in 0 .. N + 1 /\ b \in 0 .. N + 1
       /\ i - a = m /\ j - a = n
  <2>1. a \in Nat /\ b \in Nat /\ N \in Nat /\ b <= N + 1
    BY <1>3, <1>5
  <2>2. m \in 1 .. b - 1 - a /\ n \in 1 .. b - 1 - a /\ m <= n
    BY <1>8
  <2> HIDE DEF N
  <2> QED BY <1>10, <2>1, <2>2
<1>inside. a \in Int /\ b \in Int /\ i \in Int /\ j \in Int /\ a < i /\ i <= j /\ j < b
  BY <1>5, <1>11
<1>12. \A k \in 0 .. N + 1 : /\ EndsPhrase(At(listed, k)) <=> IsCut(listed, k)
                             /\ k \in 1 .. N => At(listed, k) = listed[k]
  BY AtIsCut, Zenon
<1>13. \A k \in a + 1 .. b - 1 : k \in 0 .. N + 1 /\ k \in 1 .. N /\ listed[k] = x[k - a]
  <2>1. ASSUME NEW k \in a + 1 .. b - 1
        PROVE  k \in 0 .. N + 1 /\ k \in 1 .. N /\ k - a \in 1 .. b - 1 - a /\ a + (k - a) = k
    BY <1>3, <1>5
  <2> QED BY <1>3, <2>1
<1>14. \A k \in a + 1 .. b - 1 : ~EndsPhrase(At(listed, k)) /\ At(listed, k) = x[k - a]
  BY <1>4, <1>12, <1>13, Zenon
<1>15. EndsPhrase(At(listed, a)) /\ EndsPhrase(At(listed, b))
  BY <1>4, <1>11, <1>12, Zenon
<1>16. ASSUME NEW k \in a + 1 .. i - 1 PROVE IsSpace(At(listed, k))
  <2>1. k \in a + 1 .. b - 1 /\ k - a \in 1 .. m - 1
    <3>1. k \in Int /\ m = i - a
      BY <1>inside, <1>11
    <3> QED BY <1>inside, <3>1
  <2> QED BY <1>8, <1>14, <2>1, Zenon
<1>17. ASSUME NEW k \in j + 1 .. b - 1 PROVE IsSpace(At(listed, k))
  <2>1. k \in a + 1 .. b - 1 /\ k - a \in n + 1 .. Len(x)
    <3>1. k \in Int /\ n = j - a /\ Len(x) = b - 1 - a
      BY <1>inside, <1>3, <1>11
    <3> QED BY <1>inside, <3>1
  <2> QED BY <1>8, <1>14, <2>1, Zenon
<1>18. ASSUME NEW k \in i .. j PROVE ~EndsPhrase(At(listed, k))
  <2>1. k \in a + 1 .. b - 1
    BY <1>inside
  <2> QED BY <1>14, <2>1, Zenon
<1>19. ~IsSpace(At(listed, i)) /\ ~IsSpace(At(listed, j))
  <2>1. i \in a + 1 .. b - 1 /\ j \in a + 1 .. b - 1
    BY <1>inside
  <2> QED BY <1>8, <1>11, <1>14, <2>1, Zenon
<1>20. Entry(listed, i, j)
  <2>1. Blank(listed, a, i) /\ Blank(listed, j, b)
    <3>1. \A k \in a + 1 .. i - 1 : k \in a + 1 .. b - 1
      BY <1>inside
    <3>2. \A k \in j + 1 .. b - 1 : k \in a + 1 .. b - 1
      BY <1>inside
    <3> QED BY <1>14, <1>16, <1>17, <3>1, <3>2, Zenon DEF Blank, Inside
  <2>2. Inside(listed, i, j)
    BY <1>18, Zenon DEF Inside
  <2> QED BY <1>11, <1>15, <1>19, <2>1, <2>2, Zenon DEF Entry
<1>21. SubSeq(listed, i, j) = Trimmed(x)
  BY <1>7, <1>9, <1>10, Zenon
<1> QED BY <1>11, <1>20, <1>21, Zenon

\* An entry neither begins nor ends with a space.
LEMMA EntryIsBare ==
    ASSUME NEW listed \in Seq(Characters), NEW p \in Entries(listed)
    PROVE  p \in Seq(Characters) /\ Bare(p)
<1>0. DOMAIN listed = 1 .. Len(listed) /\ Len(listed) \in Nat
  BY LenProperties
<1>1. PICK i \in 1 .. Len(listed), j \in 1 .. Len(listed) :
        p = SubSeq(listed, i, j) /\ Entry(listed, i, j)
  BY <1>0, EntriesUnfolded
<1>2. i <= j
  BY <1>1, Zenon DEF Entry
<1>3. At(listed, i) = listed[i] /\ At(listed, j) = listed[j]
  <2>1. i \in 0 .. Len(listed) + 1 /\ j \in 0 .. Len(listed) + 1
    BY <1>0
  <2> QED BY <2>1, AtIsCut, Zenon
<1>4. ~IsSpace(listed[i]) /\ ~IsSpace(listed[j])
  BY <1>1, <1>3, Zenon DEF Entry
<1>5. p = SubSeq(listed, i, j)
  BY <1>1
<1>6. /\ p \in Seq(Characters) /\ Len(p) = j - i + 1
      /\ \A k \in 1 .. j - i + 1 : p[k] = listed[i + k - 1]
  <2>1. \A k \in i .. j : k \in 1 .. Len(listed)
    BY <1>0
  <2>2. \A k \in i .. j : listed[k] \in Characters
    BY <2>1, ElementOfSeq
  <2>3. i \in Int /\ j \in Int
    BY <1>0
  <2>4. /\ SubSeq(listed, i, j) \in Seq(Characters)
        /\ Len(SubSeq(listed, i, j)) = IF i <= j THEN j - i + 1 ELSE 0
        /\ \A k \in 1 .. j - i + 1 : SubSeq(listed, i, j)[k] = listed[i + k - 1]
    BY <2>2, <2>3, SubSeqProperties
  <2> QED BY <1>2, <1>5, <2>4
<1>7. p[1] = listed[i] /\ p[Len(p)] = listed[j]
  <2>1. 1 \in 1 .. j - i + 1 /\ i + 1 - 1 = i
        /\ j - i + 1 \in 1 .. j - i + 1 /\ i + (j - i + 1) - 1 = j
    BY <1>0, <1>2
  <2> QED BY <1>6, <2>1
<1>8. p # <<>>
  <2>1. Len(p) # 0
    BY <1>0, <1>2, <1>6
  <2> QED BY <2>1, EmptySeq
<1>9. ~IsSpace(p[1]) /\ ~IsSpace(Last(p))
  BY <1>4, <1>7 DEF Last
<1> QED BY <1>6, <1>8, <1>9 DEF Bare

\* What is listed is what is looked for.
LEMMA SplitsIntoEntries ==
    ASSUME NEW listed \in Seq(Characters)
    PROVE  /\ SplitPhrases(listed) \in Seq(Seq(Characters))
           /\ ToSet(SplitPhrases(listed)) = Entries(listed)
<1> DEFINE parts == PartFold!Fold(0, listed)
           E == Seq(Characters)
           all == PartsOf(listed, Len(listed) + 1)
<1>1. parts \in Seq(E) /\ ToSet(parts) = all
  BY PartsAreRead
<1>2. \A x \in E : Trimmed(x) \in E
  <2>1. ASSUME NEW x \in Seq(Characters) PROVE Trimmed(x) \in Seq(Characters)
    <3>1. CASE Trimmed(x) = <<>>
      BY <3>1, EmptySeq
    <3>2. CASE \E i, j : Inner(x, i, j)
      BY <3>2, TrimmedInner
    <3> QED BY <3>1, <3>2, TrimmedBlank
  <2> QED BY <2>1
<1>3. SplitPhrases(listed) = KeepFold!Fold(0, parts)
  BY SplitIsFolded, Zenon
<1> HIDE DEF parts, E, all
<1>4. /\ KeepFold!Fold(0, parts) \in Seq(E)
      /\ ToSet(KeepFold!Fold(0, parts)) = {Trimmed(x) : x \in ToSet(parts)} \ {<<>>}
  BY <1>1, <1>2, KeptParts
<1>5. {Trimmed(x) : x \in all} \ {<<>>} = Entries(listed)
  <2>0. DOMAIN listed = 1 .. Len(listed)
    BY LenProperties
  <2>1. ASSUME NEW x \in all, Trimmed(x) # <<>> PROVE Trimmed(x) \in Entries(listed)
    <3>1. PICK i \in 1 .. Len(listed), j \in 1 .. Len(listed) :
            Entry(listed, i, j) /\ SubSeq(listed, i, j) = Trimmed(x)
      BY <2>1, TrimmedIsEntry, Zenon DEF all
    <3> DEFINE q == <<i, j>>
    <3>2. q \in (DOMAIN listed) \X (DOMAIN listed) /\ q[1] = i /\ q[2] = j
      BY <2>0
    <3> HIDE DEF q
    <3> QED BY <3>1, <3>2, EntriesUnfolded
  <2>2. ASSUME NEW p \in Entries(listed) PROVE p \in {Trimmed(x) : x \in all} \ {<<>>}
    <3>1. PICK i \in 1 .. Len(listed), j \in 1 .. Len(listed) :
            p = SubSeq(listed, i, j) /\ Entry(listed, i, j)
      BY <2>0, EntriesUnfolded
    <3>2. PICK x \in all : SubSeq(listed, i, j) = Trimmed(x) /\ Trimmed(x) # <<>>
      BY <3>1, EntryIsTrimmed, Zenon DEF all
    <3> QED BY <3>1, <3>2
  <2> QED BY <2>1, <2>2
<1>6. ToSet(SplitPhrases(listed)) = Entries(listed)
  BY <1>1, <1>3, <1>4, <1>5
<1> QED BY <1>3, <1>4, <1>6 DEF E

-----------------------------------------------------------------------------
(* What was said.                                                            *)

\* The phrases of a configuration.
LEMMA ConfigPhrases ==
    ASSUME NEW g \in Configs
    PROVE  /\ g.phrases \in Seq(Seq(Characters)) /\ ToSet(g.phrases) = Listed[g]
           /\ \A p \in Listed[g] : Bare(p)
<1>1. g.listed \in Seq(Characters) /\ g.phrases = SplitPhrases(g.listed)
  BY ConfigsAssumption
<1>2. Listed[g] = Entries(g.listed)
  BY Zenon DEF Listed
<1> QED BY <1>1, <1>2, SplitsIntoEntries, EntryIsBare, Zenon

\* A segment is chosen by what it says.
LEMMA SelectedSay ==
    ASSUME NEW g \in Configs, NEW heard, \A s \in heard : s.text \in Seq(Characters),
           NEW s \in heard
    PROVE  /\ Whole(g.matching) =>
                (s \in Selected(heard, g)
                   <=> \E p \in Listed[g] : Holds(Words(s.text), Words(p)))
           /\ g.matching = DefaultOptions =>
                ((\E p \in Listed[g] : Holds(s.text, p)) => s \in Selected(heard, g))
<1>1. g.phrases \in Seq(Seq(Characters)) /\ ToSet(g.phrases) = Listed[g]
  BY ConfigPhrases
<1>2. s.text \in Seq(Characters)
  OBVIOUS
<1>3. s \in Selected(heard, g) <=> Find(s.text, g.phrases, g.matching) # {}
  BY DEF Selected
<1>4. ASSUME Whole(g.matching)
      PROVE  s \in Selected(heard, g)
               <=> \E p \in Listed[g] : Holds(Words(s.text), Words(p))
  BY <1>1, <1>2, <1>3, <1>4, FindsWords, Zenon
<1>5. ASSUME g.matching = DefaultOptions, NEW p \in Listed[g], Holds(s.text, p)
      PROVE  s \in Selected(heard, g)
  <2>1. p \in ToSet(g.phrases) /\ Bare(p)
    BY <1>1, ConfigPhrases, Zenon
  <2>2. Find(s.text, g.phrases, DefaultOptions) # {}
    BY <1>1, <1>2, <1>5, <2>1, FindsLiterally, Zenon
  <2> QED BY <1>3, <1>5, <2>2, Zenon
<1> QED BY <1>4, <1>5, Zenon

\* What is heard of a chunk that was processed.
LEMMA ProcessedIsBleeped ==
    ASSUME Inv, config \in Configs, NEW c \in Frames, NEW answer \in Answers,
           Refusal(timeline, c) = "none", Accept(c), UNCHANGED config,
           result' = Processed(c, AcceptChunk(timeline, c).anchor, Transcript(answer))
    PROVE  BleepsWhatWasSaid'
<1> DEFINE heard == Transcript(answer)
           m == Plan(heard, config)
           out == Render(c.count, m, ReplacementLength(c), config.fade)
           r == result'
           frames == 0 .. c.count - 1
           In(s, f) == s.start + Later(config) <= f /\ f < s.end + Later(config)
<1>1. c.count \in Nat \ {0}
  BY AcceptedChunkIsAnchored
<1>2. Times(heard) /\ \A s \in heard : s.text \in Seq(Characters)
  BY AnswersAssumption, TranscriptTimes DEF Times
<1>3. config.delay \in Int /\ config.fade \in Nat
  BY ConfigsAssumption
<1>4. r.chunk = c /\ r.heard = heard /\ r.output = out /\ r.status = "processed"
  <2> DEFINE t == Placed(timeline', AcceptChunk(timeline, c).anchor,
                         {[start |-> s.start, end |-> s.end] : s \in heard})
             i == Placed(timeline', AcceptChunk(timeline, c).anchor, ToSet(m))
  <2>1. r = [status |-> "processed", chunk |-> c, heard |-> heard,
             transcript |-> t, intervals |-> i, output |-> out]
    BY Zenon DEF Processed
  <2> HIDE DEF t, i, heard, m, out, r
  <2> QED BY <2>1
<1> HIDE DEF heard
<1>5. /\ DOMAIN out = frames
      /\ \A f \in frames :
           /\ out[f] # Original <=> Covers(m, f)
           /\ Covers(m, f) => /\ out[f].sample \in 0 .. ReplacementLength(c) - 1
                              /\ 0 < out[f].gain.num
                              /\ out[f].gain.num <= out[f].gain.den
  <2> HIDE DEF out, m
  <2> QED BY <1>1, <1>2, OutputCovers, Zenon DEF out, m
<1>6. \A f \in frames : Covers(m, f) <=> \E s \in Selected(heard, config) : In(s, f)
  <2>1. \A f \in Int : Covers(m, f) <=> \E s \in Selected(heard, config) : In(s, f)
    BY <1>2, <1>3, PlanCovers
  <2>2. \A f \in frames : f \in Int
    BY <1>1
  <2> HIDE DEF frames, In, m
  <2> QED BY <2>1, <2>2
<1> HIDE DEF out, m, frames, r, In
<1>7. Bleeped(r) = {f \in frames : Covers(m, f)}
  BY <1>4, <1>5 DEF Bleeped
<1>8. ASSUME Whole(config.matching)
      PROVE  Bleeped(r) = {f \in frames :
               \E s \in heard : (\E p \in Listed[config] : Holds(Words(s.text), Words(p))) /\ In(s, f)}
  <2>1. \A s \in heard : s \in Selected(heard, config)
                           <=> \E p \in Listed[config] : Holds(Words(s.text), Words(p))
    BY <1>2, <1>8, SelectedSay, Zenon
  <2>2. \A s \in Selected(heard, config) : s \in heard
    BY DEF Selected
  <2>3. \A f \in frames : Covers(m, f)
          <=> \E s \in heard : (\E p \in Listed[config] : Holds(Words(s.text), Words(p))) /\ In(s, f)
    BY <1>6, <2>1, <2>2, Zenon
  <2> QED BY <1>7, <2>3, Zenon
<1>9. ASSUME config.matching = DefaultOptions
      PROVE  {f \in frames :
                \E s \in heard : (\E p \in Listed[config] : Holds(s.text, p)) /\ In(s, f)}
               \subseteq Bleeped(r)
  <2>1. \A s \in heard : (\E p \in Listed[config] : Holds(s.text, p))
                            => s \in Selected(heard, config)
    BY <1>2, <1>9, SelectedSay, Zenon
  <2>2. \A f \in frames :
          (\E s \in heard : (\E p \in Listed[config] : Holds(s.text, p)) /\ In(s, f))
             => Covers(m, f)
    BY <1>6, <2>1, Zenon
  <2> QED BY <1>7, <2>2, Zenon
<1>10. \A f \in Bleeped(r) : /\ r.output[f].sample \in 0 .. ReplacementLength(c) - 1
                             /\ 0 < r.output[f].gain.num
                             /\ r.output[f].gain.num <= r.output[f].gain.den
  BY <1>4, <1>5, <1>7, Zenon
<1> QED BY <1>4, <1>8, <1>9, <1>10, Zenon
        DEF BleepsWhatWasSaid, Covered, ReplacementLength, Later, In, frames, r

\* A chunk that goes back as it came, and of which nothing was heard.
LEMMA PassedThroughIsSilent ==
    ASSUME NEW c, NEW status, result' = PassThrough(c, status) PROVE BleepsWhatWasSaid'
<1> DEFINE r == result'
<1>1. r = [status |-> status, chunk |-> c, heard |-> {}, transcript |-> {}, intervals |-> {},
           output |-> Untouched(c)]
  BY DEF PassThrough
<1> HIDE DEF r
<1>2. r.heard = {} /\ r.output = Untouched(c) /\ r.chunk = c
  BY <1>1
<1>3. \A f \in DOMAIN r.output : r.output[f] = Original
  BY <1>2 DEF Untouched
<1>4. Bleeped(r) = {}
  BY <1>3 DEF Bleeped
<1>5. \A s \in r.heard : FALSE
  BY <1>2
<1> QED BY <1>4, <1>5, Zenon DEF BleepsWhatWasSaid, Covered, r

\* Every step of the pipeline keeps what was said bleeped.
LEMMA SaidStep ==
    ASSUME Inv, config \in Configs, BleepsWhatWasSaid, [PipelineNext]_allVars
    PROVE  BleepsWhatWasSaid'
<1>1. ASSUME NEW c \in Frames, Process(c) PROVE BleepsWhatWasSaid'
  <2>1. CASE RejectAudio(c)
    BY <2>1, PassedThroughIsSilent DEF RejectAudio
  <2>2. CASE RejectTime(c)
    BY <2>2, PassedThroughIsSilent DEF RejectTime
  <2>3. CASE RuntimeFails(c)
    BY <2>3, PassedThroughIsSilent DEF RuntimeFails
  <2>4. CASE Censor(c)
    BY <1>1, <2>4, ProcessedIsBleeped DEF Censor, Process
  <2> QED BY <1>1, <2>1, <2>2, <2>3, <2>4 DEF Process
<1>2. CASE Complete
  BY <1>2, Zenon DEF Complete, BleepsWhatWasSaid
<1>3. CASE StartPipeline \/ UNCHANGED allVars
  <2>1. UNCHANGED <<config, result>>
    BY <1>3 DEF StartPipeline, allVars, pipelineVars
  <2>2. config' = config /\ result' = result
    BY <2>1
  <2> QED BY <2>2, Zenon DEF BleepsWhatWasSaid, Covered, Bleeped, ReplacementLength
<1> QED BY <1>1, <1>2, <1>3 DEF PipelineNext

\* With words to be matched whole, exactly the frames of the segments that speak a listed
\* phrase are replaced; else at least those of the phrases that are spoken as listed: nothing
\* that process() (audio_pipeline.cpp) passes through, from the list as it was typed
\* to the samples, loses a phrase.
THEOREM WhatWasSaidIsBleeped == PipelineSpec => []BleepsWhatWasSaid
<1>1. PipelineInit => config \in Configs /\ BleepsWhatWasSaid
  BY Zenon DEF PipelineInit, BleepsWhatWasSaid
<1>2. config \in Configs /\ [PipelineNext]_allVars => (config \in Configs)'
  BY DEF PipelineNext, Process, Complete, StartPipeline, allVars, pipelineVars
<1>3. Inv /\ config \in Configs /\ BleepsWhatWasSaid /\ [PipelineNext]_allVars
        => BleepsWhatWasSaid'
  BY SaidStep
<1>4. PipelineSpec => []Inv
  BY PipelineDrivesTheTimeline, InvHolds, PTL
<1> QED BY <1>1, <1>2, <1>3, <1>4, PTL DEF PipelineSpec

=============================================================================
