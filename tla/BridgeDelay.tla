---- MODULE BridgeDelay ----
(***************************************************************************)
(* The delay line of NativeAudioBridge: what becomes of the packets OBS    *)
(* gives to filter_audio() (src/obs/native_audio_bridge.cpp), through the  *)
(* ingress thread and the core pipeline (src/core/audio_pipeline.cpp,      *)
(* process()) back to the callback that plays them.                        *)
(*                                                                         *)
(* The callback, the ingress thread and the pipeline's worker share        *)
(* single-producer single-consumer rings and two flags of which a callback *)
(* touches each once, so a callback is one action, as is each step of the  *)
(* other two: BridgeThreads and AudioWorker go into the threads.  Rings    *)
(* are sequences, capacities count the frames they can hold.               *)
(***************************************************************************)
EXTENDS Timeline, Sequences, FiniteSets

CONSTANTS
    Delay,              \* kProcessingDelayNanoseconds
    Jump,               \* kTimestampJumpNanoseconds
    RawCapacity,        \* packets raw_slots_ holds
    IngressCapacity,    \* packets ingress_slots_ holds
    CoreCapacity,       \* frames the pipeline's queue holds
    ResultCapacity,     \* results result_slots_ holds
    Lengths,            \* frames (and time) of a packet
    Offsets,            \* where a packet may start after the end of the last one
    Faulty,             \* a packet may hold a sample that is not finite
    MaxPackets,         \* bound: packets in a behaviour
    MaxStarts           \* bound: calls of start() in a behaviour

ASSUME DelayAssumption == Delay \in Nat /\ Jump \in Nat
ASSUME CapacityAssumption ==
    /\ RawCapacity \in Nat /\ IngressCapacity \in Nat
    /\ CoreCapacity \in Nat /\ ResultCapacity \in Nat
ASSUME PacketAssumption ==
    /\ Lengths \subseteq Nat \ {0} /\ Offsets \subseteq Int
    /\ Faulty \in BOOLEAN
    /\ MaxPackets \in Nat /\ MaxStarts \in Nat

VARIABLES
    running, ready,                 \* accepting_ and the pipeline; runtime_ready_
    hasStream, lastEnd, nextFrame,  \* has_stream_, last_end_timestamp_, next_frame_
    raw,                            \* raw_slots_, oldest first
    resetPending, gap,              \* result_reset_pending_, submit_gap_pending_
    ingress,                        \* ingress_slots_
    core, hand,                     \* the pipeline's queue, the frame in process()
    results,                        \* result_slots_
    timeline,                       \* the pipeline's timeline_
    sent,                           \* packets so far: a packet's number is its identity
    starts,                         \* calls of start() so far
    epochStart,                     \* history: first packet since the last break
    out                             \* history: what the last callback returned

streamVars == <<hasStream, lastEnd, nextFrame>>
vars == <<running, ready, streamVars, raw, resetPending, gap, ingress, core, hand,
          results, timeline, sent, starts, epochStart, out>>

PacketId == 1..MaxPackets
RawPacket == [id : PacketId, first : Nat, end : Int]
Packet == [id : PacketId, first : Nat, len : Lengths, flagged : BOOLEAN,
           finite : BOOLEAN]
ResultOf == [id : PacketId, first : Nat]

\* What filter_audio() returned: nothing while the delay fills, the packet it was
\* called with, or a result; `due` is the packet whose delay was over, 0 for none, and
\* `waiting` says that the result of that packet was there.
Output == [kind : {"silence", "original", "result"}, id : 0..MaxPackets,
           due : 0..MaxPackets, waiting : BOOLEAN]
Silence == [kind |-> "silence", id |-> 0, due |-> 0, waiting |-> FALSE]
Original(id, due, waiting) ==
    [kind |-> "original", id |-> id, due |-> due, waiting |-> waiting]
Result(r, due) ==
    [kind |-> "result", id |-> r.id, due |-> due, waiting |-> TRUE]

Init ==
    /\ running = FALSE /\ ready = FALSE
    /\ hasStream = FALSE /\ lastEnd = 0 /\ nextFrame = 0
    /\ raw = <<>> /\ resetPending = FALSE /\ gap = FALSE
    /\ ingress = <<>> /\ core = <<>> /\ hand = <<>> /\ results = <<>>
    /\ timeline = NewCoordinator
    /\ sent = 0 /\ starts = 0 /\ epochStart = 1
    /\ out = Silence

-----------------------------------------------------------------------------
(* filter_audio() *)

\* begin_stream_block(): the packet does not go on where the last one ended.
Breaks(time) == hasStream /\ (time < lastEnd \/ time - lastEnd > Jump)

\* Mutant of FirstFrame: the numbering starts again with the stream's time.
FirstFrameOfEpoch(broken) == IF broken THEN 0 ELSE nextFrame

\* Frame numbers go on over a break: no old result can claim a new packet.
FirstFrame(broken) == nextFrame

\* Mutant of KeptRaw: the ring goes on over a break.
KeptRawAlways(broken) == raw

KeptRaw(broken) == IF broken THEN <<>> ELSE raw

\* consume_ready(): results of frames that were never captured or are past are gone
\* over; those of later frames stay.
Older(rs, first) == {i \in DOMAIN rs : \A j \in 1..i : rs[j].first < first}

\* Mutant of From: only the head is looked at.
FromHead(rs, first) == rs

From(rs, first) == SubSeq(rs, Cardinality(Older(rs, first)) + 1, Len(rs))

\* Mutant of IngressFull: off by one.
IngressFullLate == Len(ingress) > IngressCapacity
IngressFull == Len(ingress) >= IngressCapacity

\* capture_raw() with a full ring: everything is given up, the packet is played.
Overflow(p) ==
    /\ raw' = <<>>
    /\ resetPending' = TRUE /\ gap' = TRUE
    /\ epochStart' = p.id + 1
    /\ out' = Original(p.id, 0, FALSE)
    /\ UNCHANGED <<ingress, results>>

\* capture_ingress(): the packet carries the pending gap unless it is a break itself.
CaptureIngress(p, broken) ==
    /\ ingress' = IF IngressFull THEN ingress
                  ELSE Append(ingress, [p EXCEPT !.flagged = broken \/ gap])
    /\ gap' = (IngressFull \/ (gap /\ broken))

\* consume_ready() with the delay of the oldest packet over: its result if it has one,
\* and otherwise the packet the callback was called with.
Play(id, due, rs) ==
    LET rest == From(rs, due.first)
        hit == rest # <<>> /\ Head(rest).first = due.first
        waiting == \E i \in DOMAIN rs : rs[i].id = due.id
    IN  /\ out' = IF hit THEN Result(Head(rest), due.id)
                  ELSE Original(id, due.id, waiting)
        /\ results' = IF hit THEN Tail(rest) ELSE rest

\* consume_ready() with the packet that ends at `end` just captured.
Consume(id, end, ring, rs) ==
    \/ /\ end - Head(ring).end < Delay
       /\ raw' = ring /\ results' = rs
       /\ out' = Silence
    \/ /\ end - Head(ring).end >= Delay
       /\ Play(id, Head(ring), rs)
       /\ raw' = Tail(ring)

FilterAudio(offset, len, finite) ==
    LET broken == Breaks(lastEnd + offset)
        end == lastEnd + offset + len
        p == [id |-> sent + 1, first |-> FirstFrame(broken), len |-> len,
              flagged |-> FALSE, finite |-> finite]
    IN  /\ running /\ sent < MaxPackets
        /\ sent' = p.id
        /\ hasStream' = TRUE
        /\ lastEnd' = end
        /\ nextFrame' = p.first + len
        /\ \/ Len(KeptRaw(broken)) >= RawCapacity /\ Overflow(p)
           \/ /\ Len(KeptRaw(broken)) < RawCapacity
              /\ CaptureIngress(p, broken)
              /\ resetPending' = FALSE
              /\ epochStart' = IF broken THEN p.id ELSE epochStart
              /\ Consume(p.id, end,
                         Append(KeptRaw(broken),
                                [id |-> p.id, first |-> p.first, end |-> end]),
                         IF resetPending \/ broken THEN <<>> ELSE results)
        /\ UNCHANGED <<running, ready, core, hand, timeline, starts>>

-----------------------------------------------------------------------------
(* The ingress thread and the pipeline's worker. *)

\* Mutant of SubmitPacket: a full pipeline is nobody's business.
SubmitPacketQuietly ==
    /\ ingress # <<>>
    /\ ingress' = Tail(ingress)
    /\ \/ ready /\ Len(core) < CoreCapacity
          /\ core' = Append(core, Head(ingress)) /\ UNCHANGED gap
       \/ ready /\ Len(core) >= CoreCapacity
          /\ UNCHANGED <<core, gap>>
       \/ ~ready /\ gap' = TRUE /\ UNCHANGED core
    /\ UNCHANGED <<running, ready, streamVars, raw, resetPending, hand, results,
                   timeline, sent, starts, epochStart, out>>

\* submit_packet(): what cannot be submitted leaves a gap.
SubmitPacket ==
    /\ ingress # <<>>
    /\ ingress' = Tail(ingress)
    /\ \/ ready /\ Len(core) < CoreCapacity
          /\ core' = Append(core, Head(ingress)) /\ UNCHANGED gap
       \/ ready /\ Len(core) >= CoreCapacity
          /\ gap' = TRUE /\ UNCHANGED core
       \/ ~ready /\ gap' = TRUE /\ UNCHANGED core
    /\ UNCHANGED <<running, ready, streamVars, raw, resetPending, hand, results,
                   timeline, sent, starts, epochStart, out>>

TakeFrame ==
    /\ hand = <<>> /\ core # <<>>
    /\ hand' = <<Head(core)>> /\ core' = Tail(core)
    /\ UNCHANGED <<running, ready, streamVars, raw, resetPending, gap, ingress,
                   results, timeline, sent, starts, epochStart, out>>

ChunkOf(p) == [first |-> p.first, count |-> p.len, rate |-> Rate,
               discontinuity |-> p.flagged]

\* process() and on_result(): the frame is placed on the timeline unless it holds a
\* sample that is not finite; whatever came of it, a result is handed over, and
\* dropped when the ring is full.
ProcessFrame ==
    /\ hand # <<>>
    /\ hand' = <<>>
    /\ timeline' = IF hand[1].finite
                   THEN AcceptChunk(timeline, ChunkOf(hand[1])).coordinator
                   ELSE timeline
    /\ results' = IF Len(results) < ResultCapacity
                  THEN Append(results, [id |-> hand[1].id, first |-> hand[1].first])
                  ELSE results
    /\ UNCHANGED <<running, ready, streamVars, raw, resetPending, gap, ingress, core,
                   sent, starts, epochStart, out>>

-----------------------------------------------------------------------------
(* The controller and the runtime. *)

RuntimeReady ==
    /\ running /\ ~ready
    /\ ready' = TRUE
    /\ UNCHANGED <<running, streamVars, raw, resetPending, gap, ingress, core, hand,
                   results, timeline, sent, starts, epochStart, out>>

\* stop() up to the drained pipeline.
Stop ==
    /\ running
    /\ running' = FALSE /\ ready' = FALSE
    /\ ingress' = <<>> /\ gap' = FALSE
    /\ UNCHANGED <<streamVars, raw, resetPending, core, hand, results, timeline, sent,
                   starts, epochStart, out>>

\* The rest of stop(), and start(): also update(), which is the two of them.
Start ==
    /\ ~running /\ core = <<>> /\ hand = <<>>
    /\ starts < MaxStarts /\ starts' = starts + 1
    /\ running' = TRUE /\ ready' = FALSE
    /\ hasStream' = FALSE /\ lastEnd' = 0 /\ nextFrame' = 0
    /\ raw' = <<>> /\ resetPending' = TRUE /\ gap' = FALSE
    /\ results' = <<>>
    /\ timeline' = ResetCoordinator(timeline)
    /\ epochStart' = sent + 1
    /\ out' = Silence
    /\ UNCHANGED <<ingress, core, hand, sent>>

-----------------------------------------------------------------------------
Next ==
    \/ \E offset \in Offsets, len \in Lengths, finite \in {TRUE, ~Faulty} :
           FilterAudio(offset, len, finite)
    \/ SubmitPacket \/ TakeFrame \/ ProcessFrame
    \/ RuntimeReady \/ Stop \/ Start

Spec == Init /\ [][Next]_vars

-----------------------------------------------------------------------------
TypeOK ==
    /\ running \in BOOLEAN /\ ready \in BOOLEAN /\ hasStream \in BOOLEAN
    /\ lastEnd \in Int /\ nextFrame \in Nat
    /\ raw \in Seq(RawPacket) /\ Len(raw) <= RawCapacity
    /\ ingress \in Seq(Packet) /\ Len(ingress) <= IngressCapacity
    /\ core \in Seq(Packet) /\ Len(core) <= CoreCapacity
    /\ hand \in Seq(Packet) /\ Len(hand) <= 1
    /\ results \in Seq(ResultOf) /\ Len(results) <= ResultCapacity
    /\ resetPending \in BOOLEAN /\ gap \in BOOLEAN
    /\ timeline \in Coordinator
    /\ sent \in 0..MaxPackets /\ starts \in 0..MaxStarts
    /\ epochStart \in 1 .. MaxPackets + 1
    /\ out \in Output

\* A result is played in the place of the packet it was made from, although all the
\* callback compares is a frame number: not for another packet, not for one of the
\* session before.
ResultBelongsToPacket == out.kind = "result" => out.id = out.due

\* "A late result from the old epoch" (native_audio_bridge.cpp:729-734) is not heard
\* any more once the host's clock has jumped, the ring overflowed or the filter was
\* started again.
NothingOldIsPlayed == out.kind = "result" => out.id >= epochStart

\* A result that is there when its packet falls due is the one played: no result
\* that came too late, and no gap in the frame numbers, hides it.
ReadyResultIsPlayed == out.waiting => out.kind = "result"

\* "Callers must mark the next chunk as discontinuous after a seek, dropped range,
\* stream restart, or similar timeline break" (audio_timeline.hpp:16-18): while the
\* timeline rejects what it gets, a packet with the mark is under way or the next one
\* to be captured will bear it, so that censoring is resumed.
Marked(queue) == \E i \in DOMAIN queue : queue[i].flagged
GapIsAnnounced ==
    running /\ timeline.requiresDiscontinuity =>
        gap \/ Marked(ingress) \/ Marked(core) \/ Marked(hand)

\* "The raw delay ring can still emit one bounded delayed block and keeps audio/video
\* timing stable" (native_audio_bridge.cpp:355-359): once the delay has filled, what
\* is played is the packet whose delay is over, as a result or as it was captured.
OutputIsDelayed == out.due # 0 => out.id = out.due

-----------------------------------------------------------------------------
(* Why frame numbers are enough. *)

\* What the callback can tell about the packets and results of a queue.
Tags(queue) == {[id |-> queue[i].id, first |-> queue[i].first] : i \in DOMAIN queue}
Known == Tags(raw) \cup Tags(ingress) \cup Tags(core) \cup Tags(hand) \cup Tags(results)

\* A frame number names one packet among all that is on its way, and the delay ring
\* holds nothing from before the last break.
NumberInv ==
    /\ \A t \in Known : t.id <= sent /\ t.first < nextFrame
    /\ \A t, u \in Known : t.first = u.first => t.id = u.id
    /\ \A t \in Tags(raw) : t.id >= epochStart
    /\ epochStart <= sent + 1
    /\ ~running => ingress = <<>>

-----------------------------------------------------------------------------
(* Why a result that is there is found: what is on its way from the callback and back  *)
(* is in the order of its numbers.                                                     *)

Ascends(queue) == \A i, j \in DOMAIN queue : i < j => queue[i].first < queue[j].first
Precede(tags, later) == \A t \in tags, u \in later : t.first < u.first

OrderInv ==
    /\ \A t, u \in Known : t.id = u.id => t.first = u.first
    /\ Ascends(results) /\ Ascends(core) /\ Ascends(ingress)
    /\ Precede(Tags(results), Tags(hand) \cup Tags(core) \cup Tags(ingress))
    /\ Precede(Tags(hand), Tags(core) \cup Tags(ingress))
    /\ Precede(Tags(core), Tags(ingress))

-----------------------------------------------------------------------------
(* Why the timeline is told of every gap. *)

FirstOf(queue, next) == IF queue = <<>> THEN next ELSE queue[1].first

\* From the last mark on, or from the beginning, the packets follow each other up to `next`.
Chained(queue, next) ==
    \A i \in DOMAIN queue :
        (\A j \in DOMAIN queue : i < j => ~queue[j].flagged) =>
            queue[i].first + queue[i].len
                = IF i = Len(queue) THEN next ELSE queue[i + 1].first

\* Packets the timeline will accept if they fit.
Sound(queue, next) ==
    \A i \in DOMAIN queue : queue[i].finite /\ queue[i].first + queue[i].len <= next

AfterCore == FirstOf(ingress, nextFrame)
AfterHand == FirstOf(core, AfterCore)

\* Unless the next packet is to be marked, those behind the last mark on its way are
\* contiguous, and if none is on its way the timeline is where they begin.
FlowInv ==
    running /\ ~gap =>
        /\ Chained(ingress, nextFrame)
        /\ ~Marked(ingress) => Chained(core, AfterCore)
        /\ ~Marked(ingress) /\ ~Marked(core) => Chained(hand, AfterHand)
        /\ ~Marked(ingress) /\ ~Marked(core) /\ ~Marked(hand) =>
              /\ ~timeline.requiresDiscontinuity
              /\ timeline.anchored => timeline.nextFrame = FirstOf(hand, AfterHand)

SoundInv == Sound(ingress, nextFrame) /\ Sound(core, nextFrame) /\ Sound(hand, nextFrame)

====
