---- MODULE BridgeDelayProofs ----
(***************************************************************************)
(* Why the callback of BridgeDelay may match results to packets by frame   *)
(* number alone, why the timeline is told of every gap, and why no result  *)
(* that is there is missed: for every capacity, delay and packet length,   *)
(* any jumps of the host's clock and any number of packets and restarts.   *)
(***************************************************************************)
EXTENDS BridgeDelay, FiniteSetTheorems, SequenceTheorems, TLAPS

-----------------------------------------------------------------------------
(* The rings. *)

\* A tag holds what its entry holds.
LEMMA TagsAreNumbers ==
    ASSUME NEW S, NEW queue \in Seq(S), \A x \in S : x.id \in Nat /\ x.first \in Nat
    PROVE  \A t \in Tags(queue) : t.id \in Nat /\ t.first \in Nat
<1>1. \A i \in DOMAIN queue : queue[i] \in S
  OBVIOUS
<1>2. \A i \in DOMAIN queue : queue[i].id \in Nat /\ queue[i].first \in Nat
  BY <1>1
<1>. QED BY <1>2 DEF Tags

\* What a queue gains by a push.
LEMMA TagsOfAppend ==
    ASSUME NEW S, NEW queue \in Seq(S), NEW x \in S
    PROVE  /\ Append(queue, x) \in Seq(S)
           /\ Append(queue, x) # <<>>
           /\ Len(Append(queue, x)) = Len(queue) + 1
           /\ Tags(Append(queue, x))
                 = Tags(queue) \cup {[id |-> x.id, first |-> x.first]}
<1>1. /\ Append(queue, x) \in Seq(S) /\ Append(queue, x) # <<>>
      /\ Len(Append(queue, x)) = Len(queue) + 1
      /\ \A i \in 1 .. Len(queue) : Append(queue, x)[i] = queue[i]
      /\ Append(queue, x)[Len(queue) + 1] = x
  BY AppendProperties
<1>2. /\ DOMAIN queue = 1 .. Len(queue) /\ Len(queue) \in Nat
      /\ DOMAIN Append(queue, x) = 1 .. Len(queue) + 1
  BY <1>1
<1>3. Tags(Append(queue, x)) \subseteq Tags(queue) \cup {[id |-> x.id, first |-> x.first]}
  BY <1>1, <1>2 DEF Tags
<1>4. Tags(queue) \subseteq Tags(Append(queue, x))
  BY <1>1, <1>2 DEF Tags
<1>5. [id |-> x.id, first |-> x.first] \in Tags(Append(queue, x))
  BY <1>1, <1>2 DEF Tags
<1>. QED BY <1>1, <1>3, <1>4, <1>5

\* What a queue loses by a pop, and what the pop returns.
LEMMA TagsOfHeadAndTail ==
    ASSUME NEW S, NEW queue \in Seq(S), queue # <<>>
    PROVE  /\ Head(queue) \in S /\ Tail(queue) \in Seq(S)
           /\ Len(Tail(queue)) = Len(queue) - 1
           /\ [id |-> Head(queue).id, first |-> Head(queue).first] \in Tags(queue)
           /\ Tags(Tail(queue)) \subseteq Tags(queue)
<1>1. /\ Head(queue) \in S /\ Tail(queue) \in Seq(S)
      /\ Len(Tail(queue)) = Len(queue) - 1
      /\ \A i \in 1 .. Len(Tail(queue)) : Tail(queue)[i] = queue[i + 1]
  BY HeadTailProperties
<1>2. /\ DOMAIN queue = 1 .. Len(queue) /\ Len(queue) \in Nat \ {0}
      /\ DOMAIN Tail(queue) = 1 .. Len(queue) - 1
      /\ Head(queue) = queue[1]
  BY <1>1
<1>3. [id |-> Head(queue).id, first |-> Head(queue).first] \in Tags(queue)
  BY <1>2 DEF Tags
<1>4. Tags(Tail(queue)) \subseteq Tags(queue)
  BY <1>1, <1>2 DEF Tags
<1>. QED BY <1>1, <1>3, <1>4

\* consume_ready() drops results at the front, one for each that is too old.
LEMMA FromIs ==
    ASSUME NEW S, NEW rs \in Seq(S), NEW first
    PROVE  /\ From(rs, first) \in Seq(S)
           /\ Len(From(rs, first)) <= Len(rs)
           /\ Cardinality(Older(rs, first)) \in Nat
           /\ \A i \in DOMAIN From(rs, first) :
                 /\ Cardinality(Older(rs, first)) + i \in DOMAIN rs
                 /\ From(rs, first)[i] = rs[Cardinality(Older(rs, first)) + i]
<1> DEFINE gone == Cardinality(Older(rs, first))
           rest == From(rs, first)
<1>1. Len(rs) \in Nat /\ DOMAIN rs = 1 .. Len(rs)
  OBVIOUS
<1>2. gone \in Nat
  <2>1. Older(rs, first) \in SUBSET (1 .. Len(rs))
    BY <1>1 DEF Older
  <2>2. IsFiniteSet(1 .. Len(rs))
    BY <1>1, FS_Interval
  <2>3. IsFiniteSet(Older(rs, first))
    BY <2>1, <2>2, FS_Subset
  <2>. QED BY <2>3, FS_CardinalityType
<1> HIDE DEF gone
<1>3. rest = SubSeq(rs, gone + 1, Len(rs))
  BY DEF From, gone
<1>4. \A i \in gone + 1 .. Len(rs) : rs[i] \in S
  BY <1>1, <1>2
<1>5. /\ rest \in Seq(S)
      /\ Len(rest) = IF gone + 1 <= Len(rs) THEN Len(rs) - (gone + 1) + 1 ELSE 0
      /\ \A i \in 1 .. Len(rs) - (gone + 1) + 1 : rest[i] = rs[gone + 1 + i - 1]
  BY <1>1, <1>2, <1>3, <1>4, SubSeqProperties
<1> HIDE DEF rest
<1>6. Len(rest) <= Len(rs)
  <2>1. \A g, n \in Nat : (IF g + 1 <= n THEN n - (g + 1) + 1 ELSE 0) <= n
    OBVIOUS
  <2>2. (IF gone + 1 <= Len(rs) THEN Len(rs) - (gone + 1) + 1 ELSE 0) <= Len(rs)
    BY <1>1, <1>2, <2>1
  <2>. QED BY <1>5, <2>2
<1>7. ASSUME NEW i \in DOMAIN rest
      PROVE  gone + i \in DOMAIN rs /\ rest[i] = rs[gone + i]
  <2>1. DOMAIN rest = 1 .. Len(rest)
    BY <1>5
  <2>2. \A g, n \in Nat :
          \A k \in 1 .. (IF g + 1 <= n THEN n - (g + 1) + 1 ELSE 0) :
            /\ k \in 1 .. n - (g + 1) + 1
            /\ g + k \in 1 .. n /\ g + 1 + k - 1 = g + k
    OBVIOUS
  <2>3. i \in 1 .. (IF gone + 1 <= Len(rs) THEN Len(rs) - (gone + 1) + 1 ELSE 0)
    BY <1>5, <2>1, Zenon
  <2>4. /\ i \in 1 .. Len(rs) - (gone + 1) + 1
        /\ gone + i \in 1 .. Len(rs) /\ gone + 1 + i - 1 = gone + i
    BY <1>1, <1>2, <2>2, <2>3
  <2>. QED BY <1>1, <1>5, <2>4
<1>. QED BY <1>2, <1>5, <1>6, <1>7 DEF rest, gone

\* Nothing is added by it.
LEMMA TagsOfFrom ==
    ASSUME NEW S, NEW rs \in Seq(S), NEW first
    PROVE  /\ From(rs, first) \in Seq(S)
           /\ Len(From(rs, first)) <= Len(rs)
           /\ Tags(From(rs, first)) \subseteq Tags(rs)
BY FromIs DEF Tags

-----------------------------------------------------------------------------
(* The callback, part by part. *)

\* What is played in the place of `due`, and what is left of the results.
LEMMA PlayIs ==
    ASSUME NEW id \in PacketId, NEW due \in RawPacket, NEW rs \in Seq(ResultOf),
           Play(id, due, rs)
    PROVE  /\ out' \in Output
           /\ results' \in Seq(ResultOf) /\ Len(results') <= Len(rs)
           /\ Tags(results') \subseteq Tags(rs)
           /\ out'.kind = "result" =>
                 /\ out'.due = due.id
                 /\ [id |-> out'.id, first |-> due.first] \in Tags(rs)
<1> DEFINE rest == From(rs, due.first)
           hit == rest # <<>> /\ Head(rest).first = due.first
           waiting == \E i \in DOMAIN rs : rs[i].id = due.id
<1>1. /\ out' = IF hit THEN Result(Head(rest), due.id) ELSE Original(id, due.id, waiting)
      /\ results' = IF hit THEN Tail(rest) ELSE rest
  BY DEF Play
<1>2. /\ rest \in Seq(ResultOf) /\ Len(rest) <= Len(rs)
      /\ Tags(rest) \subseteq Tags(rs)
  BY TagsOfFrom
<1>3. due.id \in PacketId /\ due.id \in 0..MaxPackets /\ id \in 0..MaxPackets
  BY PacketAssumption DEF RawPacket, PacketId
<1>4. waiting \in BOOLEAN
  OBVIOUS
<1> HIDE DEF rest, waiting
<1>5. CASE hit
  <2>1. /\ Head(rest) \in ResultOf /\ Tail(rest) \in Seq(ResultOf)
        /\ Len(Tail(rest)) = Len(rest) - 1
        /\ [id |-> Head(rest).id, first |-> Head(rest).first] \in Tags(rest)
        /\ Tags(Tail(rest)) \subseteq Tags(rest)
    BY <1>2, <1>5, TagsOfHeadAndTail
  <2>2. out' = [kind |-> "result", id |-> Head(rest).id, due |-> due.id,
                waiting |-> TRUE]
    BY <1>1, <1>5 DEF Result
  <2>3. Head(rest).id \in 0..MaxPackets
    BY <2>1, PacketAssumption DEF ResultOf, PacketId
  <2>4. out' \in Output
    BY <1>3, <2>2, <2>3 DEF Output
  <2>5. results' \in Seq(ResultOf) /\ Len(results') <= Len(rs)
    <3>1. results' = Tail(rest)
      BY <1>1, <1>5
    <3>2. Len(rest) - 1 <= Len(rs)
      BY <1>2
    <3>. QED BY <2>1, <3>1, <3>2
  <2>6. Tags(results') \subseteq Tags(rs)
    BY <1>1, <1>2, <1>5, <2>1
  <2>7. out'.due = due.id /\ [id |-> out'.id, first |-> due.first] \in Tags(rs)
    BY <1>2, <1>5, <2>1, <2>2
  <2>. QED BY <2>4, <2>5, <2>6, <2>7
<1>6. CASE ~hit
  <2>1. out' = [kind |-> "original", id |-> id, due |-> due.id, waiting |-> waiting]
    BY <1>1, <1>6 DEF Original
  <2>2. out' \in Output
    BY <1>3, <1>4, <2>1 DEF Output
  <2>3. out'.kind # "result" /\ results' = rest
    BY <1>1, <1>6, <2>1
  <2>. QED BY <1>2, <2>2, <2>3
<1>. QED BY <1>5, <1>6

\* The delay ring after a capture, and where a result that is played comes from.
LEMMA ConsumeIs ==
    ASSUME NEW id \in PacketId, NEW end \in Int, NEW ring \in Seq(RawPacket),
           ring # <<>>, NEW rs \in Seq(ResultOf),
           Consume(id, end, ring, rs)
    PROVE  /\ out' \in Output
           /\ results' \in Seq(ResultOf) /\ Len(results') <= Len(rs)
           /\ Tags(results') \subseteq Tags(rs)
           /\ raw' \in Seq(RawPacket) /\ Len(raw') <= Len(ring)
           /\ Tags(raw') \subseteq Tags(ring)
           /\ out'.kind = "result" =>
                 \E t \in Tags(ring), u \in Tags(rs) :
                     out'.due = t.id /\ out'.id = u.id /\ t.first = u.first
<1>1. /\ Head(ring) \in RawPacket /\ Tail(ring) \in Seq(RawPacket)
      /\ Len(Tail(ring)) = Len(ring) - 1
      /\ [id |-> Head(ring).id, first |-> Head(ring).first] \in Tags(ring)
      /\ Tags(Tail(ring)) \subseteq Tags(ring)
  BY TagsOfHeadAndTail
<1>2. CASE raw' = ring /\ results' = rs /\ out' = Silence
  <2>1. Silence \in Output /\ Silence.kind # "result"
    BY PacketAssumption DEF Silence, Output
  <2>. QED BY <1>2, <2>1
<1>3. CASE Play(id, Head(ring), rs) /\ raw' = Tail(ring)
  <2>1. /\ out' \in Output
        /\ results' \in Seq(ResultOf) /\ Len(results') <= Len(rs)
        /\ Tags(results') \subseteq Tags(rs)
        /\ out'.kind = "result" =>
              /\ out'.due = Head(ring).id
              /\ [id |-> out'.id, first |-> Head(ring).first] \in Tags(rs)
    BY <1>1, <1>3, PlayIs
  <2>2. ASSUME out'.kind = "result"
        PROVE  \E t \in Tags(ring), u \in Tags(rs) :
                   out'.due = t.id /\ out'.id = u.id /\ t.first = u.first
    <3> DEFINE t == [id |-> Head(ring).id, first |-> Head(ring).first]
               u == [id |-> out'.id, first |-> Head(ring).first]
    <3>1. t \in Tags(ring) /\ u \in Tags(rs)
      BY <1>1, <2>1, <2>2
    <3>2. out'.due = t.id /\ out'.id = u.id /\ t.first = u.first
      BY <2>1, <2>2
    <3>. QED BY <3>1, <3>2
  <2>3. Len(raw') <= Len(ring)
    BY <1>1, <1>3
  <2>. QED BY <1>1, <1>3, <2>1, <2>2, <2>3
<1>. QED BY <1>2, <1>3 DEF Consume

\* What the callback can tell about the packet it captures.
NewTag == [id |-> sent + 1, first |-> nextFrame]

\* What the callback leaves in the ingress ring: what was there, and its packet.
LEMMA CaptureIngressIs ==
    ASSUME TypeOK, NEW p \in Packet, NEW broken \in BOOLEAN,
           CaptureIngress(p, broken)
    PROVE  /\ ingress' \in Seq(Packet) /\ Len(ingress') <= IngressCapacity
           /\ Tags(ingress') \subseteq Tags(ingress) \cup {[id |-> p.id, first |-> p.first]}
           /\ gap' \in BOOLEAN
<1> DEFINE q == [p EXCEPT !.flagged = broken \/ gap]
<1>1. ingress \in Seq(Packet) /\ Len(ingress) <= IngressCapacity /\ gap \in BOOLEAN
  BY DEF TypeOK
<1>2. q \in Packet /\ q.id = p.id /\ q.first = p.first
  BY <1>1 DEF Packet
<1>3. gap' \in BOOLEAN
  BY <1>1 DEF CaptureIngress, IngressFull
<1> HIDE DEF q
<1>4. CASE IngressFull
  <2>1. ingress' = ingress
    BY <1>4 DEF CaptureIngress, q
  <2>. QED BY <1>1, <1>3, <2>1
<1>5. CASE ~IngressFull
  <2>1. ingress' = Append(ingress, q)
    BY <1>5 DEF CaptureIngress, q
  <2>2. /\ Append(ingress, q) \in Seq(Packet)
        /\ Len(Append(ingress, q)) = Len(ingress) + 1
        /\ Tags(Append(ingress, q)) = Tags(ingress) \cup {[id |-> q.id, first |-> q.first]}
    BY <1>1, <1>2, TagsOfAppend
  <2>3. Len(ingress) + 1 <= IngressCapacity
    BY <1>1, <1>5, CapacityAssumption DEF IngressFull
  <2>. QED BY <1>2, <1>3, <2>1, <2>2, <2>3
<1>. QED BY <1>4, <1>5

\* A callback knows its own packet beside what was known; a result it plays has the
\* frame number of a packet that was in the delay ring and survived the break.
LEMMA FilterAudioIs ==
    ASSUME TypeOK, NEW offset \in Offsets, NEW len \in Lengths, NEW finite \in BOOLEAN,
           FilterAudio(offset, len, finite)
    PROVE  /\ sent < MaxPackets /\ sent' = sent + 1
           /\ running /\ UNCHANGED <<running, ready, core, hand, timeline, starts>>
           /\ hasStream' \in BOOLEAN /\ lastEnd' \in Int
           /\ nextFrame' = nextFrame + len
           /\ raw' \in Seq(RawPacket) /\ Len(raw') <= RawCapacity
           /\ resetPending' \in BOOLEAN /\ gap' \in BOOLEAN
           /\ ingress' \in Seq(Packet) /\ Len(ingress') <= IngressCapacity
           /\ Tags(ingress') \subseteq Tags(ingress) \cup {NewTag}
           /\ results' \in Seq(ResultOf) /\ Len(results') <= ResultCapacity
           /\ Tags(results') \subseteq Tags(results)
           /\ out' \in Output
           /\ \/ raw' = <<>> /\ epochStart' = sent + 2 /\ out'.kind # "result"
              \/ \E kept \in SUBSET Tags(raw) :
                    /\ epochStart' = epochStart \/ (epochStart' = sent + 1 /\ kept = {})
                    /\ Tags(raw') \subseteq kept \cup {NewTag}
                    /\ out'.kind = "result" =>
                          \E t \in kept \cup {NewTag}, u \in Tags(results) :
                              out'.due = t.id /\ out'.id = u.id /\ t.first = u.first
<1> DEFINE broken == Breaks(lastEnd + offset)
           end == lastEnd + offset + len
           p == [id |-> sent + 1, first |-> FirstFrame(broken), len |-> len,
                 flagged |-> FALSE, finite |-> finite]
           kept == KeptRaw(broken)
           entry == [id |-> p.id, first |-> p.first, end |-> end]
           ring == Append(kept, entry)
           rs == IF resetPending \/ broken THEN <<>> ELSE results
<1>1. /\ running /\ sent < MaxPackets
      /\ sent' = p.id /\ hasStream' = TRUE /\ lastEnd' = end
      /\ nextFrame' = p.first + len
      /\ UNCHANGED <<running, ready, core, hand, timeline, starts>>
      /\ \/ Len(kept) >= RawCapacity /\ Overflow(p)
         \/ /\ Len(kept) < RawCapacity
            /\ CaptureIngress(p, broken)
            /\ resetPending' = FALSE
            /\ epochStart' = IF broken THEN p.id ELSE epochStart
            /\ Consume(p.id, end, ring, rs)
  BY DEF FilterAudio
<1>2. /\ sent \in 0..MaxPackets /\ sent + 1 \in PacketId /\ sent + 1 \in 0..MaxPackets
      /\ nextFrame \in Nat /\ len \in Nat /\ end \in Int
  BY <1>1, PacketAssumption DEF TypeOK, PacketId
<1>3. /\ p \in Packet /\ p.id = sent + 1 /\ p.first = nextFrame
      /\ NewTag = [id |-> p.id, first |-> p.first]
  BY <1>2 DEF Packet, FirstFrame, NewTag
<1>4. entry \in RawPacket /\ NewTag = [id |-> entry.id, first |-> entry.first]
  BY <1>2, <1>3 DEF RawPacket
<1>5. broken \in BOOLEAN
  BY DEF Breaks, TypeOK
<1>6. /\ kept \in Seq(RawPacket) /\ Tags(kept) \subseteq Tags(raw)
      /\ broken => Tags(kept) = {}
  BY DEF KeptRaw, TypeOK, Tags
<1>7. /\ rs \in Seq(ResultOf) /\ Len(rs) <= ResultCapacity
      /\ Tags(rs) \subseteq Tags(results)
  BY CapacityAssumption DEF TypeOK, Tags
<1> HIDE DEF broken, p, kept, entry, ring, rs, end
<1>8. CASE Overflow(p)
  <2>1. /\ raw' = <<>> /\ resetPending' = TRUE /\ gap' = TRUE
        /\ epochStart' = p.id + 1
        /\ out' = [kind |-> "original", id |-> p.id, due |-> 0, waiting |-> FALSE]
        /\ ingress' = ingress /\ results' = results
    BY <1>8 DEF Overflow, Original
  <2>2. raw' \in Seq(RawPacket) /\ Len(raw') <= RawCapacity
    BY <2>1, CapacityAssumption
  <2>3. out' \in Output /\ out'.kind # "result"
    BY <1>2, <1>3, <2>1, PacketAssumption DEF Output
  <2>4. epochStart' = sent + 2
    BY <1>2, <1>3, <2>1
  <2>5. /\ ingress' \in Seq(Packet) /\ Len(ingress') <= IngressCapacity
        /\ Tags(ingress') \subseteq Tags(ingress) \cup {NewTag}
        /\ results' \in Seq(ResultOf) /\ Len(results') <= ResultCapacity
        /\ Tags(results') \subseteq Tags(results)
    BY <2>1 DEF TypeOK
  <2>. QED
    BY <1>1, <1>2, <1>3, <2>1, <2>2, <2>3, <2>4, <2>5
<1>9. CASE /\ Len(kept) < RawCapacity
           /\ CaptureIngress(p, broken)
           /\ resetPending' = FALSE
           /\ epochStart' = IF broken THEN p.id ELSE epochStart
           /\ Consume(p.id, end, ring, rs)
  <2>1. /\ ingress' \in Seq(Packet) /\ Len(ingress') <= IngressCapacity
        /\ Tags(ingress') \subseteq Tags(ingress) \cup {NewTag}
        /\ gap' \in BOOLEAN
    BY <1>3, <1>5, <1>9, CaptureIngressIs
  <2>2. /\ ring \in Seq(RawPacket) /\ ring # <<>> /\ Len(ring) = Len(kept) + 1
        /\ Tags(ring) = Tags(kept) \cup {NewTag}
    BY <1>4, <1>6, TagsOfAppend DEF ring
  <2>3. /\ out' \in Output
        /\ results' \in Seq(ResultOf) /\ Len(results') <= Len(rs)
        /\ Tags(results') \subseteq Tags(rs)
        /\ raw' \in Seq(RawPacket) /\ Len(raw') <= Len(ring)
        /\ Tags(raw') \subseteq Tags(ring)
        /\ out'.kind = "result" =>
              \E t \in Tags(ring), u \in Tags(rs) :
                  out'.due = t.id /\ out'.id = u.id /\ t.first = u.first
    BY <1>2, <1>3, <1>7, <1>9, <2>2, ConsumeIs
  <2>4. Len(raw') <= RawCapacity
    BY <1>6, <1>9, <2>2, <2>3, CapacityAssumption
  <2>5. Len(results') <= ResultCapacity /\ Tags(results') \subseteq Tags(results)
    BY <1>7, <2>3, CapacityAssumption
  <2>6. /\ epochStart' = epochStart \/ (epochStart' = sent + 1 /\ Tags(kept) = {})
        /\ Tags(raw') \subseteq Tags(kept) \cup {NewTag}
        /\ out'.kind = "result" =>
              \E t \in Tags(kept) \cup {NewTag}, u \in Tags(results) :
                  out'.due = t.id /\ out'.id = u.id /\ t.first = u.first
    <3>1. epochStart' = epochStart \/ (epochStart' = sent + 1 /\ Tags(kept) = {})
      BY <1>3, <1>6, <1>9
    <3>. QED BY <1>7, <2>2, <2>3, <3>1
  <2>. QED
    BY <1>1, <1>2, <1>3, <1>6, <1>9, <2>1, <2>3, <2>4, <2>5, <2>6
<1>. QED BY <1>1, <1>8, <1>9

-----------------------------------------------------------------------------
(* The other steps. *)

\* The pipeline's timeline stays a timeline whatever frame it is given.
LEMMA TimelineKeepsType ==
    ASSUME timeline \in Coordinator, NEW p \in Packet
    PROVE  AcceptChunk(timeline, ChunkOf(p)).coordinator \in Coordinator
<1> DEFINE c == ChunkOf(p)
           t == timeline
<1>1. t.generation \in Generation /\ NextGeneration(t.generation) \in Generation
  BY WidthAssumption DEF Coordinator, Generation, NextGeneration
<1>2. GenerationFor(t, c) \in Generation
  BY <1>1 DEF GenerationFor
<1>3. 0 \in Int64
  BY WidthAssumption DEF Int64
<1> HIDE DEF c, t
<1>4. CASE Refusal(t, c) = "none"
  <2>1. ~AddOverflows(c.first, c.count)
    BY <1>4 DEF Refusal
  <2>2. c.first + c.count \in Int64
    BY <2>1 DEF AddOverflows
  <2>3. AcceptChunk(t, c).coordinator =
           [anchored |-> TRUE, requiresDiscontinuity |-> FALSE,
            nextFrame |-> c.first + c.count, generation |-> GenerationFor(t, c)]
    BY <1>4 DEF AcceptChunk
  <2>. QED BY <1>2, <2>2, <2>3 DEF Coordinator, c, t
<1>5. CASE Refusal(t, c) # "none" /\ Refusal(t, c) = "non_contiguous" /\ Misfit(t, c)
  <2>1. AcceptChunk(t, c).coordinator =
           [anchored |-> FALSE, requiresDiscontinuity |-> TRUE,
            nextFrame |-> 0, generation |-> NextGeneration(t.generation)]
    BY <1>5 DEF AcceptChunk
  <2>. QED BY <1>1, <1>3, <2>1 DEF Coordinator, c, t
<1>6. CASE Refusal(t, c) # "none" /\ ~(Refusal(t, c) = "non_contiguous" /\ Misfit(t, c))
  <2>1. AcceptChunk(t, c).coordinator = t
    BY <1>6 DEF AcceptChunk
  <2>. QED BY <2>1 DEF t, c
<1>. QED BY <1>4, <1>5, <1>6 DEF t, c

\* What the ingress thread moves: packets of the ring to the pipeline's queue.
LEMMA SubmitPacketIs ==
    ASSUME TypeOK, SubmitPacket
    PROVE  /\ ingress' \in Seq(Packet) /\ Len(ingress') <= IngressCapacity
           /\ core' \in Seq(Packet) /\ Len(core') <= CoreCapacity
           /\ gap' \in BOOLEAN
           /\ Tags(ingress') \subseteq Tags(ingress)
           /\ Tags(core') \subseteq Tags(core) \cup Tags(ingress)
           /\ ingress # <<>>
<1> DEFINE p == Head(ingress)
<1>1. ingress # <<>> /\ ingress' = Tail(ingress)
  BY DEF SubmitPacket
<1>2. /\ ingress \in Seq(Packet) /\ Len(ingress) <= IngressCapacity
      /\ core \in Seq(Packet) /\ Len(core) <= CoreCapacity /\ gap \in BOOLEAN
  BY DEF TypeOK
<1>3. /\ p \in Packet /\ Tail(ingress) \in Seq(Packet)
      /\ Len(Tail(ingress)) = Len(ingress) - 1
      /\ [id |-> p.id, first |-> p.first] \in Tags(ingress)
      /\ Tags(Tail(ingress)) \subseteq Tags(ingress)
  BY <1>1, <1>2, TagsOfHeadAndTail
<1>4. Len(ingress') <= IngressCapacity
  BY <1>1, <1>2, <1>3, CapacityAssumption
<1>5. gap' \in BOOLEAN
  BY <1>2 DEF SubmitPacket
<1>6. CASE Len(core) < CoreCapacity /\ core' = Append(core, p)
  <2>1. /\ core' \in Seq(Packet) /\ Len(core') = Len(core) + 1
        /\ Tags(core') = Tags(core) \cup {[id |-> p.id, first |-> p.first]}
    BY <1>2, <1>3, <1>6, TagsOfAppend
  <2>2. Len(core') <= CoreCapacity
    BY <1>2, <1>6, <2>1, CapacityAssumption
  <2>. QED BY <1>1, <1>3, <1>4, <1>5, <2>1, <2>2
<1>7. CASE core' = core
  BY <1>1, <1>2, <1>3, <1>4, <1>5, <1>7
<1>. QED BY <1>6, <1>7 DEF SubmitPacket

\* The pipeline's worker takes a packet of its queue.
LEMMA TakeFrameIs ==
    ASSUME TypeOK, TakeFrame
    PROVE  /\ core' \in Seq(Packet) /\ Len(core') <= CoreCapacity
           /\ hand' \in Seq(Packet) /\ Len(hand') <= 1
           /\ Tags(core') \subseteq Tags(core)
           /\ Tags(hand') \subseteq Tags(core)
<1>1. core # <<>> /\ hand' = <<Head(core)>> /\ core' = Tail(core)
  BY DEF TakeFrame
<1>2. core \in Seq(Packet) /\ Len(core) <= CoreCapacity
  BY DEF TypeOK
<1>3. /\ Head(core) \in Packet /\ Tail(core) \in Seq(Packet)
      /\ Len(Tail(core)) = Len(core) - 1
      /\ [id |-> Head(core).id, first |-> Head(core).first] \in Tags(core)
      /\ Tags(Tail(core)) \subseteq Tags(core)
  BY <1>1, <1>2, TagsOfHeadAndTail
<1>4. Len(core') <= CoreCapacity
  BY <1>1, <1>2, <1>3, CapacityAssumption
<1>5. hand' \in Seq(Packet) /\ Len(hand') <= 1
  BY <1>1, <1>3
<1>6. Tags(hand') \subseteq Tags(core)
  <2>1. DOMAIN hand' = {1} /\ hand'[1] = Head(core)
    BY <1>1
  <2>. QED BY <1>3, <2>1 DEF Tags
<1>. QED BY <1>1, <1>3, <1>4, <1>5, <1>6

\* And leaves a result of the one in hand, if any.
LEMMA ProcessFrameIs ==
    ASSUME TypeOK, ProcessFrame
    PROVE  /\ hand' = <<>>
           /\ timeline' \in Coordinator
           /\ results' \in Seq(ResultOf) /\ Len(results') <= ResultCapacity
           /\ Tags(results') \subseteq Tags(results) \cup Tags(hand)
<1> DEFINE p == hand[1]
           r == [id |-> p.id, first |-> p.first]
<1>1. /\ hand # <<>> /\ hand' = <<>>
      /\ timeline' = IF p.finite THEN AcceptChunk(timeline, ChunkOf(p)).coordinator
                     ELSE timeline
      /\ results' = IF Len(results) < ResultCapacity THEN Append(results, r) ELSE results
  BY DEF ProcessFrame
<1>2. /\ hand \in Seq(Packet) /\ results \in Seq(ResultOf)
      /\ Len(results) <= ResultCapacity /\ timeline \in Coordinator
  BY DEF TypeOK
<1>3. p \in Packet /\ 1 \in DOMAIN hand
  BY <1>1, <1>2
<1>4. r \in ResultOf /\ r.id = p.id /\ r.first = p.first /\ r \in Tags(hand)
  BY <1>3 DEF Packet, ResultOf, Tags
<1>5. timeline' \in Coordinator
  BY <1>1, <1>2, <1>3, TimelineKeepsType
<1> HIDE DEF p, r
<1>6. CASE Len(results) < ResultCapacity
  <2>1. /\ Append(results, r) \in Seq(ResultOf)
        /\ Len(Append(results, r)) = Len(results) + 1
        /\ Tags(Append(results, r)) = Tags(results) \cup {[id |-> r.id, first |-> r.first]}
    BY <1>2, <1>4, TagsOfAppend
  <2>2. [id |-> r.id, first |-> r.first] = r
    BY <1>4 DEF r
  <2>3. Len(results) + 1 <= ResultCapacity
    BY <1>2, <1>6, CapacityAssumption
  <2>4. results' = Append(results, r)
    BY <1>1, <1>6
  <2>. QED BY <1>1, <1>4, <1>5, <2>1, <2>2, <2>3, <2>4
<1>7. CASE ~(Len(results) < ResultCapacity)
  BY <1>1, <1>2, <1>5, <1>7
<1>. QED BY <1>6, <1>7

-----------------------------------------------------------------------------
(* Types. *)

\* No ring overfills at first.
LEMMA DelayTypeInit == Init => TypeOK
<1> SUFFICES ASSUME Init PROVE TypeOK
  OBVIOUS
<1>1. NewCoordinator \in Coordinator
  BY WidthAssumption DEF NewCoordinator, Coordinator, Int64, Generation
<1>2. Silence \in Output
  BY PacketAssumption DEF Silence, Output
<1>3. /\ sent \in 0..MaxPackets /\ starts \in 0..MaxStarts
      /\ epochStart \in 1 .. MaxPackets + 1
  BY PacketAssumption DEF Init
<1>4. /\ raw \in Seq(RawPacket) /\ Len(raw) <= RawCapacity
      /\ ingress \in Seq(Packet) /\ Len(ingress) <= IngressCapacity
      /\ core \in Seq(Packet) /\ Len(core) <= CoreCapacity
      /\ hand \in Seq(Packet) /\ Len(hand) <= 1
      /\ results \in Seq(ResultOf) /\ Len(results) <= ResultCapacity
  BY CapacityAssumption DEF Init
<1>5. /\ running \in BOOLEAN /\ ready \in BOOLEAN /\ hasStream \in BOOLEAN
      /\ resetPending \in BOOLEAN /\ gap \in BOOLEAN
  BY DEF Init
<1>6. lastEnd \in Int /\ nextFrame \in Nat
  BY DEF Init
<1>7. timeline \in Coordinator /\ out \in Output
  BY <1>1, <1>2 DEF Init
<1>. QED BY <1>3, <1>4, <1>5, <1>6, <1>7 DEF TypeOK

\* None does after any step.
LEMMA DelayTypeStep ==
    ASSUME TypeOK, [Next]_vars
    PROVE  TypeOK'
<1>1. CASE UNCHANGED vars
  BY <1>1 DEF vars, streamVars, TypeOK
<1>2. ASSUME NEW offset \in Offsets, NEW len \in Lengths, NEW finite \in {TRUE, ~Faulty},
             FilterAudio(offset, len, finite)
      PROVE  TypeOK'
  <2>1. finite \in BOOLEAN
    BY PacketAssumption
  <2>2. /\ sent < MaxPackets /\ sent' = sent + 1
        /\ running /\ UNCHANGED <<running, ready, core, hand, timeline, starts>>
        /\ hasStream' \in BOOLEAN /\ lastEnd' \in Int
        /\ nextFrame' = nextFrame + len
        /\ raw' \in Seq(RawPacket) /\ Len(raw') <= RawCapacity
        /\ resetPending' \in BOOLEAN /\ gap' \in BOOLEAN
        /\ ingress' \in Seq(Packet) /\ Len(ingress') <= IngressCapacity
        /\ results' \in Seq(ResultOf) /\ Len(results') <= ResultCapacity
        /\ out' \in Output
        /\ epochStart' \in {epochStart, sent + 1, sent + 2}
    BY <1>2, <2>1, FilterAudioIs
  <2>3. /\ nextFrame' \in Nat /\ sent' \in 0..MaxPackets
        /\ epochStart' \in 1 .. MaxPackets + 1
    BY <2>2, PacketAssumption DEF TypeOK
  <2>. QED BY <2>2, <2>3 DEF TypeOK
<1>3. CASE SubmitPacket
  <2>1. UNCHANGED <<running, ready, streamVars, raw, resetPending, hand, results,
                    timeline, sent, starts, epochStart, out>>
    BY <1>3 DEF SubmitPacket
  <2>. QED BY <1>3, <2>1, SubmitPacketIs DEF TypeOK, streamVars
<1>4. CASE TakeFrame
  <2>1. UNCHANGED <<running, ready, streamVars, raw, resetPending, gap, ingress,
                    results, timeline, sent, starts, epochStart, out>>
    BY <1>4 DEF TakeFrame
  <2>. QED BY <1>4, <2>1, TakeFrameIs DEF TypeOK, streamVars
<1>5. CASE ProcessFrame
  <2>1. UNCHANGED <<running, ready, streamVars, raw, resetPending, gap, ingress, core,
                    sent, starts, epochStart, out>>
    BY <1>5 DEF ProcessFrame
  <2>2. <<>> \in Seq(Packet) /\ Len(<<>>) <= 1
    OBVIOUS
  <2>. QED BY <1>5, <2>1, <2>2, ProcessFrameIs DEF TypeOK, streamVars
<1>6. CASE RuntimeReady
  BY <1>6 DEF RuntimeReady, TypeOK, streamVars
<1>7. CASE Stop
  <2>1. <<>> \in Seq(Packet) /\ Len(<<>>) <= IngressCapacity
    BY CapacityAssumption
  <2>. QED BY <1>7, <2>1 DEF Stop, TypeOK, streamVars
<1>8. CASE Start
  <2>1. /\ <<>> \in Seq(RawPacket) /\ Len(<<>>) <= RawCapacity
        /\ <<>> \in Seq(ResultOf) /\ Len(<<>>) <= ResultCapacity
    BY CapacityAssumption
  <2>2. ResetCoordinator(timeline) \in Coordinator
    BY WidthAssumption DEF TypeOK, ResetCoordinator, Coordinator, Int64, Generation,
         NextGeneration
  <2>3. Silence \in Output
    BY PacketAssumption DEF Silence, Output
  <2>4. starts' \in 0..MaxStarts /\ epochStart' \in 1 .. MaxPackets + 1
    BY <1>8, PacketAssumption DEF Start, TypeOK
  <2>5. 0 \in Nat /\ 0 \in Int
    OBVIOUS
  <2>. QED BY <1>8, <2>1, <2>2, <2>3, <2>4, <2>5 DEF Start, TypeOK
<1>. QED
  BY <1>1, <1>2, <1>3, <1>4, <1>5, <1>6, <1>7, <1>8 DEF Next

\* The rings never hold more than their slots, and the pipeline's timeline never
\* leaves std::int64_t, however the host's clock jumps.
THEOREM DelayTypeCorrect == Spec => []TypeOK
BY DelayTypeInit, DelayTypeStep, PTL DEF Spec

-----------------------------------------------------------------------------
(* Frame numbers. *)

\* What is on its way has numbers.
LEMMA KnownAreNumbers ==
    ASSUME TypeOK
    PROVE  /\ sent \in Nat /\ nextFrame \in Nat
           /\ \A t \in Known : t.id \in Nat /\ t.first \in Nat
<1>1. /\ \A x \in RawPacket : x.id \in Nat /\ x.first \in Nat
      /\ \A x \in Packet : x.id \in Nat /\ x.first \in Nat
      /\ \A x \in ResultOf : x.id \in Nat /\ x.first \in Nat
  BY PacketAssumption DEF RawPacket, Packet, ResultOf, PacketId
<1>2. \A t \in Tags(raw) : t.id \in Nat /\ t.first \in Nat
  BY <1>1, TagsAreNumbers DEF TypeOK
<1>3. \A q \in Seq(Packet) : \A t \in Tags(q) : t.id \in Nat /\ t.first \in Nat
  BY <1>1, TagsAreNumbers
<1>4. \A t \in Tags(results) : t.id \in Nat /\ t.first \in Nat
  BY <1>1, TagsAreNumbers DEF TypeOK
<1>5. ingress \in Seq(Packet) /\ core \in Seq(Packet) /\ hand \in Seq(Packet)
  BY DEF TypeOK
<1>6. sent \in Nat /\ nextFrame \in Nat
  BY PacketAssumption DEF TypeOK
<1> QED BY <1>2, <1>3, <1>4, <1>5, <1>6 DEF Known

\* What was known keeps its properties, whoever moves it on.
LEMMA KnownShrinks ==
    ASSUME NumberInv, Known' \subseteq Known, Tags(raw') \subseteq Tags(raw),
           UNCHANGED <<sent, nextFrame, epochStart>>,
           ~running' => ingress' = <<>>
    PROVE  NumberInv'
BY DEF NumberInv

\* The properties of the result played last stay until the next callback.
PlayedInv == ResultBelongsToPacket /\ NothingOldIsPlayed

\* The callback gives a number that no packet on its way has.
LEMMA FilterAudioKeepsNumbers ==
    ASSUME TypeOK, NumberInv,
           NEW offset \in Offsets, NEW len \in Lengths, NEW finite \in {TRUE, ~Faulty},
           FilterAudio(offset, len, finite)
    PROVE  NumberInv' /\ PlayedInv'
<1>1. finite \in BOOLEAN
  BY PacketAssumption
<1>2. /\ sent \in Nat /\ nextFrame \in Nat /\ len \in Nat \ {0} /\ epochStart \in Nat
  BY PacketAssumption DEF TypeOK
<1>3. /\ sent' = sent + 1 /\ nextFrame' = nextFrame + len
      /\ running /\ UNCHANGED <<running, core, hand>>
      /\ Tags(ingress') \subseteq Tags(ingress) \cup {NewTag}
      /\ Tags(results') \subseteq Tags(results)
  BY <1>1, FilterAudioIs
<1>4. \/ raw' = <<>> /\ epochStart' = sent + 2 /\ out'.kind # "result"
      \/ \E kept \in SUBSET Tags(raw) :
            /\ epochStart' = epochStart \/ (epochStart' = sent + 1 /\ kept = {})
            /\ Tags(raw') \subseteq kept \cup {NewTag}
            /\ out'.kind = "result" =>
                  \E t \in kept \cup {NewTag}, u \in Tags(results) :
                      out'.due = t.id /\ out'.id = u.id /\ t.first = u.first
  BY <1>1, FilterAudioIs
<1>5. /\ \A t \in Known : t.id \in Nat /\ t.first \in Nat
      /\ NewTag.id = sent + 1 /\ NewTag.first = nextFrame
  BY KnownAreNumbers DEF NewTag
<1>6. /\ \A t \in Known : t.id <= sent /\ t.first < nextFrame
      /\ \A t, u \in Known : t.first = u.first => t.id = u.id
      /\ \A t \in Tags(raw) : t.id >= epochStart
      /\ epochStart <= sent + 1
  BY DEF NumberInv
<1>7. Tags(raw') \subseteq Tags(raw) \cup {NewTag}
  <2>1. CASE raw' = <<>>
    BY <2>1 DEF Tags
  <2>. QED BY <1>4, <2>1
<1>8. Known' \subseteq Known \cup {NewTag}
  BY <1>3, <1>7 DEF Known
<1>9. \A t, u \in Known \cup {NewTag} : t.first = u.first => t.id = u.id
  BY <1>2, <1>5, <1>6
<1>10. /\ \A t \in Known' : t.id <= sent' /\ t.first < nextFrame'
       /\ \A t, u \in Known' : t.first = u.first => t.id = u.id
  <2>1. \A t \in Known \cup {NewTag} : t.id <= sent + 1 /\ t.first < nextFrame + len
    BY <1>2, <1>5, <1>6
  <2>. QED BY <1>3, <1>8, <1>9, <2>1
<1>11. CASE raw' = <<>> /\ epochStart' = sent + 2 /\ out'.kind # "result"
  <2>1. Tags(raw') = {}
    BY <1>11 DEF Tags
  <2>2. epochStart' <= sent' + 1
    BY <1>2, <1>3, <1>11
  <2>3. NumberInv'
    BY <1>3, <1>10, <2>1, <2>2 DEF NumberInv
  <2>. QED
    BY <1>11, <2>3 DEF PlayedInv, ResultBelongsToPacket, NothingOldIsPlayed
<1>12. ASSUME NEW kept \in SUBSET Tags(raw),
              epochStart' = epochStart \/ (epochStart' = sent + 1 /\ kept = {}),
              Tags(raw') \subseteq kept \cup {NewTag},
              out'.kind = "result" =>
                  \E t \in kept \cup {NewTag}, u \in Tags(results) :
                      out'.due = t.id /\ out'.id = u.id /\ t.first = u.first
       PROVE  NumberInv' /\ PlayedInv'
  <2>1. epochStart' <= sent' + 1
    BY <1>2, <1>3, <1>6, <1>12
  <2>2. \A t \in kept \cup {NewTag} : t.id >= epochStart'
    BY <1>2, <1>5, <1>6, <1>12
  <2>3. NumberInv'
    BY <1>3, <1>10, <1>12, <2>1, <2>2 DEF NumberInv
  <2>4. ASSUME out'.kind = "result"
        PROVE  out'.id = out'.due /\ out'.id >= epochStart'
    <3>1. PICK t \in kept \cup {NewTag}, u \in Tags(results) :
              out'.due = t.id /\ out'.id = u.id /\ t.first = u.first
      BY <1>12, <2>4
    <3>2. t \in Known \cup {NewTag} /\ u \in Known \cup {NewTag}
      BY <1>12, <3>1 DEF Known
    <3>3. t.id = u.id
      BY <1>9, <3>1, <3>2
    <3>. QED BY <2>2, <3>1, <3>3
  <2>. QED
    BY <2>3, <2>4 DEF PlayedInv, ResultBelongsToPacket, NothingOldIsPlayed
<1>. QED BY <1>4, <1>11, <1>12

\* A frame number names one packet, after any step.
LEMMA NumberStep ==
    ASSUME TypeOK, NumberInv, PlayedInv, [Next]_vars
    PROVE  NumberInv' /\ PlayedInv'
<1>1. ASSUME UNCHANGED <<out, epochStart>>
      PROVE  PlayedInv'
  BY <1>1 DEF PlayedInv, ResultBelongsToPacket, NothingOldIsPlayed
<1>2. CASE UNCHANGED vars
  BY <1>1, <1>2 DEF vars, streamVars, NumberInv, Known
<1>3. CASE SubmitPacket
  <2>1. UNCHANGED <<running, nextFrame, raw, hand, results, sent, epochStart, out>>
    BY <1>3 DEF SubmitPacket, streamVars
  <2>2. Known' \subseteq Known
    BY <1>3, <2>1, SubmitPacketIs DEF Known
  <2>3. running
    BY <1>3, SubmitPacketIs DEF NumberInv
  <2>. QED BY <1>1, <2>1, <2>2, <2>3, KnownShrinks
<1>4. CASE TakeFrame
  <2>1. UNCHANGED <<running, nextFrame, raw, ingress, results, sent, epochStart, out>>
    BY <1>4 DEF TakeFrame, streamVars
  <2>2. Known' \subseteq Known
    BY <1>4, <2>1, TakeFrameIs DEF Known
  <2>. QED BY <1>1, <2>1, <2>2, KnownShrinks DEF NumberInv
<1>5. CASE ProcessFrame
  <2>1. UNCHANGED <<running, nextFrame, raw, ingress, core, sent, epochStart, out>>
    BY <1>5 DEF ProcessFrame, streamVars
  <2>2. Tags(hand') = {}
    BY <1>5, ProcessFrameIs DEF Tags
  <2>3. Known' \subseteq Known
    BY <1>5, <2>1, <2>2, ProcessFrameIs DEF Known
  <2>. QED BY <1>1, <2>1, <2>3, KnownShrinks DEF NumberInv
<1>6. CASE RuntimeReady
  <2>1. UNCHANGED <<running, nextFrame, raw, ingress, core, hand, results, sent,
                    epochStart, out>>
    BY <1>6 DEF RuntimeReady, streamVars
  <2>2. Known' \subseteq Known
    BY <2>1 DEF Known
  <2>. QED BY <1>1, <2>1, <2>2, KnownShrinks DEF NumberInv
<1>7. CASE Stop
  <2>1. /\ ingress' = <<>>
        /\ UNCHANGED <<nextFrame, raw, core, hand, results, sent, epochStart, out>>
    BY <1>7 DEF Stop, streamVars
  <2>2. Known' \subseteq Known
    BY <2>1 DEF Known, Tags
  <2>. QED BY <1>1, <2>1, <2>2, KnownShrinks
<1>8. CASE Start
  <2>1. /\ ~running /\ core = <<>> /\ hand = <<>>
        /\ raw' = <<>> /\ results' = <<>> /\ running' = TRUE
        /\ epochStart' = sent + 1
        /\ out' = [kind |-> "silence", id |-> 0, due |-> 0, waiting |-> FALSE]
        /\ UNCHANGED <<ingress, core, hand, sent>>
    BY <1>8 DEF Start, Silence
  <2>2. ingress = <<>>
    BY <2>1 DEF NumberInv
  <2>3. Known' = {} /\ Tags(raw') = {}
    BY <2>1, <2>2 DEF Known, Tags
  <2>4. epochStart' <= sent' + 1
    BY <2>1 DEF TypeOK
  <2>5. NumberInv'
    BY <2>1, <2>3, <2>4 DEF NumberInv
  <2>. QED
    BY <2>1, <2>5 DEF PlayedInv, ResultBelongsToPacket, NothingOldIsPlayed
<1>. QED
  BY <1>2, <1>3, <1>4, <1>5, <1>6, <1>7, <1>8, FilterAudioKeepsNumbers DEF Next

\* So it does always.
LEMMA NumbersHold == Spec => [](NumberInv /\ PlayedInv)
<1>1. Init => NumberInv /\ PlayedInv
  <2> SUFFICES ASSUME Init PROVE NumberInv /\ PlayedInv
    OBVIOUS
  <2>1. Known = {} /\ Tags(raw) = {}
    BY DEF Init, Known, Tags
  <2>2. epochStart <= sent + 1 /\ ingress = <<>>
    BY DEF Init
  <2>3. out.kind # "result"
    BY DEF Init, Silence
  <2>. QED
    BY <2>1, <2>2, <2>3 DEF NumberInv, PlayedInv, ResultBelongsToPacket,
         NothingOldIsPlayed
<1>. QED
  BY <1>1, DelayTypeCorrect, NumberStep, PTL DEF Spec

\* Comparing frame numbers is enough: the callback never plays the result of another
\* packet in the place of the one that is due, nor one of an earlier session.
THEOREM ResultsBelongToPackets == Spec => []ResultBelongsToPacket
BY NumbersHold, PTL DEF PlayedInv

\* After a jump of the host's clock, an overflow of the delay ring or a restart no
\* result of the time before is played.
THEOREM NothingOldIsHeard == Spec => []NothingOldIsPlayed
BY NumbersHold, PTL DEF PlayedInv

-----------------------------------------------------------------------------
(* Contiguous queues. *)

\* What remains of a queue when its head is taken, and where the head ended.
LEMMA ChainedTail ==
    ASSUME NEW queue \in Seq(Packet), queue # <<>>, NEW next, Chained(queue, next)
    PROVE  /\ Chained(Tail(queue), next)
           /\ ~Marked(Tail(queue)) =>
                 queue[1].first + queue[1].len = FirstOf(Tail(queue), next)
<1> DEFINE rest == Tail(queue)
<1>1. /\ Len(rest) = Len(queue) - 1 /\ Len(queue) \in Nat \ {0}
      /\ DOMAIN queue = 1 .. Len(queue) /\ DOMAIN rest = 1 .. Len(queue) - 1
      /\ \A i \in 1 .. Len(queue) - 1 : rest[i] = queue[i + 1]
  BY HeadTailProperties
<1>2. ~Marked(rest) => queue[1].first + queue[1].len = FirstOf(rest, next)
  <2> SUFFICES ASSUME ~Marked(rest)
               PROVE  queue[1].first + queue[1].len = FirstOf(rest, next)
    OBVIOUS
  <2>1. \A j \in DOMAIN queue : 1 < j => ~queue[j].flagged
    <3> SUFFICES ASSUME NEW j \in DOMAIN queue, 1 < j PROVE ~queue[j].flagged
      OBVIOUS
    <3>1. j - 1 \in DOMAIN rest /\ rest[j - 1] = queue[j]
      BY <1>1
    <3> QED BY <3>1 DEF Marked
  <2>2. queue[1].first + queue[1].len = IF 1 = Len(queue) THEN next ELSE queue[1 + 1].first
    BY <1>1, <2>1 DEF Chained
  <2>3. CASE Len(queue) = 1
    BY <1>1, <2>2, <2>3, EmptySeq, HeadTailProperties DEF FirstOf
  <2>4. CASE Len(queue) # 1
    <3>1. Len(rest) # 0 /\ rest[1] = queue[1 + 1]
      BY <1>1, <2>4
    <3>2. rest # <<>>
      BY <3>1, EmptySeq
    <3> QED BY <2>2, <2>4, <3>1, <3>2 DEF FirstOf
  <2> QED BY <2>3, <2>4
<1>3. ASSUME NEW i \in DOMAIN rest, \A j \in DOMAIN rest : i < j => ~rest[j].flagged
      PROVE  rest[i].first + rest[i].len = IF i = Len(rest) THEN next ELSE rest[i + 1].first
  <2>1. i + 1 \in DOMAIN queue /\ rest[i] = queue[i + 1]
    BY <1>1
  <2>2. \A j \in DOMAIN queue : i + 1 < j => ~queue[j].flagged
    <3> SUFFICES ASSUME NEW j \in DOMAIN queue, i + 1 < j PROVE ~queue[j].flagged
      OBVIOUS
    <3>1. j - 1 \in DOMAIN rest /\ rest[j - 1] = queue[j] /\ i < j - 1
      BY <1>1
    <3> QED BY <1>3, <3>1
  <2>3. queue[i + 1].first + queue[i + 1].len
           = IF i + 1 = Len(queue) THEN next ELSE queue[i + 1 + 1].first
    BY <2>1, <2>2 DEF Chained
  <2>4. CASE i = Len(rest)
    BY <1>1, <2>1, <2>3, <2>4
  <2>5. CASE i # Len(rest)
    <3>1. rest[i + 1] = queue[i + 1 + 1] /\ i + 1 # Len(queue)
      BY <1>1, <2>5
    <3> QED BY <2>1, <2>3, <2>5, <3>1
  <2> QED BY <2>4, <2>5
<1> QED
  BY <1>2, <1>3 DEF Chained

\* The marks of a queue are those of its head and of its tail.
LEMMA MarkedTail ==
    ASSUME NEW queue \in Seq(Packet), queue # <<>>
    PROVE  Marked(queue) <=> queue[1].flagged \/ Marked(Tail(queue))
<1>1. /\ Len(queue) \in Nat \ {0}
      /\ DOMAIN queue = 1 .. Len(queue) /\ DOMAIN Tail(queue) = 1 .. Len(queue) - 1
      /\ \A i \in 1 .. Len(queue) - 1 : Tail(queue)[i] = queue[i + 1]
  BY HeadTailProperties
<1>2. ASSUME NEW i \in DOMAIN queue, queue[i].flagged, i # 1
      PROVE  Marked(Tail(queue))
  <2>1. i - 1 \in DOMAIN Tail(queue) /\ Tail(queue)[i - 1] = queue[i]
    BY <1>1, <1>2
  <2> QED BY <1>2, <2>1 DEF Marked
<1>3. ASSUME NEW i \in DOMAIN Tail(queue), Tail(queue)[i].flagged
      PROVE  Marked(queue)
  <2>1. i + 1 \in DOMAIN queue /\ Tail(queue)[i] = queue[i + 1]
    BY <1>1
  <2> QED BY <1>3, <2>1 DEF Marked
<1>4. 1 \in DOMAIN queue
  BY <1>1
<1> QED
  BY <1>2, <1>3, <1>4 DEF Marked

\* What a queue becomes when a packet follows it.
LEMMA ChainedAppend ==
    ASSUME NEW queue \in Seq(Packet), NEW x \in Packet,
           x.flagged \/ Chained(queue, x.first)
    PROVE  /\ Chained(Append(queue, x), x.first + x.len)
           /\ Marked(Append(queue, x)) <=> Marked(queue) \/ x.flagged
           /\ \A next : FirstOf(Append(queue, x), next) = FirstOf(queue, x.first)
<1> DEFINE longer == Append(queue, x)
           n == Len(queue)
<1>1. /\ longer \in Seq(Packet) /\ longer # <<>> /\ n \in Nat
      /\ DOMAIN queue = 1 .. n /\ Len(longer) = n + 1 /\ DOMAIN longer = 1 .. n + 1
      /\ \A i \in 1 .. n : longer[i] = queue[i]
      /\ longer[n + 1] = x
  BY AppendProperties
<1> HIDE DEF longer, n
<1>2. ASSUME NEW i \in 1 .. n + 1, \A j \in 1 .. n + 1 : i < j => ~longer[j].flagged
      PROVE  longer[i].first + longer[i].len
                = IF i = n + 1 THEN x.first + x.len ELSE longer[i + 1].first
  <2>1. CASE i = n + 1
    BY <1>1, <2>1
  <2>2. CASE i # n + 1
    <3>1. ~x.flagged
      BY <1>1, <1>2, <2>2
    <3>2. i \in 1 .. n /\ \A j \in 1 .. n : i < j => ~queue[j].flagged
      BY <1>1, <1>2, <2>2
    <3>3. queue[i].first + queue[i].len = IF i = n THEN x.first ELSE queue[i + 1].first
      BY <1>1, <3>1, <3>2 DEF Chained, n
    <3>4. CASE i = n
      BY <1>1, <2>2, <3>2, <3>3, <3>4
    <3>5. CASE i # n
      <4>1. i + 1 \in 1 .. n
        BY <1>1, <3>2, <3>5
      <4> QED BY <1>1, <2>2, <3>2, <3>3, <3>5, <4>1
    <3> QED BY <3>4, <3>5
  <2> QED BY <2>1, <2>2
<1>3. Chained(longer, x.first + x.len)
  BY <1>1, <1>2 DEF Chained
<1>4. Marked(longer) <=> Marked(queue) \/ x.flagged
  <2>1. ASSUME NEW i \in DOMAIN queue, queue[i].flagged
        PROVE  Marked(longer)
    BY <1>1, <2>1 DEF Marked
  <2>2. x.flagged => Marked(longer)
    BY <1>1 DEF Marked
  <2>3. ASSUME NEW i \in DOMAIN longer, longer[i].flagged, ~x.flagged
        PROVE  Marked(queue)
    BY <1>1, <2>3 DEF Marked
  <2> QED BY <2>1, <2>2, <2>3 DEF Marked
<1>5. \A next : FirstOf(longer, next) = FirstOf(queue, x.first)
  <2>1. CASE queue = <<>>
    <3>1. longer[1] = x
      BY <1>1, <2>1, EmptySeq DEF n
    <3> QED BY <1>1, <2>1, <3>1 DEF FirstOf
  <2>2. CASE queue # <<>>
    <3>1. n # 0
      BY <2>2, EmptySeq DEF n
    <3>2. longer[1] = queue[1]
      BY <1>1, <3>1
    <3> QED BY <1>1, <2>2, <3>2 DEF FirstOf
  <2> QED BY <2>1, <2>2
<1> QED
  BY <1>3, <1>4, <1>5 DEF longer

\* A queue of sound packets without its first one.
LEMMA SoundTail ==
    ASSUME NEW queue \in Seq(Packet), queue # <<>>, NEW next, Sound(queue, next)
    PROVE  /\ Sound(Tail(queue), next)
           /\ queue[1] \in Packet /\ queue[1].finite /\ queue[1].first + queue[1].len <= next
<1>1. /\ Len(queue) \in Nat \ {0}
      /\ DOMAIN queue = 1 .. Len(queue) /\ DOMAIN Tail(queue) = 1 .. Len(queue) - 1
      /\ \A i \in 1 .. Len(queue) - 1 : Tail(queue)[i] = queue[i + 1]
  BY HeadTailProperties
<1>2. ASSUME NEW i \in DOMAIN Tail(queue)
      PROVE  Tail(queue)[i].finite /\ Tail(queue)[i].first + Tail(queue)[i].len <= next
  <2>1. i + 1 \in DOMAIN queue /\ Tail(queue)[i] = queue[i + 1]
    BY <1>1
  <2> QED BY <2>1 DEF Sound
<1>3. 1 \in DOMAIN queue /\ queue[1] \in Packet
  BY <1>1
<1> QED
  BY <1>2, <1>3 DEF Sound

\* And with one more.
LEMMA SoundAppend ==
    ASSUME NEW queue \in Seq(Packet), NEW x \in Packet, NEW next, Sound(queue, next),
           x.finite, x.first + x.len <= next
    PROVE  Sound(Append(queue, x), next)
<1>1. /\ Len(queue) \in Nat /\ DOMAIN queue = 1 .. Len(queue)
      /\ DOMAIN Append(queue, x) = 1 .. Len(queue) + 1
      /\ \A i \in 1 .. Len(queue) : Append(queue, x)[i] = queue[i]
      /\ Append(queue, x)[Len(queue) + 1] = x
  BY AppendProperties
<1> SUFFICES ASSUME NEW i \in DOMAIN Append(queue, x)
             PROVE  /\ Append(queue, x)[i].finite
                    /\ Append(queue, x)[i].first + Append(queue, x)[i].len <= next
  BY DEF Sound
<1>2. CASE i = Len(queue) + 1
  BY <1>1, <1>2
<1>3. CASE i # Len(queue) + 1
  <2>1. i \in DOMAIN queue
    BY <1>1, <1>3
  <2> QED BY <1>1, <2>1 DEF Sound
<1> QED BY <1>2, <1>3

-----------------------------------------------------------------------------
(* The packet a callback captures, and what the timeline does with one. *)

\* The packet takes the next number; it bears the pending mark, or is a mark itself, or is
\* lost and leaves one pending.
LEMMA CapturedIs ==
    ASSUME TypeOK, NEW offset \in Offsets, NEW len \in Lengths, NEW finite \in BOOLEAN,
           FilterAudio(offset, len, finite)
    PROVE  \E x \in Packet :
              /\ x.id = sent + 1 /\ x.first = nextFrame /\ x.len = len /\ x.finite = finite
              /\ x.flagged \/ ~gap
              /\ \/ ingress' = ingress /\ gap'
                 \/ ingress' = Append(ingress, x)
<1> DEFINE broken == Breaks(lastEnd + offset)
           p == [id |-> sent + 1, first |-> FirstFrame(broken), len |-> len,
                 flagged |-> FALSE, finite |-> finite]
           x == [p EXCEPT !.flagged = broken \/ gap]
<1>1. /\ sent < MaxPackets
      /\ Overflow(p) \/ CaptureIngress(p, broken)
  BY DEF FilterAudio
<1>2. sent + 1 \in PacketId /\ nextFrame \in Nat
  BY <1>1, PacketAssumption DEF TypeOK, PacketId
<1>3. broken \in BOOLEAN /\ gap \in BOOLEAN
  BY DEF Breaks, TypeOK
<1>4. p \in Packet /\ p.id = sent + 1 /\ p.first = nextFrame /\ p.len = len /\ p.finite = finite
  BY <1>2 DEF Packet, FirstFrame
<1>5. Overflow(p) => ingress' = ingress /\ gap'
  BY DEF Overflow
<1>6. CaptureIngress(p, broken) => \/ ingress' = ingress /\ gap'
                                   \/ ingress' = Append(ingress, x)
  BY DEF CaptureIngress
<1> HIDE DEF p, broken
<1>7. /\ x \in Packet /\ x.id = sent + 1 /\ x.first = nextFrame
      /\ x.len = len /\ x.finite = finite
  BY <1>3, <1>4 DEF Packet
<1>8. x.flagged = (broken \/ gap)
  BY <1>4 DEF Packet
<1>9. x.flagged \/ ~gap
  BY <1>8
<1> HIDE DEF x
<1> QED
  BY <1>1, <1>5, <1>6, <1>7, <1>9

\* A packet that fits or is marked is accepted, as long as its number can be one.
LEMMA FittingIsAccepted ==
    ASSUME timeline \in Coordinator, NEW p \in Packet, p.first + p.len <= MaxFrame,
           \/ p.flagged
           \/ /\ ~timeline.requiresDiscontinuity
              /\ timeline.anchored => timeline.nextFrame = p.first
    PROVE  LET after == AcceptChunk(timeline, ChunkOf(p)).coordinator
           IN  ~after.requiresDiscontinuity /\ after.nextFrame = p.first + p.len
<1> DEFINE c == ChunkOf(p)
<1>1. /\ c.first = p.first /\ c.count = p.len /\ c.rate = Rate
      /\ c.discontinuity = p.flagged
  BY DEF ChunkOf
<1>2. p.first \in Nat /\ p.len \in Nat \ {0}
  BY PacketAssumption DEF Packet
<1> HIDE DEF c
<1>3. ~AddOverflows(c.first, c.count) /\ ~(c.first < 0 \/ c.count <= 0)
  BY <1>1, <1>2, WidthAssumption DEF AddOverflows, Int64
<1>4. ~Unacknowledged(timeline, c)
  BY <1>1 DEF Unacknowledged
<1>5. ~Misfit(timeline, c)
  BY <1>1 DEF Misfit
<1>6. Refusal(timeline, c) = "none"
  BY <1>1, <1>3, <1>4, <1>5 DEF Refusal
<1>7. AcceptChunk(timeline, c).coordinator =
         [anchored |-> TRUE, requiresDiscontinuity |-> FALSE,
          nextFrame |-> c.first + c.count, generation |-> GenerationFor(timeline, c)]
  BY <1>6 DEF AcceptChunk
<1> QED
  BY <1>1, <1>7 DEF c

-----------------------------------------------------------------------------
(* Gaps. *)

Flow == FlowInv /\ SoundInv

\* The callback either continues the chain of packets or marks the gap.
LEMMA CallbackKeepsFlow ==
    ASSUME TypeOK, Flow, NEW offset \in Offsets, NEW len \in Lengths,
           FilterAudio(offset, len, TRUE)
    PROVE  Flow'
<1>1. /\ running /\ UNCHANGED <<running, core, hand, timeline>>
      /\ nextFrame' = nextFrame + len
  BY FilterAudioIs
<1>2. PICK x \in Packet :
         /\ x.first = nextFrame /\ x.len = len /\ x.finite
         /\ x.flagged \/ ~gap
         /\ \/ ingress' = ingress /\ gap'
            \/ ingress' = Append(ingress, x)
  BY CapturedIs
<1>3. /\ ingress \in Seq(Packet) /\ core \in Seq(Packet) /\ hand \in Seq(Packet)
      /\ nextFrame \in Nat /\ len \in Nat
  BY PacketAssumption DEF TypeOK
<1>4. ASSUME NEW queue \in Seq(Packet), Sound(queue, nextFrame)
      PROVE  Sound(queue, nextFrame + len)
  <2>1. \A i \in DOMAIN queue : queue[i].first \in Nat /\ queue[i].len \in Nat
    <3>1. \A i \in DOMAIN queue : queue[i] \in Packet
      BY <1>4
    <3> QED BY <3>1, PacketAssumption DEF Packet
  <2> QED BY <1>3, <1>4, <2>1 DEF Sound
<1>5. SoundInv'
  <2>1. Sound(ingress, nextFrame + len) /\ Sound(core, nextFrame + len)
        /\ Sound(hand, nextFrame + len)
    BY <1>3, <1>4 DEF Flow, SoundInv
  <2>2. Sound(Append(ingress, x), nextFrame + len)
    BY <1>2, <1>3, <2>1, SoundAppend
  <2>3. Sound(ingress', nextFrame + len)
    BY <1>2, <2>1, <2>2
  <2> QED BY <1>1, <2>1, <2>3 DEF SoundInv
<1>6. ASSUME ~gap', ingress' = Append(ingress, x)
      PROVE  FlowInv'
  <2>1. ~x.flagged => /\ Chained(ingress, x.first)
                      /\ ~Marked(ingress) => Chained(core, AfterCore)
                      /\ ~Marked(ingress) /\ ~Marked(core) => Chained(hand, AfterHand)
                      /\ ~Marked(ingress) /\ ~Marked(core) /\ ~Marked(hand) =>
                            /\ ~timeline.requiresDiscontinuity
                            /\ timeline.anchored => timeline.nextFrame = FirstOf(hand, AfterHand)
    BY <1>1, <1>2 DEF Flow, FlowInv
  <2>2. /\ Chained(ingress', nextFrame')
        /\ Marked(ingress') <=> Marked(ingress) \/ x.flagged
        /\ AfterCore' = FirstOf(ingress, x.first)
    <3>1. x.flagged \/ Chained(ingress, x.first)
      BY <2>1
    <3> QED BY <1>1, <1>2, <1>3, <1>6, <3>1, ChainedAppend DEF AfterCore
  <2>3. AfterCore' = AfterCore
    BY <1>2, <2>2 DEF AfterCore
  <2>4. AfterHand' = AfterHand
    BY <1>1, <2>3 DEF AfterHand
  <2>5. Marked(core') = Marked(core) /\ Marked(hand') = Marked(hand)
    BY <1>1
  <2> QED
    BY <1>1, <2>1, <2>2, <2>3, <2>4, <2>5 DEF FlowInv
<1>7. FlowInv'
  BY <1>2, <1>6 DEF FlowInv
<1> QED
  BY <1>5, <1>7 DEF Flow

\* Moving a packet on, or dropping it, does the same.
LEMMA SubmitKeepsFlow ==
    ASSUME TypeOK, Flow, SubmitPacket
    PROVE  Flow'
<1> DEFINE x == Head(ingress)
<1>1. /\ ingress # <<>> /\ ingress' = Tail(ingress)
      /\ \/ core' = Append(core, x) /\ gap' = gap
         \/ core' = core /\ gap'
      /\ UNCHANGED <<running, nextFrame, hand, timeline>>
  BY DEF SubmitPacket, streamVars
<1>2. /\ ingress \in Seq(Packet) /\ core \in Seq(Packet) /\ hand \in Seq(Packet)
      /\ x = ingress[1] /\ x \in Packet /\ Tail(ingress) \in Seq(Packet)
  BY <1>1, HeadTailProperties DEF TypeOK
<1> HIDE DEF x
<1>3. SoundInv'
  <2>1. /\ Sound(Tail(ingress), nextFrame) /\ x.finite /\ x.first + x.len <= nextFrame
        /\ Sound(core, nextFrame) /\ Sound(hand, nextFrame)
    BY <1>1, <1>2, SoundTail DEF Flow, SoundInv
  <2>2. Sound(Append(core, x), nextFrame)
    BY <1>2, <2>1, SoundAppend
  <2> QED BY <1>1, <2>1, <2>2 DEF SoundInv
<1>4. ASSUME running, ~gap', core' = Append(core, x), gap' = gap
      PROVE  FlowInv'
  <2>1. /\ Chained(ingress, nextFrame)
        /\ ~Marked(ingress) => Chained(core, AfterCore)
        /\ ~Marked(ingress) /\ ~Marked(core) => Chained(hand, AfterHand)
        /\ ~Marked(ingress) /\ ~Marked(core) /\ ~Marked(hand) =>
              /\ ~timeline.requiresDiscontinuity
              /\ timeline.anchored => timeline.nextFrame = FirstOf(hand, AfterHand)
    BY <1>4 DEF Flow, FlowInv
  <2>2. /\ Chained(Tail(ingress), nextFrame)
        /\ ~Marked(Tail(ingress)) => x.first + x.len = FirstOf(Tail(ingress), nextFrame)
        /\ Marked(ingress) <=> x.flagged \/ Marked(Tail(ingress))
        /\ AfterCore = x.first
    BY <1>1, <1>2, <2>1, ChainedTail, MarkedTail DEF AfterCore, FirstOf
  <2>3. AfterCore' = FirstOf(Tail(ingress), nextFrame)
    BY <1>1 DEF AfterCore
  <2>4. CASE Marked(Tail(ingress))
    <3>1. Chained(ingress', nextFrame') /\ Marked(ingress')
      BY <1>1, <2>2, <2>4
    <3> QED BY <3>1 DEF FlowInv
  <2>5. CASE ~Marked(Tail(ingress))
    <3>1. x.flagged \/ Chained(core, x.first)
      BY <2>1, <2>2, <2>5
    <3>2. /\ Chained(core', AfterCore')
          /\ Marked(core') <=> Marked(core) \/ x.flagged
          /\ AfterHand' = FirstOf(core, x.first)
      BY <1>2, <1>4, <2>2, <2>3, <2>5, <3>1, ChainedAppend DEF AfterHand
    <3>3. AfterHand' = AfterHand
      BY <2>2, <3>2 DEF AfterHand
    <3>4. Chained(ingress', nextFrame') /\ ~Marked(ingress')
      BY <1>1, <2>2, <2>5
    <3>5. /\ Marked(hand') = Marked(hand) /\ timeline' = timeline /\ hand' = hand
      BY <1>1
    <3>6. ~Marked(core') => ~Marked(core) /\ ~Marked(ingress)
      BY <2>2, <2>5, <3>2
    <3> QED
      BY <2>1, <3>2, <3>3, <3>4, <3>5, <3>6 DEF FlowInv
  <2> QED BY <2>4, <2>5
<1>5. FlowInv'
  BY <1>1, <1>4 DEF FlowInv
<1> QED
  BY <1>3, <1>5 DEF Flow

\* Taking it into the hand changes nothing of the chain.
LEMMA TakeKeepsFlow ==
    ASSUME TypeOK, Flow, TakeFrame
    PROVE  Flow'
<1> DEFINE x == Head(core)
<1>1. /\ hand = <<>> /\ core # <<>> /\ hand' = <<x>> /\ core' = Tail(core)
      /\ UNCHANGED <<running, nextFrame, gap, ingress, timeline>>
  BY DEF TakeFrame, streamVars
<1>2. /\ core \in Seq(Packet) /\ x = core[1] /\ x \in Packet
      /\ Tail(core) \in Seq(Packet) /\ <<>> \in Seq(Packet)
  BY <1>1, HeadTailProperties DEF TypeOK
<1> HIDE DEF x
<1>3. hand' = Append(<<>>, x)
  BY <1>1
<1>4. SoundInv'
  <2>1. /\ Sound(Tail(core), nextFrame) /\ x.finite /\ x.first + x.len <= nextFrame
        /\ Sound(ingress, nextFrame) /\ Sound(<<>>, nextFrame)
    BY <1>1, <1>2, SoundTail DEF Flow, SoundInv
  <2>2. Sound(hand', nextFrame)
    BY <1>2, <1>3, <2>1, SoundAppend
  <2> QED BY <1>1, <2>1, <2>2 DEF SoundInv
<1>5. ASSUME running, ~gap
      PROVE  FlowInv'
  <2>1. /\ Chained(ingress, nextFrame)
        /\ ~Marked(ingress) => Chained(core, AfterCore)
        /\ ~Marked(ingress) /\ ~Marked(core) /\ ~Marked(hand) =>
              /\ ~timeline.requiresDiscontinuity
              /\ timeline.anchored => timeline.nextFrame = FirstOf(hand, AfterHand)
    BY <1>5 DEF Flow, FlowInv
  <2>2. /\ AfterCore' = AfterCore
        /\ Marked(core) <=> x.flagged \/ Marked(Tail(core))
        /\ AfterHand = x.first /\ ~Marked(hand) /\ FirstOf(hand, AfterHand) = x.first
    BY <1>1, <1>2, MarkedTail DEF AfterCore, AfterHand, FirstOf, Marked
  <2>3. AfterHand' = FirstOf(Tail(core), AfterCore)
    BY <1>1, <2>2 DEF AfterHand
  <2>4. CASE Marked(ingress)
    BY <1>1, <2>1, <2>4 DEF FlowInv
  <2>5. CASE ~Marked(ingress)
    <3>1. /\ Chained(Tail(core), AfterCore)
          /\ ~Marked(Tail(core)) => x.first + x.len = FirstOf(Tail(core), AfterCore)
      BY <1>1, <1>2, <2>1, <2>5, ChainedTail
    <3>2. Chained(<<>>, x.first)
      BY DEF Chained
    <3>3. /\ Chained(hand', x.first + x.len)
          /\ Marked(hand') <=> Marked(<<>>) \/ x.flagged
          /\ FirstOf(hand', AfterHand') = FirstOf(<<>>, x.first)
      BY <1>2, <1>3, <3>2, ChainedAppend
    <3>4. ~Marked(<<>>) /\ FirstOf(<<>>, x.first) = x.first
      BY DEF Marked, FirstOf
    <3>5. /\ Chained(ingress', nextFrame') /\ Chained(core', AfterCore')
          /\ ~Marked(core') => Chained(hand', AfterHand')
      BY <1>1, <2>1, <2>2, <2>3, <3>1, <3>3
    <3>6. ~Marked(core') /\ ~Marked(hand') =>
              /\ ~timeline'.requiresDiscontinuity
              /\ timeline'.anchored => timeline'.nextFrame = FirstOf(hand', AfterHand')
      BY <1>1, <2>1, <2>2, <2>5, <3>3, <3>4
    <3> QED BY <3>5, <3>6 DEF FlowInv
  <2> QED BY <2>4, <2>5
<1>6. FlowInv'
  BY <1>1, <1>5 DEF FlowInv
<1> QED
  BY <1>4, <1>6 DEF Flow

\* The timeline then expects the packet behind it.
LEMMA ProcessKeepsFlow ==
    ASSUME TypeOK, Flow, ProcessFrame, nextFrame <= MaxFrame
    PROVE  Flow'
<1> DEFINE x == hand[1]
<1>1. /\ hand # <<>> /\ hand' = <<>>
      /\ timeline' = IF x.finite THEN AcceptChunk(timeline, ChunkOf(x)).coordinator
                     ELSE timeline
      /\ UNCHANGED <<running, nextFrame, gap, ingress, core>>
  BY DEF ProcessFrame, streamVars
<1>2. /\ hand \in Seq(Packet) /\ Len(hand) <= 1 /\ timeline \in Coordinator
      /\ nextFrame \in Nat
  BY DEF TypeOK
<1>3. Tail(hand) = <<>>
  <2>1. Tail(hand) \in Seq(Packet) /\ Len(Tail(hand)) = Len(hand) - 1 /\ Len(hand) \in Nat \ {0}
    BY <1>1, <1>2, HeadTailProperties
  <2>2. Len(Tail(hand)) = 0
    BY <1>2, <2>1
  <2> QED BY <2>1, <2>2, EmptySeq
<1>4. x \in Packet /\ x.finite /\ x.first + x.len <= nextFrame
  BY <1>1, <1>2, SoundTail DEF Flow, SoundInv
<1>5. ~Marked(<<>>) /\ \A n : FirstOf(<<>>, n) = n /\ Chained(<<>>, n) /\ Sound(<<>>, n)
  BY DEF Marked, FirstOf, Chained, Sound
<1>6. SoundInv'
  BY <1>1, <1>5 DEF Flow, SoundInv
<1> HIDE DEF x
<1>7. ASSUME running, ~gap
      PROVE  FlowInv'
  <2>1. /\ Chained(ingress, nextFrame)
        /\ ~Marked(ingress) => Chained(core, AfterCore)
        /\ ~Marked(ingress) /\ ~Marked(core) => Chained(hand, AfterHand)
        /\ ~Marked(ingress) /\ ~Marked(core) /\ ~Marked(hand) =>
              /\ ~timeline.requiresDiscontinuity
              /\ timeline.anchored => timeline.nextFrame = FirstOf(hand, AfterHand)
    BY <1>7 DEF Flow, FlowInv
  <2>2. AfterCore' = AfterCore /\ AfterHand' = AfterHand
    BY <1>1 DEF AfterCore, AfterHand
  <2>3. ASSUME ~Marked(ingress), ~Marked(core)
        PROVE  ~timeline'.requiresDiscontinuity /\ timeline'.nextFrame = AfterHand
    <3>1. /\ x.first + x.len = AfterHand
          /\ Marked(hand) <=> x.flagged
          /\ FirstOf(hand, AfterHand) = x.first
      BY <1>1, <1>2, <1>3, <1>5, <2>1, <2>3, ChainedTail, MarkedTail DEF x, FirstOf
    <3>2. \/ x.flagged
          \/ /\ ~timeline.requiresDiscontinuity
             /\ timeline.anchored => timeline.nextFrame = x.first
      BY <2>1, <2>3, <3>1
    <3>3. x.first + x.len <= MaxFrame
      <4>1. x.first \in Nat /\ x.len \in Nat
        BY <1>4, PacketAssumption DEF Packet
      <4> QED BY <1>2, <1>4, <4>1, WidthAssumption
    <3>4. /\ ~AcceptChunk(timeline, ChunkOf(x)).coordinator.requiresDiscontinuity
          /\ AcceptChunk(timeline, ChunkOf(x)).coordinator.nextFrame = x.first + x.len
      BY <1>2, <1>4, <3>2, <3>3, FittingIsAccepted
    <3> QED BY <1>1, <1>4, <3>1, <3>4
  <2>4. /\ Chained(ingress', nextFrame') /\ Marked(ingress') = Marked(ingress)
        /\ ~Marked(ingress') => Chained(core', AfterCore')
        /\ Marked(core') = Marked(core)
        /\ Chained(hand', AfterHand') /\ FirstOf(hand', AfterHand') = AfterHand
    BY <1>1, <1>5, <2>1, <2>2
  <2> QED
    BY <2>3, <2>4 DEF FlowInv
<1>8. FlowInv'
  BY <1>1, <1>7 DEF FlowInv
<1> QED
  BY <1>6, <1>8 DEF Flow

\* After any step the chain is whole or its gap is marked.
LEMMA FlowStep ==
    ASSUME Faulty = FALSE, TypeOK, NumberInv, Flow, nextFrame <= MaxFrame, [Next]_vars
    PROVE  Flow'
<1>1. CASE UNCHANGED vars
  BY <1>1 DEF vars, streamVars, Flow, FlowInv, SoundInv, AfterCore, AfterHand
<1>2. ASSUME NEW offset \in Offsets, NEW len \in Lengths, NEW finite \in {TRUE, ~Faulty},
             FilterAudio(offset, len, finite)
      PROVE  Flow'
  <2>1. finite = TRUE
    OBVIOUS
  <2> QED BY <1>2, <2>1, CallbackKeepsFlow
<1>3. CASE RuntimeReady
  BY <1>3 DEF RuntimeReady, streamVars, Flow, FlowInv, SoundInv, AfterCore, AfterHand
<1>4. CASE Stop
  <2>1. /\ ~running' /\ ingress' = <<>>
        /\ UNCHANGED <<nextFrame, core, hand>>
    BY <1>4 DEF Stop, streamVars
  <2>2. SoundInv'
    BY <2>1 DEF Flow, SoundInv, Sound
  <2> QED BY <2>1, <2>2 DEF Flow, FlowInv
<1>5. CASE Start
  <2>1. /\ ~running /\ core' = <<>> /\ hand' = <<>> /\ ingress' = ingress
        /\ timeline' = ResetCoordinator(timeline) /\ nextFrame' = 0
    BY <1>5 DEF Start
  <2>2. ingress' = <<>>
    BY <2>1 DEF NumberInv
  <2>3. ~timeline'.requiresDiscontinuity /\ ~timeline'.anchored
    BY <2>1 DEF ResetCoordinator
  <2> QED
    BY <2>1, <2>2, <2>3 DEF Flow, FlowInv, SoundInv, Sound, Chained
<1> QED
  BY <1>1, <1>2, <1>3, <1>4, <1>5, SubmitKeepsFlow, TakeKeepsFlow, ProcessKeepsFlow DEF Next

\* While the timeline rejects what it gets, the mark that ends it is under way or pending,
\* whichever ring was full, whenever the runtime became ready and however often the clock
\* jumped: given samples that are finite, and until frame numbers leave std::int64_t.
\* (submit_gap_pending_ and the mark of capture_ingress().)
THEOREM GapsAreAnnounced ==
    Faulty = FALSE /\ Spec /\ [](nextFrame <= MaxFrame) => []GapIsAnnounced
<1> SUFFICES ASSUME Faulty = FALSE
             PROVE  Spec /\ [](nextFrame <= MaxFrame) => []GapIsAnnounced
  OBVIOUS
<1>1. Init => Flow
  BY DEF Init, NewCoordinator, Flow, FlowInv, SoundInv, Sound
<1>2. Flow => GapIsAnnounced
  BY DEF Flow, FlowInv, GapIsAnnounced
<1>3. TypeOK /\ NumberInv /\ Flow /\ nextFrame <= MaxFrame /\ [Next]_vars => Flow'
  BY FlowStep
<1> QED
  BY <1>1, <1>2, <1>3, DelayTypeCorrect, NumbersHold, PTL DEF Spec

-----------------------------------------------------------------------------
(* Results. *)

\* A queue that ascends does so without its first, which precedes the rest.
LEMMA AscendsTail ==
    ASSUME NEW S, NEW queue \in Seq(S), queue # <<>>, \A x \in S : x.first \in Nat,
           Ascends(queue)
    PROVE  /\ Ascends(Tail(queue))
           /\ Precede({[id |-> Head(queue).id, first |-> Head(queue).first]},
                      Tags(Tail(queue)))
<1>1. /\ Len(queue) \in Nat \ {0}
      /\ DOMAIN queue = 1 .. Len(queue) /\ DOMAIN Tail(queue) = 1 .. Len(queue) - 1
      /\ \A i \in 1 .. Len(queue) - 1 : Tail(queue)[i] = queue[i + 1]
      /\ Head(queue) = queue[1]
  BY HeadTailProperties
<1>2. ASSUME NEW i \in DOMAIN Tail(queue), NEW j \in DOMAIN Tail(queue), i < j
      PROVE  Tail(queue)[i].first < Tail(queue)[j].first
  <2>1. i + 1 \in DOMAIN queue /\ j + 1 \in DOMAIN queue /\ i + 1 < j + 1
    BY <1>1, <1>2
  <2>2. queue[i + 1].first < queue[j + 1].first
    BY <2>1 DEF Ascends
  <2> QED BY <1>1, <2>2
<1>3. ASSUME NEW j \in DOMAIN Tail(queue)
      PROVE  Head(queue).first < Tail(queue)[j].first
  <2>1. 1 \in DOMAIN queue /\ j + 1 \in DOMAIN queue /\ 1 < j + 1
    BY <1>1
  <2>2. queue[1].first < queue[j + 1].first
    BY <2>1 DEF Ascends
  <2> QED BY <1>1, <2>2
<1> QED BY <1>2, <1>3 DEF Ascends, Precede, Tags

\* And with one more that all others precede.
LEMMA AscendsAppend ==
    ASSUME NEW S, NEW queue \in Seq(S), NEW x \in S, Ascends(queue),
           Precede(Tags(queue), {[id |-> x.id, first |-> x.first]})
    PROVE  Ascends(Append(queue, x))
<1>1. /\ Len(queue) \in Nat /\ DOMAIN queue = 1 .. Len(queue)
      /\ DOMAIN Append(queue, x) = 1 .. Len(queue) + 1
      /\ \A i \in 1 .. Len(queue) : Append(queue, x)[i] = queue[i]
      /\ Append(queue, x)[Len(queue) + 1] = x
  BY AppendProperties
<1>2. ASSUME NEW i \in DOMAIN queue
      PROVE  queue[i].first < x.first
  <2> DEFINE t == [id |-> queue[i].id, first |-> queue[i].first]
             u == [id |-> x.id, first |-> x.first]
  <2>1. t \in Tags(queue) /\ t.first = queue[i].first /\ u.first = x.first
    BY DEF Tags
  <2>2. t.first < u.first
    BY <2>1 DEF Precede
  <2> QED BY <2>1, <2>2
<1> SUFFICES ASSUME NEW i \in DOMAIN Append(queue, x), NEW j \in DOMAIN Append(queue, x),
                    i < j
             PROVE  Append(queue, x)[i].first < Append(queue, x)[j].first
  BY DEF Ascends
<1>3. i \in DOMAIN queue
  BY <1>1
<1>4. CASE j = Len(queue) + 1
  BY <1>1, <1>2, <1>3, <1>4
<1>5. CASE j # Len(queue) + 1
  <2>1. j \in DOMAIN queue
    BY <1>1, <1>5
  <2>2. queue[i].first < queue[j].first
    BY <1>3, <2>1 DEF Ascends
  <2> QED BY <1>1, <1>3, <2>1, <2>2
<1> QED BY <1>4, <1>5

\* And from any frame on.
LEMMA AscendsFrom ==
    ASSUME NEW S, NEW rs \in Seq(S), NEW first, Ascends(rs)
    PROVE  Ascends(From(rs, first))
<1> DEFINE gone == Cardinality(Older(rs, first))
           rest == From(rs, first)
<1>1. /\ rest \in Seq(S) /\ gone \in Nat
      /\ \A i \in DOMAIN rest : gone + i \in DOMAIN rs /\ rest[i] = rs[gone + i]
  BY FromIs
<1>2. DOMAIN rest \subseteq Nat
  BY <1>1
<1> HIDE DEF gone, rest
<1>3. ASSUME NEW i \in DOMAIN rest, NEW j \in DOMAIN rest, i < j
      PROVE  rest[i].first < rest[j].first
  <2>1. gone + i < gone + j
    BY <1>1, <1>2, <1>3
  <2>2. rs[gone + i].first < rs[gone + j].first
    BY <1>1, <2>1 DEF Ascends
  <2> QED BY <1>1, <2>2
<1> QED BY <1>3 DEF Ascends, rest

\* Among results in order, dropping what is too old leaves the one looked for in front.
LEMMA ReadyIsFound ==
    ASSUME NEW rs \in Seq(ResultOf), Ascends(rs), NEW i \in DOMAIN rs
    PROVE  /\ From(rs, rs[i].first) # <<>>
           /\ Head(From(rs, rs[i].first)).first = rs[i].first
<1> DEFINE first == rs[i].first
           rest == From(rs, first)
<1>1. /\ Len(rs) \in Nat /\ DOMAIN rs = 1 .. Len(rs) /\ i \in 1 .. Len(rs)
      /\ \A j \in DOMAIN rs : rs[j].first \in Nat
  <2>1. \A j \in DOMAIN rs : rs[j] \in ResultOf
    OBVIOUS
  <2> QED BY <2>1 DEF ResultOf
<1>2. Older(rs, first) = 1 .. i - 1
  <2>1. ASSUME NEW k \in Older(rs, first)
        PROVE  k \in 1 .. i - 1
    <3>1. k \in DOMAIN rs /\ \A j \in 1 .. k : rs[j].first < first
      BY DEF Older
    <3>2. ~(i \in 1 .. k)
      BY <1>1, <3>1
    <3> QED BY <1>1, <3>1, <3>2
  <2>2. ASSUME NEW k \in 1 .. i - 1
        PROVE  k \in Older(rs, first)
    <3>1. k \in DOMAIN rs
      BY <1>1
    <3>2. ASSUME NEW j \in 1 .. k
          PROVE  rs[j].first < first
      <4>1. j \in DOMAIN rs /\ j < i
        BY <1>1, <3>1
      <4> QED BY <4>1 DEF Ascends
    <3> QED BY <3>1, <3>2 DEF Older
  <2> QED BY <2>1, <2>2
<1>3. Cardinality(Older(rs, first)) = i - 1
  <2>1. 1 \in Int /\ i - 1 \in Int
    BY <1>1
  <2>2. Cardinality(1 .. i - 1) = IF 1 > i - 1 THEN 0 ELSE i - 1 - 1 + 1
    BY ONLY <2>1, FS_Interval, Zenon
  <2> QED BY <1>1, <1>2, <2>2
<1>4. rest = SubSeq(rs, i, Len(rs))
  BY <1>1, <1>3 DEF From
<1>5. /\ rest \in Seq(ResultOf)
      /\ Len(rest) = Len(rs) - i + 1
      /\ rest[1] = rs[i]
  BY <1>1, <1>4, SubSeqProperties
<1>6. Len(rest) # 0
  BY <1>1, <1>5
<1>7. rest # <<>>
  BY <1>6
<1> QED BY <1>5, <1>7

\* What the callback plays, and what it leaves of the results.
LEMMA CallbackFindsResult ==
    ASSUME TypeOK, NumberInv, OrderInv,
           NEW offset \in Offsets, NEW len \in Lengths, NEW finite \in BOOLEAN,
           FilterAudio(offset, len, finite)
    PROVE  Ascends(results') /\ ReadyResultIsPlayed'
<1> DEFINE broken == Breaks(lastEnd + offset)
           end == lastEnd + offset + len
           p == [id |-> sent + 1, first |-> FirstFrame(broken), len |-> len,
                 flagged |-> FALSE, finite |-> finite]
           kept == KeptRaw(broken)
           entry == [id |-> p.id, first |-> p.first, end |-> end]
           ring == Append(kept, entry)
           rs == IF resetPending \/ broken THEN <<>> ELSE results
           due == Head(ring)
<1>1. /\ sent < MaxPackets
      /\ \/ Overflow(p)
         \/ /\ raw' = ring /\ results' = rs /\ out' = Silence
         \/ Play(p.id, due, rs)
  BY DEF FilterAudio, Consume
<1>2. /\ sent \in Nat /\ sent + 1 \in PacketId
      /\ nextFrame \in Nat /\ end \in Int
  BY <1>1, PacketAssumption DEF TypeOK, PacketId
<1>3. entry \in RawPacket /\ entry.id = NewTag.id /\ entry.first = NewTag.first
  BY <1>2 DEF RawPacket, FirstFrame, NewTag
<1>4. kept \in Seq(RawPacket) /\ Tags(kept) \subseteq Tags(raw)
  BY DEF KeptRaw, TypeOK, Tags
<1>5. rs \in Seq(ResultOf) /\ Tags(rs) \subseteq Tags(results) /\ Ascends(rs)
  BY DEF TypeOK, Tags, OrderInv, Ascends
<1> HIDE DEF entry
<1>6. ring \in Seq(RawPacket) /\ ring # <<>>
      /\ Tags(ring) = Tags(kept) \cup {[id |-> entry.id, first |-> entry.first]}
  BY <1>3, <1>4, TagsOfAppend
<1> HIDE DEF ring
<1>7. due \in RawPacket /\ [id |-> due.id, first |-> due.first] \in Tags(ring)
  BY <1>6, TagsOfHeadAndTail
<1> HIDE DEF broken, end, p, kept, rs, due
<1>8. ASSUME NEW i \in DOMAIN rs, rs[i].id = due.id
      PROVE  rs[i].first = due.first
  <2> DEFINE t == [id |-> rs[i].id, first |-> rs[i].first]
             u == [id |-> due.id, first |-> due.first]
  <2>1. t \in Tags(results)
    BY <1>5 DEF Tags
  <2>2. t \in Known /\ t.id = rs[i].id /\ t.first = rs[i].first
    BY <2>1 DEF Known
  <2>3. u.id = t.id /\ u.first = due.first
    BY <1>8
  <2>4. t.id <= sent
    BY <2>2 DEF NumberInv
  <2>5. NewTag.id = sent + 1
    BY DEF NewTag
  <2>6. rs[i].id \in Nat
    <3>1. rs[i] \in ResultOf
      BY <1>5
    <3> QED BY <3>1, PacketAssumption DEF ResultOf, PacketId
  <2>7. u.id # entry.id
    BY <1>2, <1>3, <2>2, <2>3, <2>4, <2>5, <2>6
  <2>8. u \in Tags(kept)
    <3>1. u # [id |-> entry.id, first |-> entry.first]
      BY <2>7
    <3> QED BY <1>6, <1>7, <3>1
  <2>9. u \in Known
    BY <1>4, <2>8 DEF Known
  <2> QED BY <2>2, <2>3, <2>9 DEF OrderInv
<1>9. CASE Overflow(p)
  <2>1. results' = results /\ ~out'.waiting
    BY <1>9 DEF Overflow, Original
  <2> QED BY <2>1 DEF OrderInv, ReadyResultIsPlayed
<1>10. CASE raw' = ring /\ results' = rs /\ out' = Silence
  <2>1. results' = rs /\ ~out'.waiting
    BY <1>10 DEF Silence
  <2> QED BY <1>5, <2>1 DEF ReadyResultIsPlayed
<1>11. CASE Play(p.id, due, rs)
  <2> DEFINE rest == From(rs, due.first)
             hit == rest # <<>> /\ Head(rest).first = due.first
             waiting == \E i \in DOMAIN rs : rs[i].id = due.id
  <2>1. /\ out' = IF hit THEN Result(Head(rest), due.id) ELSE Original(p.id, due.id, waiting)
        /\ results' = IF hit THEN Tail(rest) ELSE rest
    BY <1>11 DEF Play
  <2>2. rest \in Seq(ResultOf) /\ Ascends(rest)
    BY <1>5, FromIs, AscendsFrom
  <2>3. waiting => hit
    BY <1>5, <1>8, ReadyIsFound
  <2> HIDE DEF rest, waiting
  <2>4. CASE hit
    <3>1. out'.kind = "result" /\ results' = Tail(rest)
      BY <2>1, <2>4 DEF Result
    <3>2. \A r \in ResultOf : r.first \in Nat
      BY DEF ResultOf
    <3>3. Ascends(Tail(rest))
      BY <2>2, <2>4, <3>2, AscendsTail
    <3> QED BY <3>1, <3>3 DEF ReadyResultIsPlayed
  <2>5. CASE ~hit
    <3>1. out'.waiting = waiting /\ ~waiting /\ results' = rest
      BY <2>1, <2>3, <2>5 DEF Original
    <3> QED BY <2>2, <3>1 DEF ReadyResultIsPlayed
  <2> QED BY <2>4, <2>5
<1> QED BY <1>1, <1>9, <1>10, <1>11

\* The callback adds a packet behind all others and drops results in front.
LEMMA CallbackKeepsOrder ==
    ASSUME TypeOK, NumberInv, OrderInv,
           NEW offset \in Offsets, NEW len \in Lengths, NEW finite \in BOOLEAN,
           FilterAudio(offset, len, finite)
    PROVE  OrderInv'
<1>1. /\ UNCHANGED <<core, hand>>
      /\ Tags(ingress') \subseteq Tags(ingress) \cup {NewTag}
      /\ Tags(results') \subseteq Tags(results)
      /\ \/ raw' = <<>>
         \/ Tags(raw') \subseteq Tags(raw) \cup {NewTag}
  BY FilterAudioIs
<1>2. Tags(raw') \subseteq Tags(raw) \cup {NewTag}
  <2>1. Tags(<<>>) = {}
    BY DEF Tags
  <2> QED BY <1>1, <2>1
<1>3. Known' \subseteq Known \cup {NewTag}
  BY <1>1, <1>2 DEF Known
<1>4. /\ NewTag.id = sent + 1 /\ NewTag.first = nextFrame
      /\ sent \in Nat /\ nextFrame \in Nat
      /\ \A t \in Known : t.id \in Nat /\ t.id <= sent /\ t.first < nextFrame
  BY KnownAreNumbers DEF NewTag, NumberInv
<1>5. \A t, u \in Known' : t.id = u.id => t.first = u.first
  <2>1. \A t, u \in Known : t.id = u.id => t.first = u.first
    BY DEF OrderInv
  <2>2. \A t \in Known : t.id # NewTag.id
    BY <1>4
  <2> QED BY <1>3, <2>1, <2>2
<1>6. \A t \in Known : t.first < NewTag.first
  BY <1>4
<1>7. Ascends(results')
  BY CallbackFindsResult
<1>8. Ascends(ingress')
  <2>1. PICK x \in Packet :
           /\ x.id = sent + 1 /\ x.first = nextFrame
           /\ ingress' = ingress \/ ingress' = Append(ingress, x)
    BY CapturedIs
  <2>2. ingress \in Seq(Packet) /\ Ascends(ingress)
    BY DEF TypeOK, OrderInv
  <2>3. Precede(Tags(ingress), {[id |-> x.id, first |-> x.first]})
    BY <1>6, <2>1 DEF Precede, Known, NewTag
  <2> QED BY <2>1, <2>2, <2>3, AscendsAppend
<1>9. /\ Precede(Tags(results'), Tags(hand') \cup Tags(core') \cup Tags(ingress'))
      /\ Precede(Tags(hand'), Tags(core') \cup Tags(ingress'))
      /\ Precede(Tags(core'), Tags(ingress'))
  <2>1. Tags(hand') = Tags(hand) /\ Tags(core') = Tags(core)
    BY <1>1
  <2>2. /\ Precede(Tags(results), Tags(hand) \cup Tags(core) \cup Tags(ingress))
        /\ Precede(Tags(hand), Tags(core) \cup Tags(ingress))
        /\ Precede(Tags(core), Tags(ingress))
    BY DEF OrderInv
  <2>3. /\ \A t \in Tags(results) : t.first < NewTag.first
        /\ \A t \in Tags(hand) : t.first < NewTag.first
        /\ \A t \in Tags(core) : t.first < NewTag.first
    BY <1>6 DEF Known
  <2> QED BY <1>1, <2>1, <2>2, <2>3 DEF Precede
<1>10. Ascends(core')
  BY <1>1 DEF OrderInv
<1> QED BY <1>5, <1>7, <1>8, <1>9, <1>10 DEF OrderInv

\* The ingress thread keeps the packets in order.
LEMMA SubmitKeepsOrder ==
    ASSUME TypeOK, OrderInv, SubmitPacket
    PROVE  OrderInv'
<1> DEFINE x == Head(ingress)
           tag == [id |-> x.id, first |-> x.first]
<1>1. /\ ingress # <<>> /\ ingress' = Tail(ingress)
      /\ core' = Append(core, x) \/ core' = core
      /\ UNCHANGED <<raw, hand, results>>
  BY DEF SubmitPacket, streamVars
<1>2. ingress \in Seq(Packet) /\ core \in Seq(Packet)
  BY DEF TypeOK
<1>3. \A y \in Packet : y.first \in Nat
  BY DEF Packet
<1>4. /\ x \in Packet /\ tag \in Tags(ingress)
      /\ Tags(ingress') \subseteq Tags(ingress)
      /\ Ascends(ingress') /\ Precede({tag}, Tags(ingress'))
  BY <1>1, <1>2, <1>3, TagsOfHeadAndTail, AscendsTail DEF OrderInv
<1> HIDE DEF x
<1>5. Tags(core') \subseteq Tags(core) \cup {tag}
  BY <1>1, <1>2, <1>4, TagsOfAppend
<1>6. Ascends(core')
  <2>1. Precede(Tags(core), {tag}) /\ Ascends(core)
    BY <1>4 DEF Precede, OrderInv
  <2>2. Ascends(Append(core, x))
    BY <1>2, <1>4, <2>1, AscendsAppend
  <2> QED BY <1>1, <2>1, <2>2
<1> HIDE DEF tag
<1>7. Tags(raw') = Tags(raw) /\ Tags(hand') = Tags(hand) /\ Tags(results') = Tags(results)
  BY <1>1
<1>8. Known' \subseteq Known
  BY <1>4, <1>5, <1>7 DEF Known
<1>9. /\ Precede(Tags(results'), Tags(hand') \cup Tags(core') \cup Tags(ingress'))
      /\ Precede(Tags(hand'), Tags(core') \cup Tags(ingress'))
      /\ Precede(Tags(core'), Tags(ingress'))
  BY <1>4, <1>5, <1>7 DEF OrderInv, Precede
<1>10. Ascends(results')
  BY <1>1 DEF OrderInv
<1> QED BY <1>4, <1>6, <1>8, <1>9, <1>10 DEF OrderInv

\* So does taking one.
LEMMA TakeKeepsOrder ==
    ASSUME TypeOK, OrderInv, TakeFrame
    PROVE  OrderInv'
<1> DEFINE x == Head(core)
           tag == [id |-> x.id, first |-> x.first]
<1>1. /\ core # <<>> /\ hand' = <<x>> /\ core' = Tail(core)
      /\ UNCHANGED <<raw, ingress, results>>
  BY DEF TakeFrame, streamVars
<1>2. core \in Seq(Packet)
  BY DEF TypeOK
<1>3. \A y \in Packet : y.first \in Nat
  BY DEF Packet
<1>4. /\ tag \in Tags(core)
      /\ Tags(core') \subseteq Tags(core)
      /\ Ascends(core') /\ Precede({tag}, Tags(core'))
  BY <1>1, <1>2, <1>3, TagsOfHeadAndTail, AscendsTail DEF OrderInv
<1>5. Tags(hand') = {tag}
  <2>1. DOMAIN hand' = {1} /\ hand'[1] = x
    BY <1>1
  <2> QED BY <2>1 DEF Tags
<1> HIDE DEF x, tag
<1>6. /\ Tags(raw') = Tags(raw) /\ Tags(ingress') = Tags(ingress)
      /\ Tags(results') = Tags(results)
  BY <1>1
<1>7. Known' \subseteq Known
  BY <1>4, <1>5, <1>6 DEF Known
<1>8. /\ Precede(Tags(results'), Tags(hand') \cup Tags(core') \cup Tags(ingress'))
      /\ Precede(Tags(hand'), Tags(core') \cup Tags(ingress'))
      /\ Precede(Tags(core'), Tags(ingress'))
  BY <1>4, <1>5, <1>6 DEF OrderInv, Precede
<1>9. Ascends(results') /\ Ascends(ingress')
  BY <1>1 DEF OrderInv
<1> QED BY <1>4, <1>7, <1>8, <1>9 DEF OrderInv

\* And making a result of it.
LEMMA ProcessKeepsOrder ==
    ASSUME TypeOK, OrderInv, ProcessFrame
    PROVE  OrderInv'
<1> DEFINE r == [id |-> hand[1].id, first |-> hand[1].first]
<1>1. /\ hand # <<>> /\ hand' = <<>>
      /\ results' = Append(results, r) \/ results' = results
      /\ UNCHANGED <<raw, ingress, core>>
  BY DEF ProcessFrame, streamVars
<1>2. /\ hand \in Seq(Packet) /\ results \in Seq(ResultOf)
  BY DEF TypeOK
<1>3. r \in ResultOf /\ r \in Tags(hand) /\ r = [id |-> r.id, first |-> r.first]
  <2>1. 1 \in DOMAIN hand /\ hand[1] \in Packet
    BY <1>1, <1>2
  <2> QED BY <2>1 DEF Packet, ResultOf, Tags
<1> HIDE DEF r
<1>4. Tags(results') \subseteq Tags(results) \cup Tags(hand)
  BY ProcessFrameIs
<1>5. Ascends(results')
  <2>1. Ascends(results) /\ Precede(Tags(results), {[id |-> r.id, first |-> r.first]})
    BY <1>3 DEF OrderInv, Precede
  <2>2. Ascends(Append(results, r))
    BY <1>2, <1>3, <2>1, AscendsAppend
  <2> QED BY <1>1, <2>1, <2>2
<1>6. /\ Tags(raw') = Tags(raw) /\ Tags(ingress') = Tags(ingress)
      /\ Tags(core') = Tags(core) /\ Tags(hand') = {}
  BY <1>1 DEF Tags
<1>7. Known' \subseteq Known
  BY <1>4, <1>6 DEF Known
<1>8. /\ Precede(Tags(results'), Tags(hand') \cup Tags(core') \cup Tags(ingress'))
      /\ Precede(Tags(hand'), Tags(core') \cup Tags(ingress'))
      /\ Precede(Tags(core'), Tags(ingress'))
  BY <1>4, <1>6 DEF OrderInv, Precede
<1>9. Ascends(core') /\ Ascends(ingress')
  BY <1>1 DEF OrderInv
<1> QED BY <1>5, <1>7, <1>8, <1>9 DEF OrderInv

\* Order, and the result that is there being played, after any step.
LEMMA OrderStep ==
    ASSUME TypeOK, NumberInv, OrderInv, ReadyResultIsPlayed, [Next]_vars
    PROVE  OrderInv' /\ ReadyResultIsPlayed'
<1>1. CASE UNCHANGED vars
  BY <1>1 DEF vars, streamVars, OrderInv, Known, ReadyResultIsPlayed
<1>2. ASSUME NEW offset \in Offsets, NEW len \in Lengths, NEW finite \in {TRUE, ~Faulty},
             FilterAudio(offset, len, finite)
      PROVE  OrderInv' /\ ReadyResultIsPlayed'
  <2>1. finite \in BOOLEAN
    BY PacketAssumption
  <2> QED BY <1>2, <2>1, CallbackKeepsOrder, CallbackFindsResult
<1>3. CASE SubmitPacket \/ TakeFrame \/ ProcessFrame
  <2>1. out' = out
    BY <1>3 DEF SubmitPacket, TakeFrame, ProcessFrame
  <2>2. ReadyResultIsPlayed'
    BY <2>1 DEF ReadyResultIsPlayed
  <2> QED BY <1>3, <2>2, SubmitKeepsOrder, TakeKeepsOrder, ProcessKeepsOrder
<1>4. CASE RuntimeReady
  BY <1>4 DEF RuntimeReady, streamVars, OrderInv, Known, ReadyResultIsPlayed
<1>5. CASE Stop
  <2>1. ingress' = <<>> /\ UNCHANGED <<raw, core, hand, results, out>>
    BY <1>5 DEF Stop
  <2>2. Tags(ingress') = {} /\ Ascends(ingress')
    BY <2>1 DEF Tags, Ascends
  <2>3. /\ Tags(raw') = Tags(raw) /\ Tags(core') = Tags(core)
        /\ Tags(hand') = Tags(hand) /\ Tags(results') = Tags(results)
    BY <2>1
  <2>4. Known' \subseteq Known
    BY <2>2, <2>3 DEF Known
  <2>5. /\ Precede(Tags(results'), Tags(hand') \cup Tags(core') \cup Tags(ingress'))
        /\ Precede(Tags(hand'), Tags(core') \cup Tags(ingress'))
        /\ Precede(Tags(core'), Tags(ingress'))
    BY <2>2, <2>3 DEF OrderInv, Precede
  <2>6. Ascends(results') /\ Ascends(core') /\ ReadyResultIsPlayed'
    BY <2>1 DEF OrderInv, ReadyResultIsPlayed
  <2> QED BY <2>2, <2>4, <2>5, <2>6 DEF OrderInv
<1>6. CASE Start
  <2>1. /\ raw' = <<>> /\ results' = <<>> /\ core' = <<>> /\ hand' = <<>>
        /\ ~running /\ ingress' = ingress /\ out' = Silence
    BY <1>6 DEF Start
  <2>2. ingress' = <<>>
    BY <2>1 DEF NumberInv
  <2>3. Tags(<<>>) = {} /\ Ascends(<<>>)
    BY DEF Tags, Ascends
  <2>4. Known' = {}
    BY <2>1, <2>2, <2>3 DEF Known
  <2>5. /\ Precede(Tags(results'), Tags(hand') \cup Tags(core') \cup Tags(ingress'))
        /\ Precede(Tags(hand'), Tags(core') \cup Tags(ingress'))
        /\ Precede(Tags(core'), Tags(ingress'))
    BY <2>1, <2>2, <2>3 DEF Precede
  <2>6. ReadyResultIsPlayed'
    BY <2>1 DEF ReadyResultIsPlayed, Silence
  <2> QED BY <2>1, <2>2, <2>3, <2>4, <2>5, <2>6 DEF OrderInv
<1> QED
  BY <1>1, <1>2, <1>3, <1>4, <1>5, <1>6 DEF Next

\* A result that is there when its packet falls due is the one that is played: neither
\* results that came too late nor numbers nobody waits for hide it, whichever packets were
\* dropped on their way.  (consume_ready()'s walk through the result ring.)
THEOREM ReadyResultsArePlayed == Spec => []ReadyResultIsPlayed
<1>1. Init => OrderInv /\ ReadyResultIsPlayed
  BY DEF Init, OrderInv, Known, Tags, Ascends, Precede, ReadyResultIsPlayed, Silence
<1>2. TypeOK /\ NumberInv /\ OrderInv /\ ReadyResultIsPlayed /\ [Next]_vars
         => OrderInv' /\ ReadyResultIsPlayed'
  BY OrderStep
<1> QED
  BY <1>1, <1>2, DelayTypeCorrect, NumbersHold, PTL DEF Spec

====
