------------------------- MODULE VideoDecoderProofs -------------------------
(***************************************************************************)
(* Theorems about VideoDecoder, for any frames, sizes and buffers: its     *)
(* type, that a published frame is on both eyes, and that it implements    *)
(* FramePublisher; and about FramePublisher itself.                        *)
(*                                                                         *)
(* decode() is a chain of functions of the decoder's record.  The          *)
(* invariant Sound is a predicate of that record, shown to hold after each *)
(* function of the chain.                                                  *)
(***************************************************************************)
EXTENDS VideoDecoder, WellFoundedInduction, TLAPS

-----------------------------------------------------------------------------
(* A bounded, nonempty set of numbers has a maximum. *)
Less == {q \in Nat \X Nat : q[1] < q[2]}

LEMMA LessWellFounded == IsWellFoundedOn(Less, Nat)
<1>1. Less = OpToRel(<, Nat)
  BY DEF Less, OpToRel
<1> QED BY <1>1, NatLessThanWellFounded

LEMMA MaxIn ==
  ASSUME NEW S, S \subseteq Nat, S # {}, NEW b \in Nat, \A x \in S : x <= b
  PROVE  Max(S) \in S /\ \A y \in S : Max(S) >= y
<1> DEFINE T == {b - x : x \in S}
<1>1. T \subseteq Nat /\ T # {}
  <2>1. ASSUME NEW x \in S PROVE b - x \in Nat
    <3>1. x \in Nat /\ x <= b
      OBVIOUS
    <3> QED BY <3>1
  <2> QED BY <2>1
<1>2. \E m \in T : \A y \in T : ~(<<y, m>> \in Less)
  BY <1>1, LessWellFounded, WFMin
<1>3. PICK x \in S : \A y \in T : ~(<<y, b - x>> \in Less)
  BY <1>2
<1>4. ASSUME NEW y \in S PROVE x >= y
  <2>1. ~(<<b - y, b - x>> \in Less)
    BY <1>3
  <2>2. <<b - y, b - x>> \in Nat \X Nat
    BY <1>1
  <2> QED BY <2>1, <2>2 DEF Less
<1> QED BY <1>4 DEF Max

-----------------------------------------------------------------------------
(* What is in a queue. *)
In(q) == {q[k] : k \in 1..Len(q)}

LEMMA InAppend ==
  ASSUME NEW q \in Seq(Frames), NEW i \in Frames
  PROVE  /\ Append(q, i) \in Seq(Frames) /\ Len(Append(q, i)) = Len(q) + 1
         /\ In(Append(q, i)) \subseteq In(q) \cup {i}
BY DEF In

LEMMA InSubSeq ==
  ASSUME NEW q \in Seq(Frames), NEW n \in 0..Len(q)
  PROVE  /\ SubSeq(q, n + 1, Len(q)) \in Seq(Frames)
         /\ Len(SubSeq(q, n + 1, Len(q))) = Len(q) - n
         /\ In(SubSeq(q, n + 1, Len(q))) \subseteq In(q)
<1> DEFINE r == SubSeq(q, n + 1, Len(q))
<1>1. /\ r \in Seq(Frames) /\ Len(r) = Len(q) - n
      /\ \A k \in 1..Len(r) : r[k] = q[n + k] /\ n + k \in 1..Len(q)
  OBVIOUS
<1>2. In(r) \subseteq In(q)
  BY <1>1 DEF In
<1> QED BY <1>1, <1>2

-----------------------------------------------------------------------------
Decoders ==
  [size : Sizes \cup {0}, queue : [Eyes -> Seq(Frames)], leaked : [Eyes -> Nat],
   ready : [Eyes -> SUBSET Frames], drawn : [Eyes -> SUBSET Frames],
   came : SUBSET Frames, has : BOOLEAN, last : Frames \cup {0}, acks : Seq(Frames)]

(* what an eye's codec holds or has rendered, and what may be published *)
Held(d, e) == d.ready[e] \cup In(d.queue[e])
New(d, f) == d.has => f > d.last

Bounded(d) == \E b \in Nat : \A e \in Eyes : \A f \in Held(d, e) : f <= b
Buffers(d) == \A e \in Eyes : d.leaked[e] + Len(d.queue[e]) <= Depth
Known(d) == \A e \in Eyes : \A f \in Held(d, e) : New(d, f) => f \in d.came
Rendering(d) ==
  \A e \in Eyes : /\ d.has => d.last \in d.drawn[e]
                  /\ \A f \in d.ready[e] : New(d, f) => f \in d.drawn[e]

Sound(d) ==
  d \in Decoders /\ Bounded(d) /\ Buffers(d) /\ Known(d) /\ Rendering(d)

LEMMA QueueType ==
  ASSUME NEW d \in Decoders, NEW came \in SUBSET Frames,
         NEW queue \in [Eyes -> Seq(Frames)], NEW leaked \in [Eyes -> Nat]
  PROVE  [d EXCEPT !.came = came, !.queue = queue, !.leaked = leaked] \in Decoders
BY DEF Decoders

LEMMA DrainType ==
  ASSUME NEW d \in Decoders, NEW queue \in [Eyes -> Seq(Frames)],
         NEW ready \in [Eyes -> SUBSET Frames], NEW drawn \in [Eyes -> SUBSET Frames]
  PROVE  [d EXCEPT !.queue = queue, !.ready = ready, !.drawn = drawn] \in Decoders
BY DEF Decoders

LEMMA PublishType ==
  ASSUME NEW d \in Decoders, NEW last \in Frames, NEW acks \in Seq(Frames),
         NEW ready \in [Eyes -> SUBSET Frames], NEW drawn \in [Eyes -> SUBSET Frames],
         NEW came \in SUBSET Frames
  PROVE  [d EXCEPT !.has = TRUE, !.last = last, !.acks = acks, !.ready = ready,
                   !.drawn = drawn, !.came = came] \in Decoders
BY DEF Decoders

LEMMA AcksType ==
  ASSUME NEW d \in Decoders, NEW acks \in Seq(Frames)
  PROVE  [d EXCEPT !.acks = acks] \in Decoders
BY DEF Decoders

LEMMA DecoderNumbers ==
  ASSUME NEW d \in Decoders
  PROVE  d.last \in Nat /\ \A e \in Eyes : Held(d, e) \subseteq Nat
<1>1. d.last \in Frames \cup {0}
  BY DEF Decoders
<1>2. ASSUME NEW e \in Eyes PROVE Held(d, e) \subseteq Nat
  <2>1. d.ready[e] \in SUBSET Frames /\ d.queue[e] \in Seq(Frames)
    BY DEF Decoders
  <2>2. In(d.queue[e]) \subseteq Frames
    BY <2>1 DEF In
  <2> QED BY <2>1, <2>2, FramesAssumption DEF Held
<1>3. \A f \in Frames \cup {0} : f \in Nat
  BY FramesAssumption
<1> QED BY <1>1, <1>2, <1>3

LEMMA StoppedSound ==
  ASSUME NEW s \in Sizes \cup {0}
  PROVE  Sound([Stopped EXCEPT !.size = s])
<1> DEFINE d == [Stopped EXCEPT !.size = s]
<1>1. /\ Stopped \in Decoders
      /\ Stopped.queue = [e \in Eyes |-> <<>>] /\ Stopped.leaked = [e \in Eyes |-> 0]
      /\ Stopped.ready = [e \in Eyes |-> {}] /\ Stopped.has = FALSE
  BY DEF Stopped, Decoders
<1>2. /\ d \in Decoders /\ d.queue = Stopped.queue /\ d.leaked = Stopped.leaked
      /\ d.ready = Stopped.ready /\ d.has = Stopped.has
  BY <1>1 DEF Decoders
<1> HIDE DEF d
<1>3. \A e \in Eyes : /\ Held(d, e) = {} /\ d.ready[e] = {}
                      /\ Len(d.queue[e]) = 0 /\ d.leaked[e] = 0
  BY <1>1, <1>2 DEF Held, In
<1>4. Bounded(d) /\ Known(d)
  BY <1>3 DEF Bounded, Known
<1>5. Buffers(d) /\ Rendering(d)
  BY <1>1, <1>2, <1>3, DepthAssumption DEF Buffers, Rendering
<1> QED BY <1>2, <1>4, <1>5 DEF Sound, d

(* queueAccessUnit on both eyes *)
LEMMA QueueSound ==
  ASSUME NEW d, Sound(d), NEW i \in Frames, NEW out,
         \A e \in Eyes : out[e] \in Outcomes(d, e, i)
  PROVE  LET q == QueueAccessUnit(d, i, out) IN
         /\ Sound(q)
         /\ q.size = d.size /\ q.has = d.has /\ q.last = d.last /\ q.acks = d.acks
         /\ q.came = {f \in d.came \cup {i} : New(d, f)}
<1> DEFINE q == QueueAccessUnit(d, i, out)
<1>0. d \in Decoders
  BY DEF Sound
<1>1. /\ q.size = d.size /\ q.has = d.has /\ q.last = d.last /\ q.acks = d.acks
      /\ q.ready = d.ready /\ q.drawn = d.drawn
      /\ q.came = {f \in d.came \cup {i} : New(d, f)}
      /\ q.queue = [e \in Eyes |-> IF out[e] = "queued" THEN Append(d.queue[e], i)
                                                        ELSE d.queue[e]]
      /\ q.leaked = [e \in Eyes |-> IF out[e] = "kept" THEN d.leaked[e] + 1
                                                        ELSE d.leaked[e]]
  BY <1>0 DEF QueueAccessUnit, Decoders, New
<1>2. q \in Decoders
  <2>1. q = [d EXCEPT !.came = q.came, !.queue = q.queue, !.leaked = q.leaked]
    BY <1>1 DEF QueueAccessUnit, New
  <2>2. q.queue \in [Eyes -> Seq(Frames)] /\ q.leaked \in [Eyes -> Nat]
    BY <1>0, <1>1, InAppend DEF Decoders
  <2>3. q.came \in SUBSET Frames
    BY <1>0, <1>1 DEF Decoders
  <2> HIDE DEF q
  <2>4. [d EXCEPT !.came = q.came, !.queue = q.queue, !.leaked = q.leaked]
          \in Decoders
    BY <1>0, <2>2, <2>3, QueueType
  <2> QED BY <2>1, <2>4
<1> HIDE DEF q
<1>3. ASSUME NEW e \in Eyes
      PROVE  /\ Held(q, e) \subseteq Held(d, e) \cup {i}
             /\ q.leaked[e] + Len(q.queue[e]) <= Depth
  <2>1. d.queue[e] \in Seq(Frames) /\ d.leaked[e] \in Nat
    BY <1>0 DEF Decoders
  <2>2. Held(q, e) \subseteq Held(d, e) \cup {i}
    BY <1>1, <2>1, InAppend DEF Held
  <2>3. d.leaked[e] + Len(d.queue[e]) <= Depth
    BY DEF Sound, Buffers
  <2>4. out[e] \in {"queued", "kept"} => d.leaked[e] + Len(d.queue[e]) < Depth
    BY <2>1, DepthAssumption DEF Outcomes, Free
  <2> QED BY <1>1, <2>1, <2>2, <2>3, <2>4, InAppend, DepthAssumption
<1>4. Bounded(q)
  <2>1. PICK b \in Nat : \A e \in Eyes : \A f \in Held(d, e) : f <= b
    BY DEF Sound, Bounded
  <2>2. \A e \in Eyes : Held(d, e) \subseteq Nat
    BY <1>0, DecoderNumbers
  <2>3. i \in Nat /\ b + i \in Nat
    BY FramesAssumption
  <2>4. \A e \in Eyes : \A f \in Held(q, e) : f <= b + i
    BY <1>3, <2>1, <2>2, <2>3
  <2> QED BY <2>3, <2>4 DEF Bounded
<1>5. Known(q)
  BY <1>1, <1>3 DEF Sound, Known, New
<1>6. Rendering(q)
  BY <1>1 DEF Sound, Rendering, New
<1>7. Buffers(q)
  BY <1>3 DEF Buffers
<1> QED BY <1>1, <1>2, <1>4, <1>5, <1>6, <1>7 DEF Sound, q

(* drainSurfaceOutput on both eyes *)
LEMMA RenderedFromQueue ==
  ASSUME NEW d, Sound(d), NEW e \in Eyes, NEW n \in 0..Len(d.queue[e])
  PROVE  Rendered(d, e, n) \subseteq In(d.queue[e]) /\ In(d.queue[e]) \subseteq Frames
<1>1. d.queue[e] \in Seq(Frames)
  BY DEF Sound, Decoders
<1>2. In(d.queue[e]) \subseteq Frames
  BY <1>1 DEF In
<1>3. Outputs(d, e, n) \subseteq In(d.queue[e])
  BY <1>1 DEF Outputs, In
<1>4. CASE n = 0
  BY <1>2, <1>4 DEF Rendered
<1>5. CASE n # 0
  <2>1. Outputs(d, e, n) # {}
    <3>1. d.queue[e][1] \in Outputs(d, e, n)
      BY <1>1, <1>5 DEF Outputs
    <3> QED BY <3>1
  <2>2. PICK b \in Nat : \A f \in Held(d, e) : f <= b
    BY DEF Sound, Bounded
  <2>3. \A f \in Outputs(d, e, n) : f <= b
    BY <1>3, <2>2 DEF Held
  <2>4. Outputs(d, e, n) \subseteq Nat
    BY <1>2, <1>3, FramesAssumption
  <2>5. Max(Outputs(d, e, n)) \in Outputs(d, e, n)
    BY <2>1, <2>3, <2>4, MaxIn
  <2> QED BY <1>2, <1>3, <1>5, <2>5 DEF Rendered
<1> QED BY <1>4, <1>5

LEMMA DrainSound ==
  ASSUME NEW d, Sound(d), NEW n, \A e \in Eyes : n[e] \in 0..Len(d.queue[e])
  PROVE  LET q == DrainSurfaceOutput(d, n) IN
         /\ Sound(q)
         /\ q.size = d.size /\ q.has = d.has /\ q.last = d.last /\ q.acks = d.acks
         /\ q.came = d.came
<1> DEFINE q == DrainSurfaceOutput(d, n)
           Drawn(e) == {f \in Rendered(d, e, n[e]) : d.has => f >= d.last}
<1>0. d \in Decoders
  BY DEF Sound
<1>1. /\ q.size = d.size /\ q.has = d.has /\ q.last = d.last /\ q.acks = d.acks
      /\ q.came = d.came /\ q.leaked = d.leaked
      /\ q.queue = [e \in Eyes |-> SubSeq(d.queue[e], n[e] + 1, Len(d.queue[e]))]
      /\ q.ready = [e \in Eyes |-> d.ready[e] \cup Rendered(d, e, n[e])]
      /\ q.drawn = [e \in Eyes |-> d.drawn[e] \cup Drawn(e)]
  BY <1>0 DEF DrainSurfaceOutput, Decoders
<1>2. q \in Decoders
  <2>1. q = [d EXCEPT !.queue = q.queue, !.ready = q.ready, !.drawn = q.drawn]
    BY <1>1 DEF DrainSurfaceOutput
  <2>2. q.queue \in [Eyes -> Seq(Frames)]
    BY <1>0, <1>1, InSubSeq DEF Decoders
  <2>3. q.ready \in [Eyes -> SUBSET Frames] /\ q.drawn \in [Eyes -> SUBSET Frames]
    <3>1. ASSUME NEW e \in Eyes
          PROVE  /\ d.ready[e] \subseteq Frames /\ d.drawn[e] \subseteq Frames
                 /\ Rendered(d, e, n[e]) \subseteq Frames
      <4>1. d.ready[e] \subseteq Frames /\ d.drawn[e] \subseteq Frames
        BY <1>0 DEF Decoders
      <4> QED BY <4>1, RenderedFromQueue
    <3> QED BY <1>1, <3>1
  <2> HIDE DEF q
  <2>4. [d EXCEPT !.queue = q.queue, !.ready = q.ready, !.drawn = q.drawn] \in Decoders
    BY <1>0, <2>2, <2>3, DrainType
  <2> QED BY <2>1, <2>4
<1> HIDE DEF q
<1>3. ASSUME NEW e \in Eyes
      PROVE  Held(q, e) \subseteq Held(d, e) /\ q.leaked[e] + Len(q.queue[e]) <= Depth
  <2>1. d.queue[e] \in Seq(Frames) /\ d.leaked[e] \in Nat /\ n[e] \in 0..Len(d.queue[e])
    BY <1>0 DEF Decoders
  <2>2. Held(q, e) \subseteq Held(d, e)
    BY <1>1, <2>1, InSubSeq, RenderedFromQueue DEF Held
  <2>3. d.leaked[e] + Len(d.queue[e]) <= Depth
    BY DEF Sound, Buffers
  <2>4. q.leaked[e] = d.leaked[e] /\ Len(q.queue[e]) = Len(d.queue[e]) - n[e]
    BY <1>1, <2>1, InSubSeq
  <2>5. Len(d.queue[e]) \in Nat
    BY <2>1
  <2> QED BY <2>1, <2>2, <2>3, <2>4, <2>5, DepthAssumption
<1>4. Bounded(q)
  BY <1>3 DEF Sound, Bounded
<1>5. Known(q)
  BY <1>1, <1>3 DEF Sound, Known, New
<1>6. Rendering(q)
  <2>1. \A e \in Eyes : Rendered(d, e, n[e]) \subseteq Nat
    BY <1>0, RenderedFromQueue, FramesAssumption
  <2>2. d.last \in Nat
    BY <1>0, DecoderNumbers
  <2>3. ASSUME NEW e \in Eyes, NEW f \in Rendered(d, e, n[e]), New(d, f)
        PROVE  f \in Drawn(e)
    BY <2>1, <2>2, <2>3 DEF New
  <2> QED BY <1>1, <2>3 DEF Sound, Rendering, New
<1>7. Buffers(q)
  BY <1>3 DEF Buffers
<1> QED BY <1>1, <1>2, <1>4, <1>5, <1>6, <1>7 DEF Sound, q

(* the newest frame that both eyes have rendered is published *)
LEMMA PublishSound ==
  ASSUME NEW d, Sound(d)
  PROVE  LET q == PublishReady(d) IN
         /\ Sound(q) /\ q.size = d.size
         /\ \/ q = d
            \/ \E p \in d.came : /\ New(d, p)
                                 /\ q.has = TRUE /\ q.last = p
                                 /\ q.acks = Append(d.acks, p)
                                 /\ q.came = {f \in d.came : f > p}
<1> DEFINE q == PublishReady(d)
           p == Max(Matching(d))
<1>0. d \in Decoders
  BY DEF Sound
<1>1. CASE Matching(d) = {}
  BY <1>0, <1>1 DEF PublishReady, Decoders
<1>2. CASE Matching(d) # {}
  <2>1. p \in Matching(d)
    <3>1. Matching(d) \subseteq Held(d, "left") /\ "left" \in Eyes
      BY DEF Matching, Held, Eyes
    <3>2. PICK b \in Nat : \A f \in Held(d, "left") : f <= b
      BY <3>1 DEF Sound, Bounded
    <3>3. Matching(d) \subseteq Nat
      BY <1>0, FramesAssumption DEF Matching, Decoders, Eyes
    <3> QED BY <1>2, <3>1, <3>2, <3>3, MaxIn
  <2>2. \A e \in Eyes : p \in d.ready[e]
    BY <2>1 DEF Matching, Eyes
  <2>3. New(d, p) /\ p \in Frames /\ p \in Nat /\ d.last \in Nat
    <3>1. New(d, p) /\ p \in d.ready["left"] /\ "left" \in Eyes
      BY <2>1 DEF Matching, New, Eyes
    <3>2. p \in Frames
      BY <1>0, <3>1 DEF Decoders
    <3> QED BY <1>0, <3>1, <3>2, FramesAssumption, DecoderNumbers
  <2>4. p \in d.came
    BY <2>2, <2>3 DEF Sound, Known, Held, Eyes
  <2>5. /\ q.size = d.size /\ q.has = TRUE /\ q.last = p /\ q.acks = Append(d.acks, p)
        /\ q.ready = [e \in Eyes |-> {f \in d.ready[e] : f > p}]
        /\ q.drawn = [e \in Eyes |-> {f \in d.drawn[e] : f >= p}]
        /\ q.came = {f \in d.came : f > p}
        /\ q.queue = d.queue /\ q.leaked = d.leaked
    BY <1>0, <1>2 DEF PublishReady, Decoders
  <2>6. q \in Decoders
    <3>1. q = [d EXCEPT !.has = TRUE, !.last = p, !.acks = q.acks, !.ready = q.ready,
                        !.drawn = q.drawn, !.came = q.came]
      BY <1>2, <2>5 DEF PublishReady
    <3>2. q.acks \in Seq(Frames) /\ q.came \in SUBSET Frames
      BY <1>0, <2>3, <2>5 DEF Decoders
    <3>3. q.ready \in [Eyes -> SUBSET Frames] /\ q.drawn \in [Eyes -> SUBSET Frames]
      BY <1>0, <2>5 DEF Decoders
    <3> HIDE DEF q, p
    <3>4. [d EXCEPT !.has = TRUE, !.last = p, !.acks = q.acks, !.ready = q.ready,
                    !.drawn = q.drawn, !.came = q.came] \in Decoders
      BY <1>0, <2>3, <3>2, <3>3, PublishType
    <3> QED BY <3>1, <3>4
  <2> HIDE DEF q, p
  <2>7. \A e \in Eyes : Held(q, e) \subseteq Held(d, e)
    BY <2>5 DEF Held
  <2>8. \A e \in Eyes : Held(d, e) \subseteq Nat
    BY <1>0, DecoderNumbers
  <2>9. ASSUME NEW f \in Nat, New(q, f) PROVE f > p /\ New(d, f)
    BY <2>3, <2>5, <2>9 DEF New
  <2>10. Known(q)
    <3> SUFFICES ASSUME NEW e \in Eyes, NEW f \in Held(q, e), New(q, f)
                 PROVE  f \in q.came
      BY DEF Known
    <3>1. f \in Held(d, e) /\ f \in Nat
      BY <2>7, <2>8
    <3>2. f > p /\ New(d, f)
      BY <2>9, <3>1
    <3> QED BY <2>5, <3>1, <3>2 DEF Sound, Known
  <2>11. Rendering(q)
    <3>1. ASSUME NEW e \in Eyes PROVE q.last \in q.drawn[e]
      <4>1. p \in d.drawn[e]
        BY <2>2, <2>3 DEF Sound, Rendering
      <4> QED BY <2>3, <2>5, <4>1
    <3>2. ASSUME NEW e \in Eyes, NEW f \in q.ready[e], New(q, f)
          PROVE  f \in q.drawn[e]
      <4>1. f \in d.ready[e] /\ f > p /\ f \in Nat
        BY <2>5, <2>8 DEF Held
      <4>2. f \in d.drawn[e]
        BY <2>9, <3>2, <4>1 DEF Sound, Rendering
      <4> QED BY <2>3, <2>5, <4>1, <4>2
    <3> QED BY <3>1, <3>2 DEF Rendering
  <2>12. Bounded(q) /\ Buffers(q)
    BY <2>5, <2>7 DEF Sound, Bounded, Buffers
  <2>13. Sound(q)
    BY <2>6, <2>10, <2>11, <2>12 DEF Sound
  <2> QED BY <2>3, <2>4, <2>5, <2>13 DEF q
<1> QED BY <1>1, <1>2

-----------------------------------------------------------------------------
(* What one frame does to the decoder d that takes it. *)
Fed(d, r, i) ==
  LET all == d.came \cup {i} IN
  /\ r.size = d.size
  /\ \/ /\ r.has = d.has /\ r.last = d.last /\ r.acks = d.acks
        /\ r.came = {f \in all : New(d, f)}
     \/ \E p \in all : /\ New(d, p)
                       /\ r.has = TRUE /\ r.last = p /\ r.acks = Append(d.acks, p)
                       /\ r.came = {f \in all : f > p}

LEMMA FedSound ==
  ASSUME NEW d, Sound(d), NEW i \in Frames,
         NEW out, \A e \in Eyes : out[e] \in Outcomes(d, e, i),
         NEW n, \A e \in Eyes : n[e] \in 0..Len(QueueAccessUnit(d, i, out).queue[e])
  PROVE  LET r == PublishReady(DrainSurfaceOutput(QueueAccessUnit(d, i, out), n))
         IN Sound(r) /\ Fed(d, r, i)
<1> DEFINE q == QueueAccessUnit(d, i, out)
           v == DrainSurfaceOutput(q, n)
           r == PublishReady(v)
<1>1. /\ Sound(q) /\ q.size = d.size /\ q.has = d.has /\ q.last = d.last
      /\ q.acks = d.acks /\ q.came = {f \in d.came \cup {i} : New(d, f)}
  BY QueueSound
<1>2. /\ Sound(v) /\ v.size = q.size /\ v.has = q.has /\ v.last = q.last
      /\ v.acks = q.acks /\ v.came = q.came
  <2> HIDE DEF q
  <2> QED BY <1>1, DrainSound DEF q
<1> HIDE DEF q
<1>3. /\ Sound(r) /\ r.size = v.size
      /\ \/ r = v
         \/ \E p \in v.came : /\ New(v, p)
                              /\ r.has = TRUE /\ r.last = p
                              /\ r.acks = Append(v.acks, p)
                              /\ r.came = {f \in v.came : f > p}
  <2> HIDE DEF v
  <2> QED BY <1>2, PublishSound
<1> HIDE DEF v, r
<1>4. CASE r = v
  BY <1>1, <1>2, <1>3, <1>4 DEF Fed, q, v, r
<1>5. ASSUME NEW p \in v.came, New(v, p), r.has = TRUE, r.last = p,
             r.acks = Append(v.acks, p), r.came = {f \in v.came : f > p}
      PROVE  Fed(d, r, i)
  <2>1. p \in d.came \cup {i} /\ New(d, p)
    BY <1>1, <1>2, <1>5 DEF New
  <2>2. d.came \cup {i} \subseteq Nat /\ d.last \in Nat
    <3>1. d \in Decoders
      BY DEF Sound
    <3>2. d.came \subseteq Frames
      BY <3>1 DEF Decoders
    <3> QED BY <3>1, <3>2, DecoderNumbers, FramesAssumption
  <2>3. \A f \in d.came \cup {i} : f > p => New(d, f)
    BY <2>1, <2>2 DEF New
  <2>4. r.came = {f \in d.came \cup {i} : f > p}
    BY <1>1, <1>2, <1>5, <2>3
  <2> QED BY <1>1, <1>2, <1>3, <1>5, <2>1, <2>4 DEF Fed
<1> QED BY <1>3, <1>4, <1>5 DEF q, v, r

(* The decoder that takes frame i of size s, after restarts. *)
Ready(i, s, codecs) ==
  EnsureStarted(IF GoesBack(dec.has, dec.last, i) THEN Stopped ELSE dec, s, codecs)

LEMMA ReadyIsFresh ==
  ASSUME NEW i \in Frames, NEW s \in Sizes, NEW codecs \in BOOLEAN
  PROVE  IF Publisher!Restarts(i, s)
           THEN Ready(i, s, codecs) \in {Stopped, [Stopped EXCEPT !.size = s]}
           ELSE Ready(i, s, codecs) = dec
<1>1. s # 0 /\ Stopped.size = 0
  BY SizesAssumption DEF Stopped
<1> QED BY <1>1 DEF Ready, EnsureStarted, Publisher!Restarts, Publisher!GoesBack, GoesBack

LEMMA StoppedFields ==
  ASSUME NEW s
  PROVE  LET d == [Stopped EXCEPT !.size = s] IN
         d.size = s /\ d.came = {} /\ d.has = FALSE /\ d.last = 0 /\ d.acks = <<>>
BY DEF Stopped

LEMMA SameSize ==
  ASSUME NEW d \in Decoders
  PROVE  d = [d EXCEPT !.size = d.size]
BY DEF Decoders

LEMMA StoppedIsSizeZero == Stopped = [Stopped EXCEPT !.size = 0]
<1>1. Stopped \in Decoders /\ Stopped.size = 0
  BY DEF Stopped, Decoders
<1> QED BY <1>1, SameSize

LEMMA DecodeStep ==
  ASSUME Sound(dec), NEW i \in Frames, NEW s \in Sizes, Decode(i, s)
  PROVE  Sound(dec') /\ Publisher!Deliver(i, s)
<1>1. PICK codecs \in BOOLEAN :
        LET d == Ready(i, s, codecs) IN
        \/ d.size = 0 /\ dec' = d
        \/ /\ d.size # 0
           /\ \E left \in Outcomes(d, "left", i), right \in Outcomes(d, "right", i) :
                LET q == QueueAccessUnit(d, i, PerEye(left, right)) IN
                \E l \in 0..Len(q.queue["left"]), r \in 0..Len(q.queue["right"]) :
                  dec' = PublishReady(DrainSurfaceOutput(q, PerEye(l, r)))
  BY DEF Decode, Ready
<1> DEFINE d == Ready(i, s, codecs)
<1>2. Sound(d)
  BY ReadyIsFresh, StoppedSound, StoppedIsSizeZero
<1>3. s # 0
  BY SizesAssumption
<1>4. CASE d.size = 0 /\ dec' = d
  <2>1. Publisher!Restarts(i, s) /\ d = Stopped
    <3>1. [Stopped EXCEPT !.size = s].size # 0
      BY <1>3, StoppedFields
    <3>2. ~Publisher!Restarts(i, s) => d = dec /\ dec.size # 0
      BY <1>3, ReadyIsFresh DEF Publisher!Restarts
    <3> QED BY <1>4, <3>1, <3>2, ReadyIsFresh
  <2>2. /\ dec'.size = 0 /\ dec'.came = {} /\ dec'.has = FALSE /\ dec'.last = 0
        /\ dec'.acks = <<>>
    BY <1>4, <2>1, StoppedIsSizeZero, StoppedFields
  <2> QED BY <1>2, <1>4, <2>1, <2>2 DEF Publisher!Deliver
<1>5. CASE d.size # 0 /\ ~(d.size = 0 /\ dec' = d)
  <2>1. PICK left \in Outcomes(d, "left", i), right \in Outcomes(d, "right", i) :
          LET q == QueueAccessUnit(d, i, PerEye(left, right)) IN
          \E l \in 0..Len(q.queue["left"]), r \in 0..Len(q.queue["right"]) :
            dec' = PublishReady(DrainSurfaceOutput(q, PerEye(l, r)))
    BY <1>1, <1>5
  <2> DEFINE out == PerEye(left, right)
             q == QueueAccessUnit(d, i, out)
  <2>2. PICK l \in 0..Len(q.queue["left"]), r \in 0..Len(q.queue["right"]) :
          dec' = PublishReady(DrainSurfaceOutput(q, PerEye(l, r)))
    BY <2>1
  <2>3. \A e \in Eyes : out[e] \in Outcomes(d, e, i)
    BY DEF PerEye, Eyes
  <2>4. \A e \in Eyes : PerEye(l, r)[e] \in 0..Len(q.queue[e])
    BY DEF PerEye, Eyes
  <2> HIDE DEF d, out
  <2>5. Sound(dec') /\ Fed(d, dec', i)
    BY <1>2, <2>2, <2>3, <2>4, FedSound
  <2>6. CASE Publisher!Restarts(i, s)
    <3>1. d = [Stopped EXCEPT !.size = s]
      BY <1>5, <2>6, ReadyIsFresh, StoppedIsSizeZero, StoppedFields DEF d
    <3>2. d.size = s /\ d.came = {} /\ d.has = FALSE /\ d.last = 0 /\ d.acks = <<>>
      BY <3>1, StoppedFields
    <3>3. Publisher!Continue(i, s, {}, FALSE, 0, <<>>)
      BY <2>5, <3>2 DEF Fed, New, Publisher!Continue
    <3> QED BY <2>5, <2>6, <3>3 DEF Publisher!Deliver
  <2>7. CASE ~Publisher!Restarts(i, s)
    <3>1. d = dec /\ dec.size = s
      BY <2>7, ReadyIsFresh DEF d, Publisher!Restarts
    <3>2. Publisher!Continue(i, s, dec.came, dec.has, dec.last, dec.acks)
      BY <2>5, <3>1 DEF Fed, New, Publisher!Continue
    <3> QED BY <2>5, <2>7, <3>2 DEF Publisher!Deliver
  <2> QED BY <2>6, <2>7
<1> QED BY <1>1, <1>4, <1>5

-----------------------------------------------------------------------------
IInv == Sound(dec) /\ surfaces \in {"pending", "ready", "failed"}
                   /\ offered \in 0..MaxOffered

LEMMA InitSound == Init => IInv
BY StoppedIsSizeZero, StoppedSound, DepthAssumption DEF Init, IInv

LEMMA TakeAcksSound ==
  ASSUME Sound(dec), TakeAcks
  PROVE  Sound(dec') /\ Publisher!TakeAcks
<1>1. dec \in Decoders /\ dec' = [dec EXCEPT !.acks = <<>>]
  BY DEF Sound, TakeAcks
<1>2. dec' \in Decoders
  <2>1. <<>> \in Seq(Frames)
    OBVIOUS
  <2> QED BY <1>1, <2>1, AcksType
<1>3. /\ dec'.size = dec.size /\ dec'.queue = dec.queue /\ dec'.leaked = dec.leaked
      /\ dec'.ready = dec.ready /\ dec'.drawn = dec.drawn /\ dec'.came = dec.came
      /\ dec'.has = dec.has /\ dec'.last = dec.last /\ dec'.acks = <<>>
  BY <1>1 DEF Decoders
<1>4. Bounded(dec') /\ Buffers(dec') /\ Known(dec') /\ Rendering(dec')
  BY <1>3 DEF Sound, Bounded, Buffers, Known, Rendering, Held, New
<1> QED BY <1>2, <1>3, <1>4 DEF Sound, Publisher!TakeAcks

LEMMA NextSound ==
  ASSUME IInv, [Next]_vars
  PROVE  IInv' /\ [Publisher!Next]_(Publisher!vars)
<1> USE DEF IInv
<1>1. CASE TakeAcks
  <2>1. Sound(dec') /\ Publisher!TakeAcks
    BY <1>1, TakeAcksSound
  <2> QED BY <1>1, <2>1 DEF TakeAcks, Publisher!Next
<1>2. CASE SurfacesCreated \/ SurfacesGone
  BY <1>2 DEF SurfacesCreated, SurfacesGone, Publisher!vars
<1>3. ASSUME NEW i \in Frames, NEW s \in Sizes, Decode(i, s)
      PROVE  IInv' /\ [Publisher!Next]_(Publisher!vars)
  <2>1. Sound(dec') /\ Publisher!Deliver(i, s)
    BY <1>3, DecodeStep
  <2>2. surfaces' = surfaces /\ offered' \in 0..MaxOffered
    BY <1>3, DepthAssumption DEF Decode
  <2> QED BY <2>1, <2>2 DEF Publisher!Next
<1>4. CASE UNCHANGED vars
  BY <1>4 DEF vars, Publisher!vars
<1> QED BY <1>1, <1>2, <1>3, <1>4 DEF Next

LEMMA SoundForever == Spec => []IInv
<1>1. IInv /\ [Next]_vars => IInv'
  BY NextSound
<1> QED BY <1>1, InitSound, PTL DEF Spec

(* The decoder's state keeps its type; in particular input buffers that a   *)
(* codec lost to oversized access units and those in use never exceed what *)
(* it has.                                                                 *)
THEOREM DecoderTypeCorrect == Spec => []TypeOK
<1>1. IInv => TypeOK
  <2> SUFFICES ASSUME IInv PROVE TypeOK
    OBVIOUS
  <2>1. dec \in Decoders /\ Buffers(dec)
    BY DEF IInv, Sound
  <2>2. ASSUME NEW e \in Eyes PROVE dec.leaked[e] \in 0..Depth
    <3>1. /\ dec.leaked[e] \in Nat /\ dec.queue[e] \in Seq(Frames)
          /\ dec.leaked[e] + Len(dec.queue[e]) <= Depth
      BY <2>1 DEF Decoders, Buffers
    <3>2. Len(dec.queue[e]) \in Nat
      BY <3>1
    <3> QED BY <3>1, <3>2, DepthAssumption
  <2>3. dec.leaked \in [Eyes -> 0..Depth]
    BY <2>1, <2>2 DEF Decoders
  <2> QED BY <2>1, <2>3 DEF IInv, TypeOK, Decoders
<1> QED BY <1>1, SoundForever, PTL

(* A published frame has been rendered on both eyes, for any outcomes of    *)
(* queueing and any delay of either codec.                                 *)
THEOREM PublishedIsOnBothEyes == Spec => []PublishedOnBothEyes
<1>1. IInv => PublishedOnBothEyes
  BY DEF IInv, Sound, Rendering, PublishedOnBothEyes
<1> QED BY <1>1, SoundForever, PTL

(* The decoder implements FramePublisher: every call of handlePayload is a  *)
(* Deliver of the abstract decoder, or changes nothing that it can see.    *)
THEOREM DecoderImplementsPublisher == Spec => ImplementsPublisher
<1>1. Init => Publisher!Init
  BY DEF Init, Stopped, Publisher!Init
<1>2. IInv /\ [Next]_vars => [Publisher!Next]_(Publisher!vars)
  BY NextSound
<1> QED BY <1>1, <1>2, SoundForever, PTL
        DEF Spec, ImplementsPublisher, Publisher!Spec

-----------------------------------------------------------------------------
(* FramePublisher, of which the decoder's fields are any such variables.    *)
LEMMA EmptyType ==
  0 \in Sizes \cup {0} /\ 0 \in Nat /\ FALSE \in BOOLEAN /\ {} \subseteq Frames
    /\ <<>> \in Seq(Frames)
OBVIOUS

LEMMA DeliverType ==
  ASSUME Publisher!TypeOK, NEW i \in Frames, NEW s \in Sizes, Publisher!Deliver(i, s)
  PROVE  Publisher!TypeOK'
<1> USE FramesAssumption DEF Publisher!TypeOK
<1>1. ASSUME NEW was \in SUBSET Frames, NEW had \in BOOLEAN, NEW prev \in Nat,
             NEW pending \in Seq(Frames),
             Publisher!Continue(i, s, was, had, prev, pending)
      PROVE  Publisher!TypeOK'
  <2>1. dec'.size \in Sizes \cup {0} /\ dec'.came \subseteq Frames
    BY <1>1 DEF Publisher!Continue
  <2>2. CASE dec'.has = had /\ dec'.last = prev /\ dec'.acks = pending
    BY <2>1, <2>2
  <2>3. ASSUME NEW p \in was \cup {i},
               dec'.has = TRUE, dec'.last = p, dec'.acks = Append(pending, p)
        PROVE  Publisher!TypeOK'
    <3>1. p \in Frames /\ p \in Nat
      OBVIOUS
    <3>2. dec'.acks \in Seq(Frames)
      BY <2>3, <3>1
    <3>3. dec'.has \in BOOLEAN /\ dec'.last \in Nat
      BY <2>3, <3>1
    <3> QED BY <2>1, <3>2, <3>3
  <2> QED BY <1>1, <2>2, <2>3 DEF Publisher!Continue
<1>2. CASE /\ ~Publisher!Restarts(i, s)
           /\ Publisher!Continue(i, s, dec.came, dec.has, dec.last, dec.acks)
  BY <1>1, <1>2
<1>3. CASE Publisher!Restarts(i, s) /\ Publisher!Continue(i, s, {}, FALSE, 0, <<>>)
  <2>1. /\ {} \in SUBSET Frames /\ FALSE \in BOOLEAN /\ 0 \in Nat
        /\ <<>> \in Seq(Frames)
    OBVIOUS
  <2> QED BY <1>1, <1>3, <2>1
<1>4. CASE /\ dec'.size = 0 /\ dec'.came = {}
           /\ dec'.has = FALSE /\ dec'.last = 0 /\ dec'.acks = <<>>
  BY <1>4, EmptyType DEF Publisher!TypeOK
<1> QED BY <1>2, <1>3, <1>4 DEF Publisher!Deliver

LEMMA PublisherType ==
  Publisher!TypeOK /\ [Publisher!Next]_(Publisher!vars) => Publisher!TypeOK'
<1> SUFFICES ASSUME Publisher!TypeOK, [Publisher!Next]_(Publisher!vars)
             PROVE  Publisher!TypeOK'
  OBVIOUS
<1>1. CASE Publisher!TakeAcks
  BY <1>1 DEF Publisher!TakeAcks, Publisher!TypeOK
<1>2. ASSUME NEW i \in Frames, NEW s \in Sizes, Publisher!Deliver(i, s)
      PROVE  Publisher!TypeOK'
  BY <1>2, DeliverType
<1>3. CASE UNCHANGED Publisher!vars
  BY <1>3 DEF Publisher!vars, Publisher!TypeOK
<1> QED BY <1>1, <1>2, <1>3 DEF Publisher!Next

(* The publisher's state keeps its type. *)
THEOREM PublisherTypeCorrect == Publisher!Spec => []Publisher!TypeOK
<1>1. Publisher!Init => Publisher!TypeOK
  BY EmptyType DEF Publisher!Init, Publisher!TypeOK
<1> QED BY <1>1, PublisherType, PTL DEF Publisher!Spec

-----------------------------------------------------------------------------
(* A frame that is published is newer than all acknowledgements that wait.  *)
LEMMA AppendOrdered ==
  ASSUME NEW a \in Seq(Frames), NEW p \in Frames,
         \A m, n \in 1..Len(a) : m < n => a[m] < a[n],
         a # <<>> => a[Len(a)] < p
  PROVE  /\ \A m, n \in 1..Len(Append(a, p)) :
              m < n => Append(a, p)[m] < Append(a, p)[n]
         /\ Append(a, p) # <<>> /\ Append(a, p)[Len(Append(a, p))] = p
<1> DEFINE b == Append(a, p)
<1>1. /\ Len(a) \in Nat /\ Len(b) = Len(a) + 1 /\ b[Len(a) + 1] = p
      /\ \A m \in 1..Len(a) : b[m] = a[m] /\ a[m] \in Nat
      /\ p \in Nat
  <2>1. /\ Len(a) \in Nat /\ Len(b) = Len(a) + 1 /\ b[Len(a) + 1] = p
        /\ \A m \in 1..Len(a) : b[m] = a[m]
    OBVIOUS
  <2>2. \A m \in 1..Len(a) : a[m] \in Frames
    OBVIOUS
  <2> QED BY <2>1, <2>2, FramesAssumption
<1>2. \A m \in 1..Len(a) : a[m] < p
  <2>1. ASSUME NEW m \in 1..Len(a) PROVE a[m] < p
    <3>1. a # <<>> /\ Len(a) \in 1..Len(a)
      BY <1>1
    <3>2. m < Len(a) => a[m] < a[Len(a)]
      BY <3>1
    <3> QED BY <1>1, <3>1, <3>2
  <2> QED BY <2>1
<1> HIDE DEF b
<1>3. ASSUME NEW m \in 1..Len(b), NEW n \in 1..Len(b), m < n
      PROVE  b[m] < b[n]
  <2>1. CASE n <= Len(a)
    BY <1>1, <1>3, <2>1
  <2>2. CASE n = Len(a) + 1
    BY <1>1, <1>2, <1>3, <2>2
  <2> QED BY <1>1, <2>1, <2>2
<1>4. b # <<>>
  BY <1>1 DEF b
<1> QED BY <1>1, <1>3, <1>4 DEF b

(* The acknowledgements that wait to be sent to the host are in increasing  *)
(* order and end with the last frame published.                            *)
THEOREM AcknowledgementsAreOrdered == Publisher!Spec => []Publisher!AcksOrdered
<1>1. Publisher!Init => Publisher!AcksOrdered
  BY DEF Publisher!Init, Publisher!AcksOrdered
<1>2. /\ Publisher!TypeOK /\ Publisher!AcksOrdered
      /\ [Publisher!Next]_(Publisher!vars)
      => Publisher!AcksOrdered'
  <2> SUFFICES ASSUME Publisher!TypeOK, Publisher!AcksOrdered,
                      [Publisher!Next]_(Publisher!vars)
               PROVE  Publisher!AcksOrdered'
    OBVIOUS
  <2>1. CASE Publisher!TakeAcks
    BY <2>1 DEF Publisher!TakeAcks, Publisher!AcksOrdered
  <2>2. CASE UNCHANGED Publisher!vars
    BY <2>2 DEF Publisher!vars, Publisher!AcksOrdered
  <2>3. ASSUME dec'.acks = <<>> PROVE Publisher!AcksOrdered'
    BY <2>3 DEF Publisher!AcksOrdered
  <2>4. ASSUME NEW i \in Frames, NEW s \in Sizes,
               ~Publisher!Restarts(i, s),
               Publisher!Continue(i, s, dec.came, dec.has, dec.last, dec.acks)
        PROVE  Publisher!AcksOrdered'
    <3>1. CASE dec'.has = dec.has /\ dec'.last = dec.last /\ dec'.acks = dec.acks
      BY <3>1 DEF Publisher!AcksOrdered
    <3>2. ASSUME NEW p \in dec.came \cup {i}, dec.has => p > dec.last,
                 dec'.has = TRUE, dec'.last = p, dec'.acks = Append(dec.acks, p)
          PROVE  Publisher!AcksOrdered'
      <4>1. /\ p \in Frames /\ dec.acks \in Seq(Frames) /\ Frames \subseteq Nat
            /\ dec.last \in Nat
        BY FramesAssumption DEF Publisher!TypeOK
      <4>2. dec.acks # <<>> => dec.acks[Len(dec.acks)] < p
        BY <3>2, <4>1 DEF Publisher!AcksOrdered, Publisher!TypeOK
      <4>3. /\ \A m, n \in 1..Len(dec'.acks) : m < n => dec'.acks[m] < dec'.acks[n]
            /\ dec'.acks[Len(dec'.acks)] = p
        BY <3>2, <4>1, <4>2, AppendOrdered DEF Publisher!AcksOrdered
      <4> QED BY <3>2, <4>3 DEF Publisher!AcksOrdered
    <3> QED BY <2>4, <3>1, <3>2 DEF Publisher!Continue
  <2>5. ASSUME NEW i \in Frames, NEW s \in Sizes,
               Publisher!Continue(i, s, {}, FALSE, 0, <<>>)
        PROVE  Publisher!AcksOrdered'
    <3>1. CASE dec'.acks = <<>>
      BY <3>1, <2>3
    <3>2. CASE dec'.has = TRUE /\ \E p \in {i} : dec'.last = p /\ dec'.acks = Append(<<>>, p)
      <4>1. dec'.acks = <<i>> /\ Len(dec'.acks) = 1 /\ dec'.acks[1] = i /\ dec'.last = i
        BY <3>2
      <4> QED BY <3>2, <4>1 DEF Publisher!AcksOrdered
    <3> QED BY <2>5, <3>1, <3>2 DEF Publisher!Continue
  <2>6. ASSUME NEW i \in Frames, NEW s \in Sizes, Publisher!Deliver(i, s)
        PROVE  Publisher!AcksOrdered'
    BY <2>3, <2>4, <2>5, <2>6 DEF Publisher!Deliver
  <2> QED BY <2>1, <2>2, <2>6 DEF Publisher!Next
<1> QED BY <1>1, <1>2, PublisherTypeCorrect, PTL DEF Publisher!Spec

(* So the decoder's acknowledgements are of different frames, in order, and *)
(* none is newer than the last frame published.                            *)
THEOREM DecoderAcksOrdered == Spec => []Publisher!AcksOrdered
BY DecoderImplementsPublisher, AcknowledgementsAreOrdered, PTL DEF ImplementsPublisher
=============================================================================
