---------------------------- MODULE VideoDecoder ----------------------------
(***************************************************************************)
(* H264AnnexBDecoder and VideoDecoderRouter of the headset's               *)
(* video_decoder.cpp.  The transport thread hands every kVideo payload to  *)
(* handlePayload and then takes the acknowledgements; the OpenXR thread    *)
(* makes the two codec surfaces available and takes them away.             *)
(*                                                                         *)
(* The two MediaCodecs are external: a codec has Depth input buffers, puts *)
(* out what it was given in order, and gives it out at any later time.     *)
(* What the decoder draws on an eye's surface is kept in drawn, a history  *)
(* of the frames rendered since the last restart that are not older than   *)
(* the frame published; came is a history of the frames handed over since  *)
(* then that are newer.                                                    *)
(***************************************************************************)
EXTENDS StereoFrames, Sequences, FiniteSetsExt

CONSTANTS Oversize,   \* frames whose access units exceed an input buffer
          Depth,      \* input buffers of a codec
          MaxOffered  \* bound: frames counted while surfaces have failed

ASSUME DepthAssumption == Depth \in Nat \ {0} /\ MaxOffered \in Nat

Eyes == {"left", "right"}
PerEye(l, r) == [e \in Eyes |-> IF e = "left" THEN l ELSE r]

VARIABLES surfaces,  \* g_codec_surfaces: "pending", "ready" or "failed"
          dec,       \* the decoder object
          offered    \* H.264 frames handed over since the surfaces failed

vars == <<surfaces, dec, offered>>

(* after stop(): no codec, and resetStreamState *)
Stopped ==
  [size |-> 0,
   queue |-> [e \in Eyes |-> <<>>],     \* in the codec, not yet out
   leaked |-> [e \in Eyes |-> 0],       \* input buffers never given back
   ready |-> [e \in Eyes |-> {}],       \* surface_left_ready_, _right_ready_
   drawn |-> [e \in Eyes |-> {}],
   came |-> {},
   has |-> FALSE, last |-> 0,           \* has_published_frame_, last_...
   acks |-> <<>>]                       \* pending_acks_

Init == surfaces = "pending" /\ dec = Stopped /\ offered = 0

-----------------------------------------------------------------------------
(* The parts of decode(), in their order. *)

(* ensureStarted: a running pair of codecs of this size stays; otherwise   *)
(* everything stops, and starts again if there are surfaces and codecs.    *)
EnsureStarted(d, s, codecs) ==
  IF d.size = s THEN d
  ELSE IF surfaces = "ready" /\ codecs THEN [Stopped EXCEPT !.size = s]
  ELSE Stopped

Free(d, e) == Depth - Len(d.queue[e]) - d.leaked[e]

(* mutant: a payload that does not fit is not looked at for a buffer *)
OutcomesUnchecked(d, e, i) ==
  IF i \in Oversize THEN {"busy", "kept"}
  ELSE {"busy"} \cup {o \in {"queued"} : Free(d, e) > 0}

(* What queueAccessUnit may meet: no free input buffer or an error, a      *)
(* buffer too small for the payload or not to be queued (dequeued and never *)
(* given back), or success.                                                *)
Outcomes(d, e, i) ==
  {"busy"} \cup {o \in {"queued", "kept"} :
                   Free(d, e) > 0 /\ (i \in Oversize => o = "kept")}

QueueAccessUnit(d, i, out) ==
  [d EXCEPT
    !.came = {f \in @ \cup {i} : d.has => f > d.last},
    !.queue = [e \in Eyes |-> IF out[e] = "queued" THEN Append(d.queue[e], i)
                                                   ELSE d.queue[e]],
    !.leaked = [e \in Eyes |-> IF out[e] = "kept" THEN d.leaked[e] + 1
                                                   ELSE d.leaked[e]]]

(* drainSurfaceOutput: of the n outputs that are there, only the newest is *)
(* rendered and noted as ready; the others are released undrawn.           *)
Outputs(d, e, n) == {d.queue[e][k] : k \in 1..n}
Rendered(d, e, n) == IF n = 0 THEN {} ELSE {Max(Outputs(d, e, n))}

DrainSurfaceOutput(d, n) ==
  [d EXCEPT
    !.queue = [e \in Eyes |-> SubSeq(d.queue[e], n[e] + 1, Len(d.queue[e]))],
    !.ready = [e \in Eyes |-> d.ready[e] \cup Rendered(d, e, n[e])],
    !.drawn = [e \in Eyes |-> d.drawn[e] \cup
                 {f \in Rendered(d, e, n[e]) : d.has => f >= d.last}]]

(* mutants: only the left eye is looked at; frames may come back *)
MatchingLeft(d) == {f \in d.ready["left"] : ~d.has \/ f > d.last}
MatchingAny(d) == d.ready["left"] \cap d.ready["right"]

(* lines 197-231: publish the newest frame both eyes have rendered *)
Matching(d) ==
  {f \in d.ready["left"] \cap d.ready["right"] : ~d.has \/ f > d.last}

PublishReady(d) ==
  IF Matching(d) = {} THEN d
  ELSE LET p == Max(Matching(d)) IN
    [d EXCEPT !.has = TRUE, !.last = p, !.acks = Append(@, p),
              !.ready = [e \in Eyes |-> {f \in d.ready[e] : f > p}],
              !.drawn = [e \in Eyes |-> {f \in d.drawn[e] : f >= p}],
              !.came = {f \in d.came : f > p}]

-----------------------------------------------------------------------------
(* handlePayload of an H.264 payload of frame i and size s *)
Decode(i, s) ==
  \E codecs \in BOOLEAN :
    LET d1 == IF GoesBack(dec.has, dec.last, i) THEN Stopped ELSE dec
        d2 == EnsureStarted(d1, s, codecs)
    IN /\ offered' = IF surfaces = "failed" /\ offered < MaxOffered
                       THEN offered + 1 ELSE offered
       /\ \/ d2.size = 0 /\ dec' = d2
          \/ /\ d2.size # 0
             /\ \E left \in Outcomes(d2, "left", i),
                   right \in Outcomes(d2, "right", i) :
                  LET d3 == QueueAccessUnit(d2, i, PerEye(left, right)) IN
                    \E l \in 0..Len(d3.queue["left"]),
                       r \in 0..Len(d3.queue["right"]) :
                      dec' = PublishReady(DrainSurfaceOutput(d3, PerEye(l, r)))
       /\ UNCHANGED surfaces

TakeAcks ==
  /\ dec.acks # <<>>
  /\ dec' = [dec EXCEPT !.acks = <<>>]
  /\ UNCHANGED <<surfaces, offered>>

(* createCodecSurfaceResources, at the end of initialize() *)
SurfacesCreated ==
  /\ surfaces = "pending"
  /\ surfaces' \in {"ready", "failed"}
  /\ UNCHANGED <<dec, offered>>

(* cleanup() takes the surfaces back; the decoder keeps its references *)
SurfacesGone ==
  /\ surfaces = "ready"
  /\ surfaces' = "pending"
  /\ UNCHANGED <<dec, offered>>

Next == \/ TakeAcks \/ SurfacesCreated \/ SurfacesGone
        \/ \E i \in Frames, s \in Sizes : Decode(i, s)

Spec == Init /\ [][Next]_vars

-----------------------------------------------------------------------------
TypeOK ==
  /\ surfaces \in {"pending", "ready", "failed"}
  /\ dec \in [size : Sizes \cup {0},
              queue : [Eyes -> Seq(Frames)],
              leaked : [Eyes -> 0..Depth],
              ready : [Eyes -> SUBSET Frames],
              drawn : [Eyes -> SUBSET Frames],
              came : SUBSET Frames,
              has : BOOLEAN, last : Frames \cup {0},
              acks : Seq(Frames)]
  /\ offered \in 0..MaxOffered

(* The decoder keeps the promise of FramePublisher, with every frame that   *)
(* was handed over as one that may come out.                               *)
Publisher == INSTANCE FramePublisher
  WITH size <- dec.size, delivered <- dec.came,
       has <- dec.has, last <- dec.last, acks <- dec.acks

ImplementsPublisher == Publisher!Spec

(* A frame that is announced to the renderer and acknowledged to the host  *)
(* has been rendered on both eyes' surfaces since the last restart: never  *)
(* one eye only (video_decoder.cpp 197-218), although each codec drops,    *)
(* delays and skips frames on its own.                                     *)
PublishedOnBothEyes ==
  dec.has => \A e \in Eyes : dec.last \in dec.drawn[e]

(* Without surfaces the CPU path decodes: what openxr_app.cpp line 234     *)
(* logs ("codec SurfaceTexture path unavailable; using CPU video           *)
(* fallback") and what the decoder's own CPU path (252-350) is for.        *)
CpuFallback == surfaces = "failed" /\ offered = MaxOffered => dec.size # 0
=============================================================================
