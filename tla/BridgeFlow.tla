----------------------------- MODULE BridgeFlow -----------------------------
(***************************************************************************)
(* The H.264 streaming loop of host_bridge_demo.cpp against a headset: the *)
(* video thread sends frames at most Window ahead of the last one the      *)
(* headset acknowledged, the server's worker thread handles the            *)
(* acknowledgements, both under g_video_stats_mutex for their shared data  *)
(* only, and the headset's transport thread decodes and acknowledges.      *)
(*                                                                         *)
(* The headset's decoder is FramePublisher.  The connection is two         *)
(* sequences, both lost when it breaks.  chosen, free and lost are          *)
(* history: the highest frame chosen so far, and before the host last       *)
(* began to count acknowledgements, and whether any acknowledgement never   *)
(* reached the host's books.  It begins to count with the first one, and    *)
(* again with one that goes back: after a burst of frames without           *)
(* acknowledgement the decoder may have published a frame that the window  *)
(* then falls short of by more than two, so that it restarts and            *)
(* acknowledges lower frames.                                              *)
(***************************************************************************)
EXTENDS Naturals, Sequences

CONSTANTS MaxFrame,   \* bound: stands for this and all later frame indices
          MaxMissed,  \* bound: frames skipped at once when late
          MaxFlight,  \* bound: packets in flight, each way
          Age         \* how far behind an ack a send time is kept (300)

ASSUME BoundsAssumption == /\ MaxFrame \in Nat /\ MaxMissed \in Nat
                           /\ MaxFlight \in Nat /\ Age \in Nat

Window == 3
Frames == 0..MaxFrame
FrameSize == {1}

VARIABLES
  vpc,       \* where the video thread is
  vf,        \* its video_frame
  started,   \* its started_streaming
  hasAck,    \* g_has_video_ack
  ackFrame,  \* g_latest_video_ack_frame
  sendTime,  \* the keys of g_video_send_time_ns
  up,        \* is the headset connected?
  h2q, q2h,  \* frames to the headset, acknowledgements to the host
  size, delivered, has, last, acks,     \* the headset's decoder
  chosen, free, lost

hostVars == <<vpc, vf, started, hasAck, ackFrame, sendTime>>
decVars  == <<size, delivered, has, last, acks>>
vars == <<hostVars, up, h2q, q2h, decVars, chosen, free, lost>>

Decoder == INSTANCE FramePublisher WITH Sizes <- FrameSize

Init ==
  /\ vpc = "top" /\ vf = 0 /\ started = FALSE
  /\ hasAck = FALSE /\ ackFrame = 0 /\ sendTime = {}
  /\ up = FALSE /\ h2q = <<>> /\ q2h = <<>>
  /\ Decoder!Init
  /\ chosen = 0 /\ free = 0 /\ lost = FALSE

-----------------------------------------------------------------------------
(* The video thread, main lines 446-489. *)

Cap(f) == IF f > MaxFrame THEN MaxFrame ELSE f

(* mutants: one frame too many; starting again from the first *)
ClampLate(f) == IF hasAck /\ f > ackFrame + Window THEN ackFrame + Window + 1 ELSE f
ClampToStart(f) == IF hasAck /\ f > ackFrame + Window THEN 0 ELSE f

(* catch up with missed frames, then fall back into the window *)
Clamp(f) == IF hasAck /\ f > ackFrame + Window THEN ackFrame + Window ELSE f

VideoTop ==
  /\ vpc = "top"
  /\ \E missed \in 0..MaxMissed :
       /\ ~started => missed = 0
       /\ vf' = Cap(Clamp(vf + missed))
  /\ vpc' = "send"
  /\ chosen' = IF vf' > chosen THEN vf' ELSE chosen
  /\ free' = IF hasAck THEN free ELSE chosen'
  /\ UNCHANGED <<started, hasAck, ackFrame, sendTime, up, h2q, q2h, decVars,
                 lost>>

VideoSend ==
  /\ vpc = "send"
  /\ \/ /\ up /\ Len(h2q) < MaxFlight
        /\ h2q' = Append(h2q, vf)
        /\ vpc' = "record" /\ started' = TRUE
     \/ /\ ~up
        /\ vpc' = "top" /\ started' = FALSE
        /\ UNCHANGED h2q
  /\ UNCHANGED <<vf, hasAck, ackFrame, sendTime, up, q2h, decVars, chosen, free,
                 lost>>

(* the send time is recorded after the frame has left (lines 472-475) *)
VideoRecord ==
  /\ vpc = "record"
  /\ sendTime' = sendTime \cup {vf}
  /\ vf' = Cap(vf + 1)
  /\ vpc' = "top"
  /\ UNCHANGED <<started, hasAck, ackFrame, up, h2q, q2h, decVars, chosen, free,
                 lost>>

(* An acknowledgement counts only if its send time is recorded.  It may be  *)
(* lower than the one before.                                              *)
Acknowledge(f, known) ==
  /\ sendTime' = {g \in sendTime \ {f} : g + Age >= f}
  /\ hasAck' = (hasAck \/ known)
  /\ ackFrame' = IF known THEN f ELSE ackFrame
  /\ free' = IF known /\ hasAck /\ f < ackFrame THEN chosen ELSE free
  /\ lost' = (lost \/ f \notin sendTime)
  /\ UNCHANGED <<vpc, vf, started, up, h2q, decVars, chosen>>

(* mutants: only the first acknowledgement counts; the frame after the one  *)
(* acknowledged is noted                                                    *)
HandleStatsOnce ==
  /\ q2h # <<>> /\ q2h' = Tail(q2h)
  /\ Acknowledge(Head(q2h), Head(q2h) \in sendTime /\ ~hasAck)

HandleStatsNext ==
  /\ q2h # <<>> /\ q2h' = Tail(q2h)
  /\ Acknowledge(Head(q2h) + 1, TRUE)

(* handleStatsPayload, on the worker thread *)
HandleStats ==
  /\ q2h # <<>> /\ q2h' = Tail(q2h)
  /\ Acknowledge(Head(q2h), Head(q2h) \in sendTime)

-----------------------------------------------------------------------------
(* The headset's transport thread (native_main.cpp), and the connection. *)

(* receiveHostPackets: one kVideo packet goes through the decoder *)
QuestReceive ==
  /\ up /\ h2q # <<>> /\ acks = <<>>
  /\ Decoder!Deliver(Head(h2q), 1)
  /\ h2q' = Tail(h2q)
  /\ UNCHANGED <<hostVars, up, q2h, chosen, free, lost>>

(* sendVideoDecodeAcks: the list is emptied first, then sent *)
QuestSendAcks ==
  /\ acks # <<>>
  /\ Decoder!TakeAcks
  /\ IF up THEN Len(q2h) < MaxFlight /\ q2h' = q2h \o acks /\ UNCHANGED lost
           ELSE lost' = TRUE /\ UNCHANGED q2h
  /\ UNCHANGED <<hostVars, up, h2q, chosen, free>>

Connect ==
  /\ ~up /\ acks = <<>>
  /\ up' = TRUE
  /\ UNCHANGED <<hostVars, h2q, q2h, decVars, chosen, free, lost>>

(* the connection breaks; the headset's decoder survives it *)
Disconnect ==
  /\ up
  /\ up' = FALSE /\ h2q' = <<>> /\ q2h' = <<>>
  /\ lost' = (lost \/ q2h # <<>>)
  /\ UNCHANGED <<hostVars, decVars, chosen, free>>

(* the headset's application ends and starts again *)
QuestRestarts ==
  /\ up' = FALSE /\ h2q' = <<>> /\ q2h' = <<>>
  /\ size' = 0 /\ delivered' = {} /\ has' = FALSE /\ last' = 0 /\ acks' = <<>>
  /\ lost' = (lost \/ q2h # <<>> \/ acks # <<>>)
  /\ UNCHANGED <<hostVars, chosen, free>>

Next ==
  \/ VideoTop \/ VideoSend \/ VideoRecord \/ HandleStats
  \/ QuestReceive \/ QuestSendAcks \/ Connect \/ Disconnect \/ QuestRestarts

Spec == Init /\ [][Next]_vars

(* The threads keep running, the headset connects again, and a codec that  *)
(* is given a new frame over and over ends up putting it out.              *)
Fairness ==
  /\ WF_vars(VideoTop) /\ WF_vars(VideoSend) /\ WF_vars(VideoRecord)
  /\ WF_vars(HandleStats)
  /\ WF_vars(QuestReceive) /\ WF_vars(QuestSendAcks) /\ WF_vars(Connect)
  /\ SF_vars(QuestReceive /\ acks' # acks)

FairSpec == Spec /\ Fairness

-----------------------------------------------------------------------------
TypeOK ==
  /\ vpc \in {"top", "send", "record"} /\ vf \in Frames
  /\ started \in BOOLEAN /\ hasAck \in BOOLEAN /\ ackFrame \in Frames
  /\ sendTime \subseteq Frames
  /\ up \in BOOLEAN /\ h2q \in Seq(Frames) /\ q2h \in Seq(Frames)
  /\ Decoder!TypeOK
  /\ chosen \in Frames /\ free \in Frames /\ lost \in BOOLEAN

(* What is on its way to the headset or published by it is at most Window   *)
(* frames ahead of what the host knows to be published, frames chosen       *)
(* before the host last began to count apart (main 460-465,                *)
(* handleStatsPayload 122-131).                                            *)
WindowHolds ==
  hasAck =>
    \A f \in {h2q[k] : k \in 1..Len(h2q)} \cup {last} :
      f > free => f <= ackFrame + Window

(* As long as no acknowledgement has been lost, the host's ackFrame is the  *)
(* last frame the headset published, or the acknowledgement of that frame  *)
(* is on its way.                                                          *)
AcksTrackPublished ==
  LET onTheWay == q2h \o acks IN
  has /\ ~lost => IF onTheWay = <<>> THEN hasAck /\ ackFrame = last
                                     ELSE onTheWay[Len(onTheWay)] = last

(* The stream's own flow control never makes the headset restart its       *)
(* decoder (video_decoder.cpp 158-164): a frame that goes back by more than *)
(* two meets a frame chosen before the host last began to count, although   *)
(* the window falls back again and again.                                  *)
NoRestartInWindow ==
  [][ h2q # <<>> /\ h2q' = Tail(h2q) /\ up' /\ Decoder!Restarts(Head(h2q), 1)
        => size = 0 \/ last <= free ]_vars

(* The one way the stream can stop for good: the headset has published the  *)
(* last frame the window allows, or up to two more, and no acknowledgement  *)
(* of it will ever reach the host, which sends that frame over and over.    *)
Frozen ==
  /\ lost /\ hasAck /\ has /\ q2h \o acks = <<>>
  /\ last \in (ackFrame + Window)..(ackFrame + Window + 2)

(* When the connection holds from some time on, either every frame is       *)
(* reached on the headset or the loop of clamp, send, publish and ack       *)
(* (main 460-475, handleStatsPayload) is Frozen, and stays so.              *)
StreamAdvances == <>[]up => <>(last = MaxFrame) \/ <>[]Frozen
=============================================================================
