-------------------------- MODULE BridgeFlowProofs --------------------------
(***************************************************************************)
(* Theorems about BridgeFlow, for any number of frames, skipped frames and *)
(* packets in flight: its type, that the window holds, that it never makes *)
(* the decoder restart, and that the host's books follow the decoder.      *)
(***************************************************************************)
EXTENDS BridgeFlow, TLAPS

LEMMA AppendAt ==
  ASSUME NEW S, NEW q \in Seq(S), NEW x \in S
  PROVE  /\ Append(q, x) \in Seq(S) /\ Len(Append(q, x)) = Len(q) + 1
         /\ Len(q) \in Nat
         /\ \A k \in 1..Len(q) + 1 :
              Append(q, x)[k] = IF k = Len(q) + 1 THEN x ELSE q[k]
OBVIOUS

LEMMA TailAt ==
  ASSUME NEW S, NEW q \in Seq(S), q # <<>>
  PROVE  /\ Tail(q) \in Seq(S) /\ Len(Tail(q)) = Len(q) - 1
         /\ Len(q) \in Nat \ {0} /\ Head(q) = q[1] /\ Head(q) \in S
         /\ \A k \in 1..Len(q) - 1 : Tail(q)[k] = q[k + 1]
OBVIOUS

-----------------------------------------------------------------------------
(* The type, which also bounds last. *)
HostType ==
  /\ vpc \in {"top", "send", "record"} /\ vf \in Frames
  /\ started \in BOOLEAN /\ hasAck \in BOOLEAN /\ ackFrame \in Frames
  /\ sendTime \subseteq Frames
  /\ chosen \in Frames /\ free \in Frames
LinkType ==
  /\ up \in BOOLEAN /\ h2q \in Seq(Frames) /\ q2h \in Seq(Frames)
  /\ lost \in BOOLEAN
DecoderType ==
  /\ size \in {0, 1} /\ delivered \subseteq Frames
  /\ has \in BOOLEAN /\ last \in Frames /\ acks \in Seq(Frames)

Typed == HostType /\ LinkType /\ DecoderType

LEMMA TypedImplies == Typed => TypeOK
BY BoundsAssumption DEF Typed, HostType, LinkType, DecoderType, TypeOK, Decoder!TypeOK,
   FrameSize, Frames

LEMMA InitTyped == Init => Typed
<1>1. 0 \in Frames /\ {} \subseteq Frames /\ <<>> \in Seq(Frames)
  BY BoundsAssumption DEF Frames
<1> QED BY <1>1 DEF Init, Decoder!Init, Typed, HostType, LinkType, DecoderType

LEMMA CapType == \A f \in Nat : /\ Cap(f) \in Frames /\ Cap(f) <= f
                                /\ \A g \in Frames : g <= f => g <= Cap(f)
BY BoundsAssumption DEF Cap, Frames

LEMMA ClampType ==
  ASSUME HostType, NEW f \in Nat
  PROVE  /\ Clamp(f) \in Nat
         /\ hasAck => Clamp(f) <= ackFrame + Window
         /\ \A g \in Nat : g <= f /\ (hasAck => g <= ackFrame + Window) => g <= Clamp(f)
BY BoundsAssumption DEF HostType, Clamp, Window, Frames

(* What a frame handed to the decoder does to it, when no acknowledgement   *)
(* is waiting.                                                             *)
LEMMA Delivered ==
  ASSUME DecoderType, acks = <<>>, NEW i \in Frames, Decoder!Deliver(i, 1)
  PROVE  /\ DecoderType'
         /\ delivered' \cup {last'} \subseteq delivered \cup {last, i, 0}
         /\ \/ acks' = <<>> /\ (has' => has /\ last' = last)
            \/ has' /\ acks' = <<last'>>
<1> USE DEF DecoderType
<1>0. 0 \in Frames
  BY BoundsAssumption DEF Frames
<1>1. ASSUME NEW was \in SUBSET delivered, NEW had \in BOOLEAN, NEW prev \in {last, 0},
             had => has /\ prev = last,
             Decoder!Continue(i, 1, was, had, prev, <<>>)
      PROVE  /\ DecoderType'
             /\ delivered' \cup {last'} \subseteq delivered \cup {last, i, 0}
             /\ \/ acks' = <<>> /\ (has' => has /\ last' = last)
                \/ has' /\ acks' = <<last'>>
  <2>1. size' = 1 /\ delivered' \subseteq was \cup {i}
    BY <1>1 DEF Decoder!Continue
  <2>2. CASE has' = had /\ last' = prev /\ acks' = <<>>
    BY <1>0, <1>1, <2>1, <2>2
  <2>3. ASSUME NEW p \in was \cup {i},
               has' = TRUE, last' = p, acks' = Append(<<>>, p)
        PROVE  /\ DecoderType'
               /\ delivered' \cup {last'} \subseteq delivered \cup {last, i, 0}
               /\ has' /\ acks' = <<last'>>
    <3>1. Append(<<>>, p) = <<p>> /\ <<p>> \in Seq(Frames)
      OBVIOUS
    <3> QED BY <2>1, <2>3, <3>1
  <2> QED BY <1>1, <2>2, <2>3 DEF Decoder!Continue
<1>2. CASE Decoder!Continue(i, 1, delivered, has, last, acks)
  BY <1>1, <1>2
<1>3. CASE Decoder!Continue(i, 1, {}, FALSE, 0, <<>>)
  BY <1>1, <1>3
<1>4. CASE size' = 0 /\ delivered' = {} /\ has' = FALSE /\ last' = 0 /\ acks' = <<>>
  BY <1>0, <1>4
<1> QED BY <1>2, <1>3, <1>4 DEF Decoder!Deliver

LEMMA TypedNext == Typed /\ [Next]_vars => Typed'
<1> SUFFICES ASSUME Typed, [Next]_vars PROVE Typed'
  OBVIOUS
<1> USE DEF Typed, hostVars, decVars
<1>0. 0 \in Frames /\ {} \subseteq Frames /\ <<>> \in Seq(Frames)
  BY BoundsAssumption DEF Frames
<1>1. CASE VideoTop
  <2>1. PICK missed \in 0..MaxMissed : vf' = Cap(Clamp(vf + missed))
    BY <1>1 DEF VideoTop
  <2>2. vf + missed \in Nat
    BY <2>1, BoundsAssumption DEF HostType, Frames
  <2>3. vf' \in Frames
    BY <2>1, <2>2, ClampType, CapType
  <2> QED BY <1>1, <2>3 DEF VideoTop, HostType, LinkType, DecoderType
<1>2. CASE VideoSend
  <2>1. h2q' \in Seq(Frames)
    BY <1>2, AppendAt DEF VideoSend, HostType, LinkType
  <2> QED BY <1>2, <2>1 DEF VideoSend, HostType, LinkType, DecoderType
<1>3. CASE VideoRecord
  <2>1. vf' \in Frames
    BY <1>3, CapType DEF VideoRecord, HostType, Frames
  <2> QED BY <1>3, <2>1 DEF VideoRecord, HostType, LinkType, DecoderType
<1>4. CASE HandleStats
  <2>1. q2h' \in Seq(Frames) /\ Head(q2h) \in Frames
    BY <1>4, TailAt DEF HandleStats, LinkType
  <2> QED BY <1>4, <2>1 DEF HandleStats, Acknowledge, HostType, LinkType, DecoderType
<1>5. CASE QuestReceive
  <2>1. h2q' \in Seq(Frames) /\ Head(h2q) \in Frames
    BY <1>5, TailAt DEF QuestReceive, LinkType
  <2>2. DecoderType'
    BY <1>5, <2>1, Delivered DEF QuestReceive
  <2> QED BY <1>5, <2>1, <2>2 DEF QuestReceive, HostType, LinkType
<1>6. CASE QuestSendAcks
  <2>1. q2h \o acks \in Seq(Frames) /\ <<>> \in Seq(Frames)
    BY DEF LinkType, DecoderType
  <2> QED BY <1>6, <2>1 DEF QuestSendAcks, Decoder!TakeAcks, HostType, LinkType,
             DecoderType
<1>7. CASE Connect
  BY <1>7 DEF Connect, HostType, LinkType, DecoderType
<1>8. CASE Disconnect
  BY <1>0, <1>8 DEF Disconnect, HostType, LinkType, DecoderType
<1>9. CASE QuestRestarts
  BY <1>0, <1>9 DEF QuestRestarts, HostType, LinkType, DecoderType
<1>10. CASE UNCHANGED vars
  BY <1>10 DEF vars, HostType, LinkType, DecoderType
<1> QED BY <1>1, <1>2, <1>3, <1>4, <1>5, <1>6, <1>7, <1>8, <1>9, <1>10 DEF Next

(* The flow's state keeps its type: frame numbers stay in range however the *)
(* acknowledgements and the skipped frames move them.                      *)
THEOREM FlowTypeCorrect == Spec => []TypeOK
<1> QED BY InitTyped, TypedNext, TypedImplies, PTL DEF Spec

-----------------------------------------------------------------------------
(* The window.  Frames chosen before the host last began to count are       *)
(* excused by free; of the others, none is beyond the window (Inside), and  *)
(* none comes after a higher one (Rising).                                 *)
There == delivered \cup {last}
Sent == {h2q[k] : k \in 1..Len(h2q)}

Chosen ==
  /\ \A f \in There \cup Sent : f <= chosen
  /\ vpc # "top" => vf <= chosen
  /\ free <= chosen /\ (~hasAck => free = chosen)

Inside ==
  hasAck => /\ \A f \in There \cup Sent : f > free => f <= ackFrame + Window
            /\ vpc # "top" /\ vf > free => vf <= ackFrame + Window

Rising ==
  /\ \A f \in There : f > free => f <= vf /\ \A k \in 1..Len(h2q) : f <= h2q[k]
  /\ \A k \in 1..Len(h2q) : h2q[k] > free =>
       h2q[k] <= vf /\ \A j \in 1..Len(h2q) : j > k => h2q[k] <= h2q[j]

Flow == Typed /\ Chosen /\ Inside /\ Rising

LEMMA Numbers ==
  ASSUME Typed
  PROVE  /\ There \cup Sent \subseteq Frames /\ Frames \subseteq Nat
         /\ free \in Nat /\ vf \in Nat /\ chosen \in Nat /\ ackFrame \in Nat
         /\ last \in Nat /\ hasAck \in BOOLEAN
         /\ h2q \in Seq(Frames) /\ Len(h2q) \in Nat
         /\ \A k \in 1..Len(h2q) : h2q[k] \in Sent /\ h2q[k] \in Nat
<1>1. Frames \subseteq Nat
  BY BoundsAssumption DEF Frames
<1>2. h2q \in Seq(Frames) /\ Len(h2q) \in Nat /\ \A k \in 1..Len(h2q) : h2q[k] \in Frames
  BY DEF Typed, LinkType
<1> QED BY <1>1, <1>2 DEF Typed, HostType, DecoderType, There, Sent

LEMMA InitFlow == Init => Flow
<1> SUFFICES ASSUME Init PROVE Flow
  OBVIOUS
<1>1. Typed
  BY InitTyped
<1>2. There = {0} /\ Sent = {} /\ Len(h2q) = 0
  BY DEF Init, Decoder!Init, There, Sent
<1> QED BY <1>1, <1>2 DEF Init, Flow, Chosen, Inside, Rising

(* the decoder is handed the first frame on the way, or all is lost *)
LEMMA Received ==
  ASSUME Flow, Typed', QuestReceive \/ Disconnect \/ QuestRestarts
  PROVE  Chosen' /\ Inside' /\ Rising'
<1> DEFINE i == Head(h2q)
<1>1. CASE QuestReceive
  <2>1. /\ h2q \in Seq(Frames) /\ h2q # <<>> /\ h2q' = Tail(h2q) /\ DecoderType
        /\ acks = <<>> /\ Decoder!Deliver(i, 1)
        /\ UNCHANGED <<hostVars, chosen, free>>
    BY <1>1 DEF QuestReceive, Flow, Typed, LinkType
  <2>2. /\ Len(h2q) \in Nat \ {0} /\ i = h2q[1] /\ i \in Frames
        /\ Len(h2q') = Len(h2q) - 1
        /\ \A k \in 1..Len(h2q) - 1 : h2q'[k] = h2q[k + 1]
    BY <2>1, TailAt
  <2>3. There' \subseteq There \cup {i, 0}
    BY <2>1, <2>2, Delivered DEF There
  <2>4. \A k \in 1..Len(h2q') : k + 1 \in 1..Len(h2q) /\ h2q'[k] = h2q[k + 1]
    BY <2>2
  <2>5. i \in Sent /\ Sent' \subseteq Sent
    BY <2>2, <2>4 DEF Sent
  <2>6. /\ There \cup Sent \subseteq Nat /\ free \in Nat /\ vf \in Nat
        /\ chosen \in Nat /\ ackFrame \in Nat
        /\ \A k \in 1..Len(h2q) : h2q[k] \in Nat
    BY Numbers DEF Flow
  <2>7. Chosen'
    BY <2>1, <2>3, <2>5, <2>6 DEF Flow, Chosen, hostVars
  <2>8. Inside'
    BY <2>1, <2>3, <2>5, <2>6 DEF Flow, Inside, hostVars
  <2>9. ASSUME NEW f \in There', f > free
        PROVE  f <= vf /\ \A k \in 1..Len(h2q') : f <= h2q'[k]
    <3>1. f \in There \/ f = i
      BY <2>3, <2>6, <2>9
    <3>2. CASE f \in There
      BY <2>4, <2>9, <3>2 DEF Flow, Rising
    <3>3. CASE f = i
      <4>1. 1 \in 1..Len(h2q) /\ f = h2q[1]
        BY <2>2, <3>3
      <4>2. f <= vf /\ \A j \in 1..Len(h2q) : j > 1 => f <= h2q[j]
        BY <2>9, <4>1 DEF Flow, Rising
      <4> QED BY <2>4, <4>2
    <3> QED BY <3>1, <3>2, <3>3
  <2>10. ASSUME NEW k \in 1..Len(h2q'), h2q'[k] > free
         PROVE  h2q'[k] <= vf /\ \A j \in 1..Len(h2q') : j > k => h2q'[k] <= h2q'[j]
    <3>1. k + 1 \in 1..Len(h2q) /\ h2q'[k] = h2q[k + 1]
      BY <2>4
    <3>2. /\ h2q[k + 1] <= vf
          /\ \A j \in 1..Len(h2q) : j > k + 1 => h2q[k + 1] <= h2q[j]
      BY <2>10, <3>1 DEF Flow, Rising
    <3> QED BY <2>4, <3>1, <3>2
  <2>11. Rising'
    BY <2>1, <2>9, <2>10 DEF Rising, hostVars
  <2> QED BY <2>7, <2>8, <2>11
<1>2. CASE Disconnect \/ QuestRestarts
  <2>1. /\ h2q' = <<>> /\ UNCHANGED <<hostVars, chosen, free>>
        /\ There' \subseteq There \cup {0}
    BY <1>2 DEF Disconnect, QuestRestarts, decVars, There
  <2>2. Len(h2q') = 0 /\ Sent' = {}
    BY <2>1 DEF Sent
  <2>3. There \subseteq Nat /\ free \in Nat /\ vf \in Nat /\ chosen \in Nat /\ ackFrame \in Nat
    BY Numbers DEF Flow
  <2> QED BY <2>1, <2>2, <2>3 DEF Flow, Chosen, Inside, Rising, hostVars
<1> QED BY <1>1, <1>2

(* the video thread chooses a frame, sends it, goes on to the next *)
LEMMA Streamed ==
  ASSUME Flow, Typed', VideoTop \/ VideoSend \/ VideoRecord
  PROVE  Chosen' /\ Inside' /\ Rising'
<1>0. /\ There \cup Sent \subseteq Frames /\ Frames \subseteq Nat /\ vf \in Frames
      /\ free \in Nat /\ vf \in Nat /\ chosen \in Nat /\ ackFrame \in Nat
      /\ hasAck \in BOOLEAN /\ h2q \in Seq(Frames) /\ Len(h2q) \in Nat
      /\ \A k \in 1..Len(h2q) : h2q[k] \in Sent /\ h2q[k] \in Nat
  BY Numbers DEF Flow, Typed, HostType
<1>1. CASE VideoTop
  <2>1. PICK missed \in 0..MaxMissed : vf' = Cap(Clamp(vf + missed))
    BY <1>1 DEF VideoTop
  <2>2. /\ vpc' = "send" /\ chosen' = (IF vf' > chosen THEN vf' ELSE chosen)
        /\ free' = (IF hasAck THEN free ELSE chosen')
        /\ UNCHANGED <<hasAck, ackFrame, h2q, delivered, last>>
    BY <1>1 DEF VideoTop, decVars
  <2>3. There' = There /\ Sent' = Sent
    BY <2>2 DEF There, Sent
  <2>4. vf + missed \in Nat /\ vf + missed >= vf
    BY <1>0, <2>1, BoundsAssumption
  <2>5. vf' \in Nat /\ (hasAck => vf' <= ackFrame + Window)
    <3>1. Clamp(vf + missed) \in Nat /\ (hasAck => Clamp(vf + missed) <= ackFrame + Window)
      BY <2>4, ClampType DEF Flow, Typed
    <3>2. vf' \in Nat /\ vf' <= Clamp(vf + missed)
      BY <1>0, <2>1, <3>1, CapType
    <3> QED BY <1>0, <3>1, <3>2 DEF Window
  <2>6. ASSUME NEW g \in Frames, g <= vf, hasAck => g <= ackFrame + Window
        PROVE  g <= vf'
    <3>1. g \in Nat /\ g <= vf + missed
      BY <1>0, <2>4, <2>6
    <3>2. g <= Clamp(vf + missed) /\ Clamp(vf + missed) \in Nat
      BY <2>4, <2>6, <3>1, ClampType DEF Flow, Typed
    <3> QED BY <2>1, <3>2, CapType
  <2>7. Chosen'
    <3>1. chosen' \in Nat /\ chosen' >= chosen /\ chosen' >= vf'
      BY <1>0, <2>2, <2>5
    <3>2. \A f \in There \cup Sent : f <= chosen'
      <4>1. \A f \in There \cup Sent : f \in Nat /\ f <= chosen
        BY <1>0 DEF Flow, Chosen
      <4> QED BY <1>0, <3>1, <4>1
    <3>3. free' <= chosen' /\ (~hasAck => free' = chosen')
      BY <1>0, <2>2, <3>1 DEF Flow, Chosen
    <3> QED BY <2>2, <2>3, <3>1, <3>2, <3>3 DEF Chosen
  <2>8. Inside'
    BY <1>0, <2>2, <2>3, <2>5 DEF Flow, Inside
  <2>9. Rising'
    <3>1. CASE hasAck
      <4>1. \A f \in There \cup Sent : f > free => f <= ackFrame + Window
        BY <3>1 DEF Flow, Inside
      <4>2. \A f \in There \cup Sent : f > free /\ f <= vf => f <= vf'
        BY <1>0, <2>6, <4>1
      <4> QED BY <1>0, <2>2, <2>3, <3>1, <4>2 DEF Flow, Rising
    <3>2. CASE ~hasAck
      <4>1. \A f \in There \cup Sent : ~(f > free')
        <5>1. free' = chosen' /\ chosen' \in Nat
          BY <1>0, <2>2, <2>5, <3>2
        <5>2. \A f \in There \cup Sent : f \in Nat /\ f <= chosen'
          BY <1>0, <2>3, <2>7 DEF Chosen
        <5> QED BY <5>1, <5>2
      <4> QED BY <1>0, <2>2, <2>3, <4>1 DEF Rising
    <3> QED BY <3>1, <3>2
  <2> QED BY <2>7, <2>8, <2>9
<1>2. CASE VideoSend
  <2>1. UNCHANGED <<vf, hasAck, ackFrame, delivered, last, chosen, free>> /\ vpc = "send"
    BY <1>2 DEF VideoSend, decVars
  <2>2. CASE UNCHANGED h2q
    <3>1. There' = There /\ Sent' = Sent
      BY <2>1, <2>2 DEF There, Sent
    <3> QED BY <2>1, <2>2, <3>1 DEF Flow, Chosen, Inside, Rising
  <2>3. CASE h2q' = Append(h2q, vf)
    <3>1. /\ Len(h2q') = Len(h2q) + 1
          /\ \A k \in 1..Len(h2q') : h2q'[k] = IF k = Len(h2q) + 1 THEN vf ELSE h2q[k]
      BY <1>0, <2>3, AppendAt
    <3>2. There' = There /\ Sent' \subseteq Sent \cup {vf}
      <4>1. There' = There
        BY <2>1 DEF There
      <4>2. ASSUME NEW k \in 1..Len(h2q')
            PROVE  h2q'[k] \in Sent \cup {vf}
        <5>1. CASE k = Len(h2q) + 1
          BY <3>1, <5>1
        <5>2. CASE k # Len(h2q) + 1
          <6>1. k \in 1..Len(h2q)
            BY <1>0, <3>1, <5>2
          <6> QED BY <3>1, <5>2, <6>1 DEF Sent
        <5> QED BY <5>1, <5>2
      <4> QED BY <4>1, <4>2 DEF Sent
    <3>3. Chosen' /\ Inside'
      BY <1>0, <2>1, <3>2 DEF Flow, Chosen, Inside
    <3>4. ASSUME NEW f \in There, f > free
          PROVE  f <= vf /\ \A k \in 1..Len(h2q') : f <= h2q'[k]
      <4>1. f <= vf /\ \A k \in 1..Len(h2q) : f <= h2q[k]
        BY <3>4 DEF Flow, Rising
      <4> QED BY <1>0, <3>1, <4>1
    <3>5. ASSUME NEW k \in 1..Len(h2q'), h2q'[k] > free
          PROVE  h2q'[k] <= vf /\ \A j \in 1..Len(h2q') : j > k => h2q'[k] <= h2q'[j]
      <4>1. CASE k = Len(h2q) + 1
        BY <1>0, <3>1, <4>1
      <4>2. CASE k \in 1..Len(h2q)
        <5>1. h2q'[k] = h2q[k]
          BY <1>0, <3>1, <4>2
        <5>2. h2q[k] <= vf /\ \A j \in 1..Len(h2q) : j > k => h2q[k] <= h2q[j]
          BY <3>5, <4>2, <5>1 DEF Flow, Rising
        <5> QED BY <1>0, <3>1, <5>1, <5>2
      <4> QED BY <1>0, <3>1, <4>1, <4>2
    <3> QED BY <2>1, <3>2, <3>3, <3>4, <3>5 DEF Rising
  <2> QED BY <1>2, <2>2, <2>3 DEF VideoSend
<1>3. CASE VideoRecord
  <2>1. /\ vpc' = "top" /\ vf' = Cap(vf + 1)
        /\ UNCHANGED <<hasAck, ackFrame, h2q, delivered, last, chosen, free>>
    BY <1>3 DEF VideoRecord, decVars
  <2>2. There' = There /\ Sent' = Sent
    BY <2>1 DEF There, Sent
  <2>3. vf + 1 \in Nat /\ vf <= vf + 1
    BY <1>0
  <2>4. vf <= vf' /\ vf' \in Nat
    BY <1>0, <2>1, <2>3, CapType
  <2>5. Chosen' /\ Inside'
    BY <2>1, <2>2 DEF Flow, Chosen, Inside
  <2>6. \A f \in There \cup Sent : f <= vf => f <= vf'
    <3>1. \A f \in There \cup Sent : f \in Nat
      BY <1>0
    <3> HIDE DEF There, Sent
    <3> QED BY <1>0, <2>4, <3>1
  <2> QED BY <1>0, <2>1, <2>2, <2>5, <2>6 DEF Flow, Rising
<1> QED BY <1>1, <1>2, <1>3

(* an acknowledgement that goes back excuses all that was chosen before it *)
LEMMA Counted ==
  ASSUME Flow, Typed', HandleStats
  PROVE  Chosen' /\ Inside' /\ Rising'
<1> DEFINE f == Head(q2h)
           known == f \in sendTime
<1>0. /\ There \cup Sent \subseteq Nat /\ free \in Nat /\ vf \in Nat
      /\ chosen \in Nat /\ ackFrame \in Nat /\ f \in Nat /\ hasAck \in BOOLEAN
      /\ \A k \in 1..Len(h2q) : h2q[k] \in Sent
  <2>1. f \in Frames
    BY TailAt DEF Flow, Typed, LinkType, HandleStats
  <2> QED BY <2>1, Numbers DEF Flow
<1>1. /\ hasAck' = (hasAck \/ known) /\ ackFrame' = (IF known THEN f ELSE ackFrame)
      /\ free' = (IF known /\ hasAck /\ f < ackFrame THEN chosen ELSE free)
      /\ UNCHANGED <<vpc, vf, h2q, delivered, last, chosen>>
  BY DEF HandleStats, Acknowledge, decVars
<1>2. There' = There /\ Sent' = Sent
  BY <1>1 DEF There, Sent
<1> HIDE DEF f, known
<1>3. free' >= free /\ free' \in Nat
  BY <1>0, <1>1 DEF Flow, Chosen
<1>4. Chosen'
  BY <1>0, <1>1, <1>2 DEF Flow, Chosen
<1>5. Inside'
  <2>1. CASE free' = chosen
    BY <1>0, <1>1, <1>2, <2>1 DEF Flow, Chosen, Inside
  <2>2. CASE hasAck /\ ackFrame' >= ackFrame /\ free' = free
    BY <1>0, <1>1, <1>2, <2>2 DEF Flow, Inside, Window
  <2>3. CASE ~hasAck'
    BY <2>3 DEF Inside
  <2>4. CASE ~hasAck
    BY <1>1, <2>1, <2>4 DEF Flow, Chosen
  <2> QED BY <1>0, <1>1, <2>1, <2>2, <2>4
<1>6. Rising'
  <2>1. \A g \in There \cup Sent : g > free' => g > free
    BY <1>0, <1>3
  <2> QED BY <1>0, <1>1, <1>2, <2>1 DEF Flow, Rising
<1> QED BY <1>4, <1>5, <1>6

LEMMA FlowNext == Flow /\ [Next]_vars => Flow'
<1> SUFFICES ASSUME Flow, [Next]_vars PROVE Flow'
  OBVIOUS
<1>1. Typed'
  BY TypedNext DEF Flow
<1>2. CASE VideoTop \/ VideoSend \/ VideoRecord
  BY <1>1, <1>2, Streamed DEF Flow
<1>3. CASE HandleStats
  BY <1>1, <1>3, Counted DEF Flow
<1>4. CASE QuestReceive \/ Disconnect \/ QuestRestarts
  BY <1>1, <1>4, Received DEF Flow
<1>5. CASE QuestSendAcks \/ Connect \/ UNCHANGED vars
  <2>1. UNCHANGED <<vpc, vf, hasAck, ackFrame, h2q, delivered, last, chosen, free>>
    BY <1>5 DEF QuestSendAcks, Connect, vars, Decoder!TakeAcks, hostVars, decVars
  <2> QED BY <1>1, <2>1 DEF Flow, Chosen, Inside, Rising, There, Sent
<1> QED BY <1>2, <1>3, <1>4, <1>5 DEF Next

(* What is on its way to the headset or published by it is at most Window   *)
(* ahead of the last acknowledgement, frames chosen before the host last    *)
(* began to count apart (main 460-465, handleStatsPayload 122-131).         *)
THEOREM FlowWindowHolds == Spec => []WindowHolds
<1>1. Flow => WindowHolds
  BY DEF Flow, Inside, WindowHolds, There, Sent
<1> QED BY <1>1, InitFlow, FlowNext, PTL DEF Spec

(* No frame of the window makes the decoder restart (video_decoder.cpp      *)
(* 158-164): it would have to follow one that is higher by more than two.   *)
THEOREM FlowDoesNotRestart == Spec => NoRestartInWindow
<1> DEFINE Step == h2q # <<>> /\ h2q' = Tail(h2q) /\ up' /\ Decoder!Restarts(Head(h2q), 1)
                     => size = 0 \/ last <= free
<1>1. Flow /\ [Next]_vars => [Step]_vars
  <2> SUFFICES ASSUME Flow, h2q # <<>>, Decoder!Restarts(Head(h2q), 1), size # 0
               PROVE  last <= free
    OBVIOUS
  <2>1. /\ Len(h2q) \in Nat \ {0} /\ Head(h2q) = h2q[1] /\ Head(h2q) \in Nat
        /\ last \in Nat /\ free \in Nat /\ size \in {0, 1}
    BY Numbers, TailAt DEF Flow, Typed, DecoderType
  <2>2. Head(h2q) + 2 < last
    BY <2>1 DEF Decoder!Restarts, Decoder!GoesBack
  <2>3. last > free => last <= h2q[1]
    <3>1. last \in There /\ 1 \in 1..Len(h2q)
      BY <2>1 DEF There
    <3> QED BY <3>1 DEF Flow, Rising
  <2> QED BY <2>1, <2>2, <2>3
<1> QED BY <1>1, InitFlow, FlowNext, PTL DEF Spec, NoRestartInWindow

-----------------------------------------------------------------------------
(* The host's books. *)
LEMMA ConcatAt ==
  ASSUME NEW S, NEW a \in Seq(S), NEW b \in Seq(S)
  PROVE  /\ a \o b \in Seq(S) /\ Len(a \o b) = Len(a) + Len(b)
         /\ Len(a) \in Nat /\ Len(b) \in Nat
         /\ \A k \in 1..Len(a) + Len(b) :
              (a \o b)[k] = IF k <= Len(a) THEN a[k] ELSE b[k - Len(a)]
OBVIOUS

(* what the last of a and b is when the first has been taken *)
LEMMA LastAfterTail ==
  ASSUME NEW S, NEW a \in Seq(S), NEW b \in Seq(S), a # <<>>
  PROVE  /\ Tail(a) \o b = <<>> => (a \o b)[Len(a \o b)] = Head(a)
         /\ Tail(a) \o b # <<>> =>
              (Tail(a) \o b)[Len(Tail(a) \o b)] = (a \o b)[Len(a \o b)]
<1> DEFINE t == Tail(a)
<1>1. /\ t \in Seq(S) /\ Len(t) = Len(a) - 1 /\ Len(a) \in Nat \ {0} /\ Head(a) = a[1]
      /\ \A k \in 1..Len(a) - 1 : t[k] = a[k + 1]
  BY TailAt
<1> HIDE DEF t
<1>2. /\ Len(t \o b) = Len(t) + Len(b) /\ Len(b) \in Nat /\ t \o b \in Seq(S)
      /\ \A k \in 1..Len(t) + Len(b) :
           (t \o b)[k] = IF k <= Len(t) THEN t[k] ELSE b[k - Len(t)]
  BY <1>1, ConcatAt
<1>3. /\ Len(a \o b) = Len(a) + Len(b)
      /\ \A k \in 1..Len(a) + Len(b) :
           (a \o b)[k] = IF k <= Len(a) THEN a[k] ELSE b[k - Len(a)]
  BY <1>1, ConcatAt
<1>4. ASSUME t \o b = <<>> PROVE (a \o b)[Len(a \o b)] = a[1]
  <2>1. Len(a) = 1 /\ Len(b) = 0
    BY <1>1, <1>2, <1>4
  <2> QED BY <1>3, <2>1
<1>5. ASSUME t \o b # <<>> PROVE (t \o b)[Len(t \o b)] = (a \o b)[Len(a \o b)]
  <2>1. Len(t) + Len(b) > 0
    BY <1>1, <1>2, <1>5
  <2>2. CASE Len(b) = 0
    <3>1. (t \o b)[Len(t \o b)] = t[Len(a) - 1] /\ (a \o b)[Len(a \o b)] = a[Len(a)]
      BY <1>1, <1>2, <1>3, <2>1, <2>2
    <3>2. Len(a) - 1 \in 1..Len(a) - 1
      BY <1>1, <2>1, <2>2
    <3> QED BY <1>1, <3>1, <3>2
  <2>3. CASE Len(b) > 0
    <3>1. /\ (t \o b)[Len(t \o b)] = b[Len(t) + Len(b) - Len(t)]
          /\ (a \o b)[Len(a \o b)] = b[Len(a) + Len(b) - Len(a)]
      BY <1>1, <1>2, <1>3, <2>3
    <3>2. Len(t) + Len(b) - Len(t) = Len(a) + Len(b) - Len(a)
      BY <1>1, <1>2
    <3> QED BY <3>1, <3>2
  <2>4. Len(b) = 0 \/ Len(b) > 0
    BY <1>2
  <2> QED BY <2>2, <2>3, <2>4
<1> QED BY <1>1, <1>4, <1>5 DEF t

Books == Typed /\ AcksTrackPublished

LEMMA BooksNext == Books /\ [Next]_vars => Books'
<1> SUFFICES ASSUME Books, [Next]_vars, has', ~lost' PROVE AcksTrackPublished'
  BY TypedNext DEF Books, AcksTrackPublished
<1> USE DEF hostVars, decVars
<1>0. q2h \in Seq(Frames) /\ acks \in Seq(Frames) /\ acks \o <<>> = acks
  BY DEF Books, Typed, LinkType, DecoderType
<1>1. CASE UNCHANGED <<q2h, acks, has, last, lost, hasAck, ackFrame>>
  BY <1>1 DEF Books, AcksTrackPublished
<1>2. CASE HandleStats
  <2>1. /\ q2h # <<>> /\ q2h' = Tail(q2h) /\ Head(q2h) \in sendTime
        /\ hasAck' /\ ackFrame' = Head(q2h) /\ ~lost /\ has
        /\ UNCHANGED <<acks, last>>
    BY <1>2 DEF HandleStats, Acknowledge
  <2>2. (q2h \o acks)[Len(q2h \o acks)] = last
    <3>1. q2h \o acks # <<>>
      BY <1>0, <2>1
    <3> QED BY <2>1, <3>1 DEF Books, AcksTrackPublished
  <2> QED BY <1>0, <2>1, <2>2, LastAfterTail DEF AcksTrackPublished
<1>3. CASE QuestReceive
  <2>1. /\ h2q # <<>> /\ h2q \in Seq(Frames) /\ acks = <<>> /\ DecoderType
        /\ Decoder!Deliver(Head(h2q), 1) /\ UNCHANGED <<q2h, lost, hasAck, ackFrame>>
    BY <1>3 DEF QuestReceive, Books, Typed, LinkType
  <2>2. CASE acks' = <<>> /\ has /\ last' = last
    BY <2>1, <2>2 DEF Books, AcksTrackPublished
  <2>3. CASE acks' = <<last'>>
    <3>1. last' \in Frames
      BY <2>1, TailAt, Delivered DEF DecoderType
    <3>2. <<last'>> \in Seq(Frames) /\ Len(<<last'>>) = 1 /\ <<last'>>[1] = last'
      BY <3>1
    <3>3. /\ Len(q2h \o acks') = Len(q2h) + 1 /\ Len(q2h) \in Nat
          /\ (q2h \o acks')[Len(q2h) + 1] = last'
      BY <1>0, <2>3, <3>2, ConcatAt
    <3>4. q2h' \o acks' # <<>>
      BY <1>0, <2>1, <2>3, <3>2, <3>3
    <3> QED BY <2>1, <3>3, <3>4 DEF AcksTrackPublished
  <2> QED BY <2>1, <2>2, <2>3, TailAt, Delivered
<1>4. CASE QuestSendAcks
  <2>1. /\ acks' = <<>> /\ q2h' = q2h \o acks /\ ~lost /\ has
        /\ UNCHANGED <<last, hasAck, ackFrame>>
    BY <1>4 DEF QuestSendAcks, Decoder!TakeAcks
  <2>2. q2h' \o acks' = q2h \o acks
    BY <1>0, <2>1
  <2> QED BY <2>1, <2>2 DEF Books, AcksTrackPublished
<1>5. CASE Disconnect
  <2>1. q2h = <<>> /\ q2h' = <<>> /\ ~lost /\ UNCHANGED <<acks, has, last, hasAck, ackFrame>>
    BY <1>5 DEF Disconnect
  <2> QED BY <2>1 DEF Books, AcksTrackPublished
<1>6. CASE QuestRestarts
  BY <1>6 DEF QuestRestarts
<1>7. CASE VideoTop \/ VideoSend \/ VideoRecord \/ Connect \/ UNCHANGED vars
  BY <1>1, <1>7 DEF VideoTop, VideoSend, VideoRecord, Connect, vars
<1> QED BY <1>2, <1>3, <1>4, <1>5, <1>6, <1>7 DEF Next

(* As long as no acknowledgement has been lost, the host knows the last     *)
(* frame the headset published, or the acknowledgement of that frame is on  *)
(* its way (main 467-481, handleStatsPayload 106-131).                      *)
THEOREM FlowAcksTracked == Spec => []AcksTrackPublished
<1>1. Init => Books
  BY InitTyped DEF Init, Decoder!Init, Books, AcksTrackPublished
<1>2. Books => AcksTrackPublished
  BY DEF Books
<1> QED BY <1>1, <1>2, BooksNext, PTL DEF Spec
=============================================================================
