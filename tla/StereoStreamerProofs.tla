------------------------ MODULE StereoStreamerProofs ------------------------
(***************************************************************************)
(* Theorems about StereoStreamer, for any number of calls and closes: its  *)
(* type, that the two halves of a packet are the same frame, that packets  *)
(* are in order, and that encode_pending is the delay.                     *)
(*                                                                         *)
(* An encoder numbers its frames from 0.  Has(e, j, f) says that frame f   *)
(* is number j of eye e and is somewhere between encode() and the pair:     *)
(* in ffmpeg, in the queue or taken.  The two eyes agree on Has, and a      *)
(* pair is what both have under the lowest number.                         *)
(*                                                                         *)
(* Then that what an encoder makes of ffmpeg's output does not depend on   *)
(* how it is cut into reads, for any stream and any reads: after p bytes   *)
(* the NAL units before a position c are processed, those from c on are    *)
(* still in the buffer (Remains), and what the thread holds are the access *)
(* units of the processed ones (Holds).                                    *)
(*                                                                         *)
(* Then that the demo's splitter, which has the whole file, makes the same *)
(* access units of every plain stream: round for round it holds what the   *)
(* reader thread holds (LoadHolds, LoadStands).                            *)
(*                                                                         *)
(* Last that a stream of pictures is cut into these: after every NAL unit  *)
(* the access units have the slices of the pictures so far (CutInto), and  *)
(* of the next one either none (Waits) or those so far (Started).          *)
(***************************************************************************)
EXTENDS MCStereoStreamer, Integers, SequenceTheorems, WellFoundedInduction, TLAPS

-----------------------------------------------------------------------------
LEMMA EyesAre == "left" \in Eyes /\ "right" \in Eyes /\ "left" # "right"
BY DEF Eyes

LEMMA EncoderTypes ==
  /\ NoEncoder \in Encoders /\ NewEncoder \in Encoders /\ Nothing \in Units
  /\ ~NoEncoder.there /\ NewEncoder.there
<1>1. <<>> \in Seq(Nat) /\ <<>> \in Seq(Units)
  OBVIOUS
<1>2. NoEncoder \in Encoders /\ ~NoEncoder.there
  BY <1>1 DEF NoEncoder, Encoders
<1>3. NewEncoder \in Encoders /\ NewEncoder.there
  BY <1>2 DEF NewEncoder, Encoders
<1> QED BY <1>2, <1>3 DEF Nothing, Units

LEMMA CountType ==
  ASSUME NEW f \in [Counters -> Nat], NEW c \in Counters
  PROVE  [f EXCEPT ![c] = f[c] + 1] \in [Counters -> Nat]
OBVIOUS

LEMMA SubmitType ==
  ASSUME NEW f \in [Counters -> Nat]
  PROVE  /\ [f EXCEPT !["submitted"] = @ + 1] \in [Counters -> Nat]
         /\ [f EXCEPT !["submitted"] = @ + 1, !["dropped"] = @ + 1] \in [Counters -> Nat]
<1>1. "submitted" \in Counters /\ "dropped" \in Counters
  BY DEF Counters
<1>2. [f EXCEPT !["submitted"] = @ + 1] \in [Counters -> Nat]
  BY <1>1
<1>3. [f EXCEPT !["submitted"] = @ + 1, !["dropped"] = @ + 1] \in [Counters -> Nat]
  BY <1>1
<1> QED BY <1>2, <1>3

LEMMA CountersAre == {"submitted", "sent", "dropped", "pending"} \subseteq Counters
BY DEF Counters

LEMMA InitType == Init => TypeOK
<1>1. Both(NoEncoder) \in [Eyes -> Encoders] /\ Both(Nothing) \in [Eyes -> Units]
  BY EncoderTypes DEF Both
<1>2. \A e \in Eyes : Both(Nothing)[e] = Nothing
  BY DEF Both
<1>3. [c \in Counters |-> 0] \in [Counters -> Nat]
  OBVIOUS
<1> SUFFICES ASSUME Init PROVE TypeOK
  OBVIOUS
<1>4. /\ enc \in [Eyes -> Encoders] /\ taken \in [Eyes -> Units]
      /\ payload \in [Eyes -> Units] /\ \A e \in Eyes : taken[e] = Nothing
      /\ stats \in [Counters -> Nat]
  BY <1>1, <1>2, <1>3 DEF Init
<1>5. pc = "idle" /\ closes = 0 /\ lag = 0 /\ raised = FALSE
  BY DEF Init
<1>6. closes \in 0..MaxCloses /\ lag \in Nat
  BY <1>5, BoundsAssumption
<1>7. raised \in BOOLEAN
  BY <1>5
<1> QED BY <1>4, <1>5, <1>6, <1>7 DEF TypeOK

LEMMA EncoderFields ==
  ASSUME NEW r \in Encoders, NEW inside \in Seq(Nat), NEW made \in Nat,
         NEW queue \in Seq(Units)
  PROVE  [r EXCEPT !.inside = inside, !.made = made, !.queue = queue] \in Encoders
BY DEF Encoders

(* what a step may do to an encoder keeps its type *)
LEMMA EncoderChanges ==
  ASSUME NEW r \in Encoders, NEW f \in Nat
  PROVE  /\ [r EXCEPT !.inside = Append(@, f)] \in Encoders
         /\ [r EXCEPT !.alive = FALSE] \in Encoders
         /\ r.queue # <<>> => /\ [r EXCEPT !.queue = Tail(@)] \in Encoders
                              /\ Head(r.queue) \in Units
         /\ r.inside # <<>> =>
              [r EXCEPT !.inside = Tail(@), !.made = @ + 1,
                        !.queue = Append(@, [frame |-> Head(r.inside), index |-> r.made])]
                \in Encoders
<1>1. r.inside \in Seq(Nat) /\ r.queue \in Seq(Units) /\ r.made \in Nat
  BY DEF Encoders
<1>2. [r EXCEPT !.inside = Append(@, f)] \in Encoders
  <2>1. Append(r.inside, f) \in Seq(Nat)
    BY <1>1
  <2> QED BY <2>1 DEF Encoders
<1>3. [r EXCEPT !.alive = FALSE] \in Encoders
  BY DEF Encoders
<1>4. ASSUME r.queue # <<>>
      PROVE  [r EXCEPT !.queue = Tail(@)] \in Encoders /\ Head(r.queue) \in Units
  <2>1. Tail(r.queue) \in Seq(Units) /\ Head(r.queue) \in Units
    BY <1>1, <1>4
  <2> QED BY <2>1 DEF Encoders
<1>5. ASSUME r.inside # <<>>
      PROVE  [r EXCEPT !.inside = Tail(@), !.made = @ + 1,
                       !.queue = Append(@, [frame |-> Head(r.inside), index |-> r.made])]
               \in Encoders
  <2>1. Tail(r.inside) \in Seq(Nat) /\ Head(r.inside) \in Nat
    BY <1>1, <1>5
  <2>2. Append(r.queue, [frame |-> Head(r.inside), index |-> r.made]) \in Seq(Units)
    BY <1>1, <2>1 DEF Units
  <2>3. r.made + 1 \in Nat
    BY <1>1
  <2> QED BY <2>1, <2>2, <2>3, EncoderFields
<1> QED BY <1>2, <1>3, <1>4, <1>5

(* one encoder changes *)
LEMMA OneChanges ==
  ASSUME enc \in [Eyes -> Encoders], NEW e \in Eyes, NEW r \in Encoders,
         r.there = enc[e].there, enc' = [enc EXCEPT ![e] = r]
  PROVE  enc' \in [Eyes -> Encoders] /\ \A d \in Eyes : enc'[d].there = enc[d].there
OBVIOUS

LEMMA NextType ==
  ASSUME TypeOK, [Next]_vars
  PROVE  TypeOK'
<1> USE EncoderTypes, CountersAre, BoundsAssumption
<1> SUFFICES /\ pc' \in {"idle", "ensure", "left", "right", "takeLeft", "takeRight",
                          "pair", "send"}
             /\ enc' \in [Eyes -> Encoders]
             /\ taken' \in [Eyes -> Units] /\ payload' \in [Eyes -> Units]
             /\ stats' \in [Counters -> Nat]
             /\ closes' \in 0..MaxCloses /\ lag' \in Nat /\ raised' \in BOOLEAN
             /\ \A e \in Eyes : taken'[e] # Nothing \/ pc' \notin {"idle", "ensure"}
                                => \A d \in Eyes : enc'[d].there
  BY DEF TypeOK
<1>0. /\ enc \in [Eyes -> Encoders]
      /\ taken \in [Eyes -> Units] /\ payload \in [Eyes -> Units]
      /\ stats \in [Counters -> Nat] /\ stats.submitted \in Nat /\ stats.pending \in Nat
      /\ \A e \in Eyes : taken[e] # Nothing => \A d \in Eyes : enc[d].there
  BY DEF TypeOK
<1>1. CASE Submit
  <2>1. stats' \in [Counters -> Nat]
    BY <1>0, <1>1, SubmitType DEF Submit, Count
  <2> QED BY <1>0, <1>1, <2>1 DEF Submit, TypeOK
<1>2. CASE EnsureEncoders
  <2>1. stats' \in [Counters -> Nat]
    BY <1>0, <1>2, CountType DEF EnsureEncoders, Raise, Count
  <2>2. enc' \in [Eyes -> Encoders] /\ \A d \in Eyes : enc[d].there => enc'[d].there
    BY <1>0, <1>2 DEF EnsureEncoders, Both
  <2>3. raised' \in BOOLEAN
    BY <1>2 DEF EnsureEncoders, Raise, TypeOK
  <2>4. pc' \notin {"idle", "ensure"} => \A d \in Eyes : enc'[d].there
    BY <1>0, <1>2 DEF EnsureEncoders, Raise, Both
  <2> QED BY <1>0, <1>2, <2>1, <2>2, <2>3, <2>4 DEF EnsureEncoders, Raise, TypeOK
<1>3. ASSUME NEW e \in Eyes, NEW to \in {"right", "takeLeft"}, Encode(e, to)
      PROVE  TypeOK'
  <2>1. stats' \in [Counters -> Nat]
    BY <1>0, <1>3, CountType DEF Encode, Raise, Count
  <2>2. \/ enc' = enc
        \/ enc' = [enc EXCEPT ![e] =
                     [enc[e] EXCEPT !.inside = Append(@, stats.submitted)]]
    BY <1>0, <1>3 DEF Encode, Encoders
  <2>3. enc[e] \in Encoders /\ stats.submitted \in Nat
    BY <1>0
  <2>4. enc' \in [Eyes -> Encoders] /\ \A d \in Eyes : enc'[d].there = enc[d].there
    <3>1. [enc[e] EXCEPT !.inside = Append(@, stats.submitted)] \in Encoders
      BY <2>3, EncoderChanges
    <3>2. [enc[e] EXCEPT !.inside = Append(@, stats.submitted)].there = enc[e].there
      BY <2>3 DEF Encoders
    <3> QED BY <1>0, <2>2, <3>1, <3>2, OneChanges
  <2>5. raised' \in BOOLEAN
    BY <1>3 DEF Encode, Raise, TypeOK
  <2>6. pc \notin {"idle", "ensure"}
    BY <1>3 DEF Encode, Eyes
  <2> QED BY <1>0, <1>3, <2>1, <2>4, <2>5, <2>6 DEF Encode, Raise, TypeOK
<1>4. ASSUME NEW e \in Eyes, NEW from \in {"takeLeft", "takeRight"},
             NEW to \in {"takeRight", "pair"}, Take(e, from, to)
      PROVE  TypeOK'
  <2>1. enc[e] \in Encoders
    BY <1>0
  <2>2. CASE taken[e] = Nothing /\ enc[e].queue # <<>>
    <3>1. /\ enc' = [enc EXCEPT ![e] = [enc[e] EXCEPT !.queue = Tail(@)]]
          /\ taken' = [taken EXCEPT ![e] = Head(enc[e].queue)]
      BY <1>0, <1>4, <2>2 DEF Take, Encoders
    <3>2. /\ [enc[e] EXCEPT !.queue = Tail(@)] \in Encoders
          /\ Head(enc[e].queue) \in Units
      BY <2>1, <2>2, EncoderChanges
    <3>3. [enc[e] EXCEPT !.queue = Tail(@)].there = enc[e].there
      BY <2>1 DEF Encoders
    <3>4. enc' \in [Eyes -> Encoders] /\ \A d \in Eyes : enc'[d].there = enc[d].there
      BY <1>0, <3>1, <3>2, <3>3, OneChanges
    <3> QED BY <1>0, <1>4, <3>1, <3>2, <3>4 DEF Take, Goto, TypeOK
  <2>3. CASE ~(taken[e] = Nothing /\ enc[e].queue # <<>>)
    BY <1>0, <1>4, <2>3 DEF Take, Goto, TypeOK
  <2> QED BY <2>2, <2>3
<1>5. CASE PairMissing \/ PairComplete
  <2>1. stats' \in [Counters -> Nat]
    BY <1>0, <1>5, CountType DEF PairMissing, PairComplete, Count
  <2> QED BY <1>0, <1>5, <2>1 DEF PairMissing, PairComplete, Goto, Both, TypeOK
<1>6. CASE SendFrame
  <2>1. stats' \in [Counters -> Nat]
    BY <1>0, <1>6, CountType DEF SendFrame, Count
  <2> QED BY <1>0, <1>6, <2>1 DEF SendFrame, Goto, TypeOK
<1>7. CASE Close
  BY <1>0, <1>7 DEF Close, Both, TypeOK
<1>8. ASSUME NEW e \in Eyes, Emit(e) PROVE TypeOK'
  <2> DEFINE unit == [frame |-> Head(enc[e].inside), index |-> enc[e].made]
             r == [enc[e] EXCEPT !.inside = Tail(@), !.made = @ + 1,
                                 !.queue = Append(@, unit)]
  <2>1. enc' = [enc EXCEPT ![e] = r]
    BY <1>0, <1>8 DEF Emit, Encoders
  <2>2. enc[e] \in Encoders /\ enc[e].inside # <<>>
    BY <1>0, <1>8 DEF Emit
  <2>3. r \in Encoders /\ r.there = enc[e].there
    BY <2>2, EncoderChanges DEF Encoders
  <2> HIDE DEF r
  <2>4. enc' \in [Eyes -> Encoders] /\ \A d \in Eyes : enc'[d].there = enc[d].there
    BY <1>0, <2>1, <2>3, OneChanges
  <2> QED BY <1>0, <1>8, <2>4 DEF Emit, TypeOK
<1>9. ASSUME NEW e \in Eyes, FfmpegExits(e) PROVE TypeOK'
  <2>1. enc' = [enc EXCEPT ![e] = [enc[e] EXCEPT !.alive = FALSE]] /\ enc[e] \in Encoders
    BY <1>0, <1>9 DEF FfmpegExits, Encoders
  <2>2. /\ [enc[e] EXCEPT !.alive = FALSE] \in Encoders
        /\ [enc[e] EXCEPT !.alive = FALSE].there = enc[e].there
    BY <2>1, EncoderChanges DEF Encoders
  <2>3. enc' \in [Eyes -> Encoders] /\ \A d \in Eyes : enc'[d].there = enc[d].there
    BY <1>0, <2>1, <2>2, OneChanges
  <2> QED BY <1>0, <1>9, <2>3 DEF FfmpegExits, TypeOK
<1>10. CASE UNCHANGED vars
  BY <1>0, <1>10 DEF vars, TypeOK
<1> QED BY <1>1, <1>2, <1>3, <1>4, <1>5, <1>6, <1>7, <1>8, <1>9, <1>10, EyesAre
        DEF Next, Send, EncodeLeft, EncodeRight, TakeLeft, TakeRight, TypeOK

(* Every state the streamer and its encoders reach is one of these: an      *)
(* access unit is only ever pending while both encoders exist, and send()  *)
(* uses an encoder only then.                                              *)
THEOREM StreamerTypeCorrect == Spec => []TypeOK
BY InitType, NextType, PTL DEF Spec

-----------------------------------------------------------------------------
(* One encoder r, and the unit t pending for its eye: the number of the     *)
(* first frame that is under way, the number the next frame will get, and  *)
(* the frames in between with their numbers.                               *)
BaseOf(r, t) == r.made - Len(r.queue) - (IF t = Nothing THEN 0 ELSE 1)
TopOf(r) == r.made + Len(r.inside)
HasIn(r, t, j, f) ==
  \/ t # Nothing /\ t.index = j /\ t.frame = f
  \/ \E k \in 1..Len(r.queue) : r.queue[k].index = j /\ r.queue[k].frame = f
  \/ \E k \in 1..Len(r.inside) : r.made + k - 1 = j /\ r.inside[k] = f
Numbered(r, t) ==
  /\ BaseOf(r, t) >= 0
  /\ t # Nothing => t.index = r.made - Len(r.queue) - 1
  /\ \A k \in 1..Len(r.queue) : r.queue[k].index = r.made - Len(r.queue) + k - 1

LEMMA Between ==
  ASSUME NEW r \in Encoders, NEW t \in Units, Numbered(r, t)
  PROVE  /\ BaseOf(r, t) \in Nat /\ TopOf(r) \in Nat
         /\ \A j, f \in Nat : HasIn(r, t, j, f) => BaseOf(r, t) <= j /\ j < TopOf(r)
<1>1. /\ r.made \in Nat /\ Len(r.queue) \in Nat /\ Len(r.inside) \in Nat
      /\ BaseOf(r, t) \in Nat /\ TopOf(r) \in Nat
  BY DEF Encoders, Numbered, BaseOf, TopOf
<1>2. ASSUME NEW j \in Nat, NEW f \in Nat, HasIn(r, t, j, f)
      PROVE  BaseOf(r, t) <= j /\ j < TopOf(r)
  <2>1. CASE t # Nothing /\ t.index = j /\ t.frame = f
    BY <1>1, <2>1 DEF Numbered, BaseOf, TopOf
  <2>2. ASSUME NEW k \in 1..Len(r.queue), r.queue[k].index = j
        PROVE  BaseOf(r, t) <= j /\ j < TopOf(r)
    <3>1. j = r.made - Len(r.queue) + k - 1 /\ k \in Nat /\ 1 <= k /\ k <= Len(r.queue)
      BY <2>2, <1>1 DEF Numbered
    <3>2. BaseOf(r, t) <= r.made - Len(r.queue) /\ TopOf(r) >= r.made
      BY <1>1 DEF BaseOf, TopOf
    <3>3. r.made - Len(r.queue) <= j /\ j < r.made
      BY <1>1, <3>1
    <3> QED BY <1>1, <3>1, <3>2, <3>3
  <2>3. ASSUME NEW k \in 1..Len(r.inside), r.made + k - 1 = j
        PROVE  BaseOf(r, t) <= j /\ j < TopOf(r)
    BY <1>1, <2>3 DEF BaseOf, TopOf
  <2> QED BY <1>2, <2>1, <2>2, <2>3 DEF HasIn
<1> QED BY <1>1, <1>2

(* encode() *)
LEMMA OneMoreInside ==
  ASSUME NEW r \in Encoders, NEW t \in Units, Numbered(r, t), NEW n \in Nat,
         NEW s, s.made = r.made, s.queue = r.queue, s.inside = Append(r.inside, n)
  PROVE  /\ Numbered(s, t) /\ BaseOf(s, t) = BaseOf(r, t)
         /\ TopOf(s) = TopOf(r) + 1
         /\ \A j, f \in Nat : HasIn(s, t, j, f)
                              => HasIn(r, t, j, f) \/ (j = TopOf(r) /\ f = n)
<1>1. /\ r.made \in Nat /\ r.inside \in Seq(Nat) /\ r.queue \in Seq(Units)
      /\ s.made = r.made /\ s.queue = r.queue /\ s.inside = Append(r.inside, n)
  BY DEF Encoders
<1>2. /\ Len(s.inside) = Len(r.inside) + 1 /\ Len(r.inside) \in Nat
      /\ \A k \in 1..Len(r.inside) : s.inside[k] = r.inside[k]
      /\ s.inside[Len(r.inside) + 1] = n
  BY <1>1
<1>3. ASSUME NEW j \in Nat, NEW f \in Nat, HasIn(s, t, j, f)
      PROVE  HasIn(r, t, j, f) \/ (j = TopOf(r) /\ f = n)
  <2>1. ASSUME NEW k \in 1..Len(s.inside), s.made + k - 1 = j, s.inside[k] = f
        PROVE  HasIn(r, t, j, f) \/ (j = TopOf(r) /\ f = n)
    <3>1. CASE k \in 1..Len(r.inside)
      BY <1>1, <1>2, <2>1, <3>1 DEF HasIn
    <3>2. CASE k = Len(r.inside) + 1
      BY <1>1, <1>2, <2>1, <3>2 DEF TopOf
    <3> QED BY <1>2, <2>1, <3>1, <3>2
  <2> QED BY <1>1, <1>3, <2>1 DEF HasIn
<1>4. Numbered(s, t) /\ BaseOf(s, t) = BaseOf(r, t)
  BY <1>1 DEF Numbered, BaseOf
<1>5. TopOf(s) = TopOf(r) + 1
  BY <1>1, <1>2 DEF TopOf
<1> QED BY <1>3, <1>4, <1>5

(* _emit_current() *)
LEMMA OneEmitted ==
  ASSUME NEW r \in Encoders, NEW t \in Units, Numbered(r, t), r.inside # <<>>,
         NEW s, s.made = r.made + 1, s.inside = Tail(r.inside),
         NEW u \in Units, u.frame = Head(r.inside), u.index = r.made,
         s.queue = Append(r.queue, u)
  PROVE  /\ Numbered(s, t) /\ BaseOf(s, t) = BaseOf(r, t)
         /\ TopOf(s) = TopOf(r)
         /\ \A j, f \in Nat : HasIn(s, t, j, f) => HasIn(r, t, j, f)
<1>1. /\ r.made \in Nat /\ r.inside \in Seq(Nat) /\ r.queue \in Seq(Units)
      /\ s.made = r.made + 1 /\ s.queue = Append(r.queue, u) /\ s.inside = Tail(r.inside)
  BY DEF Encoders
<1>2. u \in Units /\ u.index = r.made /\ u.frame = r.inside[1] /\ Len(r.inside) \in Nat \ {0}
  BY <1>1 DEF Units
<1>3. /\ Len(s.queue) = Len(r.queue) + 1 /\ Len(r.queue) \in Nat
      /\ \A k \in 1..Len(r.queue) : s.queue[k] = r.queue[k]
      /\ s.queue[Len(r.queue) + 1] = u
  BY <1>1, <1>2
<1>4. /\ Len(s.inside) = Len(r.inside) - 1
      /\ \A k \in 1..Len(s.inside) : s.inside[k] = r.inside[k + 1]
  BY <1>1, <1>2
<1>5. ASSUME NEW j \in Nat, NEW f \in Nat, HasIn(s, t, j, f)
      PROVE  HasIn(r, t, j, f)
  <2>1. ASSUME NEW k \in 1..Len(s.queue), s.queue[k].index = j, s.queue[k].frame = f
        PROVE  HasIn(r, t, j, f)
    <3>1. CASE k \in 1..Len(r.queue)
      BY <1>3, <2>1, <3>1 DEF HasIn
    <3>2. CASE k = Len(r.queue) + 1
      <4>1. 1 \in 1..Len(r.inside) /\ r.made + 1 - 1 = j /\ r.inside[1] = f
        BY <1>1, <1>2, <1>3, <2>1, <3>2
      <4> QED BY <4>1 DEF HasIn
    <3> QED BY <1>3, <2>1, <3>1, <3>2
  <2>2. ASSUME NEW k \in 1..Len(s.inside), s.made + k - 1 = j, s.inside[k] = f
        PROVE  HasIn(r, t, j, f)
    <3>1. k + 1 \in 1..Len(r.inside) /\ r.made + (k + 1) - 1 = j /\ r.inside[k + 1] = f
      <4>1. /\ k \in Nat /\ 1 <= k /\ k <= Len(r.inside) - 1
            /\ r.made + 1 + k - 1 = j /\ s.inside[k] = f
        BY <1>1, <1>2, <1>4, <2>2
      <4>2. r.inside[k + 1] = f
        BY <1>4, <2>2
      <4>3. k + 1 \in 1..Len(r.inside) /\ r.made + (k + 1) - 1 = j
        <5>1. \A a \in Nat : a + (k + 1) - 1 = a + 1 + k - 1
          BY <4>1
        <5>2. k + 1 \in 1..Len(r.inside)
          BY <1>2, <4>1
        <5>3. r.made + (k + 1) - 1 = r.made + 1 + k - 1
          BY <1>1, <5>1, Zenon
        <5> QED BY <4>1, <5>2, <5>3, Zenon
      <4> QED BY <4>2, <4>3
    <3> QED BY <3>1 DEF HasIn
  <2> QED BY <1>5, <2>1, <2>2 DEF HasIn
<1>6. Numbered(s, t) /\ BaseOf(s, t) = BaseOf(r, t)
  <2>1. s.made - Len(s.queue) = r.made - Len(r.queue)
    <3>1. \A a, b \in Nat : (a + 1) - (b + 1) = a - b
      OBVIOUS
    <3> QED BY <1>1, <1>3, <3>1, Zenon
  <2>2. BaseOf(s, t) = BaseOf(r, t)
    BY <2>1 DEF BaseOf
  <2>3. ASSUME NEW k \in 1..Len(s.queue)
        PROVE  s.queue[k].index = r.made - Len(r.queue) + k - 1
    <3>1. CASE k \in 1..Len(r.queue)
      BY <1>3, <3>1 DEF Numbered
    <3>2. CASE k = Len(r.queue) + 1
      BY <1>1, <1>2, <1>3, <3>2
    <3> QED BY <1>3, <2>3, <3>1, <3>2
  <2> QED BY <2>1, <2>2, <2>3 DEF Numbered
<1>7. TopOf(s) = TopOf(r)
  BY <1>1, <1>2, <1>4 DEF TopOf
<1> QED BY <1>5, <1>6, <1>7

(* take() *)
LEMMA OneTaken ==
  ASSUME NEW r \in Encoders, Numbered(r, Nothing), r.queue # <<>>,
         NEW t, t = Head(r.queue), t # Nothing,
         NEW s, s.made = r.made, s.inside = r.inside, s.queue = Tail(r.queue)
  PROVE  /\ Numbered(s, t) /\ BaseOf(s, t) = BaseOf(r, Nothing)
         /\ TopOf(s) = TopOf(r)
         /\ \A j, f \in Nat : HasIn(s, t, j, f) => HasIn(r, Nothing, j, f)
<1>1. /\ r.made \in Nat /\ r.inside \in Seq(Nat) /\ r.queue \in Seq(Units)
      /\ s.made = r.made /\ s.queue = Tail(r.queue) /\ s.inside = r.inside
  BY DEF Encoders
<1>2. /\ Len(r.queue) \in Nat \ {0} /\ Len(s.queue) = Len(r.queue) - 1 /\ t = r.queue[1]
      /\ \A k \in 1..Len(s.queue) : s.queue[k] = r.queue[k + 1]
      /\ \A k \in 1..Len(s.queue) : k + 1 \in 1..Len(r.queue)
      /\ 1 \in 1..Len(r.queue)
  BY <1>1
<1>3. ASSUME NEW j \in Nat, NEW f \in Nat, HasIn(s, t, j, f)
      PROVE  HasIn(r, Nothing, j, f)
  BY <1>1, <1>2, <1>3 DEF HasIn
<1>4. t.index = r.made - Len(r.queue) /\ s.made - Len(s.queue) = r.made - Len(r.queue) + 1
  <2>1. r.queue[1].index = r.made - Len(r.queue) + 1 - 1
    BY <1>2 DEF Numbered
  <2> QED BY <1>1, <1>2, <2>1
<1>5. BaseOf(s, t) = BaseOf(r, Nothing)
  BY <1>1, <1>4 DEF BaseOf
<1>6. ASSUME NEW k \in 1..Len(s.queue)
      PROVE  s.queue[k].index = s.made - Len(s.queue) + k - 1
  <2>1. r.queue[k + 1].index = r.made - Len(r.queue) + (k + 1) - 1
    BY <1>2, <1>6 DEF Numbered
  <2>2. s.queue[k] = r.queue[k + 1]
    BY <1>2, <1>6
  <2> QED BY <1>1, <1>2, <1>4, <2>1, <2>2
<1>7. t.index = s.made - Len(s.queue) - 1
  BY <1>1, <1>2, <1>4
<1>8. Numbered(s, t)
  BY <1>5, <1>6, <1>7 DEF Numbered
<1> QED BY <1>1, <1>3, <1>5, <1>8 DEF TopOf

(* the pair is sent *)
LEMMA OneSent ==
  ASSUME NEW r \in Encoders, NEW t \in Units, Numbered(r, t), t # Nothing
  PROVE  /\ Numbered(r, Nothing) /\ BaseOf(r, Nothing) = BaseOf(r, t) + 1
         /\ BaseOf(r, t) = t.index
         /\ HasIn(r, t, t.index, t.frame)
         /\ \A j, f \in Nat : HasIn(r, Nothing, j, f) => HasIn(r, t, j, f)
<1>1. r.made \in Nat /\ Len(r.queue) \in Nat
  BY DEF Encoders
<1> QED BY <1>1 DEF Numbered, BaseOf, HasIn

LEMMA Unused ==
  ASSUME NEW r, r.made = 0, r.queue = <<>>, r.inside = <<>>
  PROVE  /\ Numbered(r, Nothing) /\ BaseOf(r, Nothing) = 0 /\ TopOf(r) = 0
         /\ \A j, f \in Nat : ~HasIn(r, Nothing, j, f)
<1>1. Len(r.queue) = 0 /\ Len(r.inside) = 0
  OBVIOUS
<1>2. 0 - 0 - 0 = 0 /\ 0 + 0 = 0
  OBVIOUS
<1>3. BaseOf(r, Nothing) = 0 /\ TopOf(r) = 0
  BY <1>1, <1>2, Zenon DEF BaseOf, TopOf
<1> QED BY <1>1, <1>3 DEF Numbered, HasIn

-----------------------------------------------------------------------------
Base(e) == BaseOf(enc[e], taken[e])
Top(e) == TopOf(enc[e])
Has(e, j, f) == HasIn(enc[e], taken[e], j, f)

(* What every reachable state satisfies.  Without a pair sent twice or a    *)
(* half lost, the eyes' next pair has the same number (first conjuncts); a  *)
(* number that both eyes have stands for the same frame, since the right   *)
(* eye gets a frame just after the left one, or never another one.          *)
Counting ==
  /\ \A e \in Eyes : Numbered(enc[e], taken[e])
  /\ \A d, e \in Eyes : ~enc[d].there =>
       enc[e].made = 0 /\ enc[e].inside = <<>> /\ enc[e].queue = <<>>
  /\ Base("left") = Base("right")
  /\ Top("right") <= Top("left")
  /\ enc["right"].alive => Top("left") = Top("right") + (IF pc = "right" THEN 1 ELSE 0)

Agreeing ==
  /\ \A j, f, g \in Nat : Has("left", j, f) /\ Has("right", j, g) => f = g
  /\ pc = "right" =>
       \A j, f \in Nat : j + 1 = Top("left") /\ Has("left", j, f) => f = stats.submitted

Ordered ==
  /\ payload["left"] = payload["right"]
  /\ payload["left"].frame <= stats.submitted
  /\ pc \in {"ensure", "left", "right"} => payload["left"].frame < stats.submitted
  /\ \A e \in Eyes : \A i, j, f, g \in Nat : Has(e, i, f) /\ Has(e, j, g) /\ i < j => f < g
  /\ \A e \in Eyes : \A j, f \in Nat : Has(e, j, f) =>
       /\ payload["left"].frame < f /\ f <= stats.submitted
       /\ pc \in {"ensure", "left"} \/ (pc = "right" /\ e = "right") => f < stats.submitted

Delayed ==
  ~raised /\ (\E e \in Eyes : enc[e].there) =>
    \A e \in Eyes :
      Top(e) - Base(e) = stats.pending - lag
        + (IF pc \in {"takeLeft", "takeRight", "pair"} \/ (pc = "right" /\ e = "left")
             THEN 1 ELSE 0)

Sound == TypeOK /\ Counting /\ Agreeing /\ Ordered /\ Delayed

(* A step that gives no encoder a frame and sends nothing. *)
Steady ==
  \A e \in Eyes :
    /\ Numbered(enc'[e], taken'[e])
    /\ BaseOf(enc'[e], taken'[e]) = Base(e) /\ TopOf(enc'[e]) = Top(e)
    /\ \A j, f \in Nat : HasIn(enc'[e], taken'[e], j, f) => Has(e, j, f)

LEMMA SteadyKeeps ==
  ASSUME Sound, TypeOK', Steady, payload' = payload,
         \A e \in Eyes : enc'[e].alive => enc[e].alive,
         \A d, e \in Eyes : ~enc'[d].there =>
           enc'[e].made = 0 /\ enc'[e].inside = <<>> /\ enc'[e].queue = <<>>,
         stats'.submitted >= stats.submitted,
         pc' \in {"ensure", "left", "right"} =>
           \/ pc' = "ensure" /\ stats'.submitted > stats.submitted
           \/ pc' = pc /\ stats'.submitted = stats.submitted
           \/ pc' = "left" /\ pc = "ensure" /\ stats'.submitted = stats.submitted,
         pc = "right" => pc' = "right" \/ ~enc["right"].alive
  PROVE  Counting' /\ Agreeing' /\ Ordered'
<1>1. Counting'
  BY EyesAre DEF Sound, Counting, Steady, Base, Top
<1>2. Agreeing'
  BY EyesAre DEF Sound, Agreeing, Steady, Base, Top, Has
<1>3. Ordered'
  <2>1. /\ payload["left"].frame \in Nat /\ stats.submitted \in Nat /\ stats'.submitted \in Nat
    BY EyesAre, CountersAre DEF Sound, TypeOK, Units
  <2>2. /\ payload'["left"] = payload'["right"]
        /\ payload'["left"].frame <= stats'.submitted
        /\ pc' \in {"ensure", "left", "right"} => payload'["left"].frame < stats'.submitted
    BY <2>1 DEF Sound, Ordered
  <2>3. ASSUME NEW e \in Eyes, NEW i \in Nat, NEW j \in Nat, NEW f \in Nat, NEW g \in Nat,
               HasIn(enc'[e], taken'[e], i, f), HasIn(enc'[e], taken'[e], j, g), i < j
        PROVE  f < g
    BY <2>3 DEF Sound, Ordered, Steady, Has
  <2>4. ASSUME NEW e \in Eyes, NEW j \in Nat, NEW f \in Nat, HasIn(enc'[e], taken'[e], j, f)
        PROVE  /\ payload'["left"].frame < f /\ f <= stats'.submitted
               /\ pc' \in {"ensure", "left"} \/ (pc' = "right" /\ e = "right")
                    => f < stats'.submitted
    <3>1. Has(e, j, f)
      BY <2>4 DEF Steady
    <3>2. /\ payload["left"].frame < f /\ f <= stats.submitted
          /\ pc \in {"ensure", "left"} \/ (pc = "right" /\ e = "right")
               => f < stats.submitted
      BY <3>1 DEF Sound, Ordered
    <3> QED BY <2>1, <3>2
  <2> QED BY <2>2, <2>3, <2>4 DEF Ordered, Has
<1> QED BY <1>1, <1>2, <1>3

(* a step that leaves the encoders of every eye but e alone *)
LEMMA SteadyOne ==
  ASSUME Counting, NEW e \in Eyes,
         \A d \in Eyes \ {e} : enc'[d] = enc[d] /\ taken'[d] = taken[d],
         Numbered(enc'[e], taken'[e]),
         BaseOf(enc'[e], taken'[e]) = Base(e), TopOf(enc'[e]) = Top(e),
         \A j, f \in Nat : HasIn(enc'[e], taken'[e], j, f) => Has(e, j, f)
  PROVE  Steady
BY DEF Counting, Steady, Base, Top, Has

LEMMA Untouched ==
  ASSUME Counting, enc' = enc, taken' = taken
  PROVE  Steady
BY DEF Counting, Steady, Base, Top, Has

(* nothing is under way afterwards *)
LEMMA NothingUnderWay ==
  ASSUME TypeOK', pc' # "right",
         \A e \in Eyes : /\ enc'[e].made = 0 /\ enc'[e].inside = <<>>
                         /\ enc'[e].queue = <<>> /\ taken'[e] = Nothing,
         payload'["left"] = payload'["right"],
         payload'["left"].frame <= stats'.submitted,
         pc' \in {"ensure", "left"} => payload'["left"].frame < stats'.submitted
  PROVE  /\ Counting' /\ Agreeing' /\ Ordered'
         /\ \A e \in Eyes : Top(e)' = 0 /\ Base(e)' = 0
<1>1. \A e \in Eyes : /\ Numbered(enc'[e], taken'[e])
                      /\ BaseOf(enc'[e], taken'[e]) = 0 /\ TopOf(enc'[e]) = 0
                      /\ \A j, f \in Nat : ~HasIn(enc'[e], taken'[e], j, f)
  BY Unused
<1>2. Counting'
  BY <1>1, EyesAre DEF Counting, Base, Top
<1>3. Agreeing'
  BY <1>1, EyesAre DEF Agreeing, Has
<1>4. Ordered'
  BY <1>1, EyesAre DEF Ordered, Has
<1> QED BY <1>1, <1>2, <1>3, <1>4 DEF Top, Base

(* The encoders' delay stays what the counter says. *)
LEMMA DelayKeeps ==
  ASSUME Sound, Steady, TypeOK', lag' = lag,
         \A e \in Eyes : enc'[e].there = enc[e].there,
         raised' = raised \/ raised' = TRUE,
         NEW n \in {0, 1}, stats'.pending = stats.pending + n,
         ~raised' => \A e \in Eyes :
           (IF pc' \in {"takeLeft", "takeRight", "pair"} \/ (pc' = "right" /\ e = "left")
              THEN 1 ELSE 0) + n =
           (IF pc \in {"takeLeft", "takeRight", "pair"} \/ (pc = "right" /\ e = "left")
              THEN 1 ELSE 0)
  PROVE  Delayed'
<1>1. /\ stats.pending \in Nat /\ lag \in Nat /\ raised \in BOOLEAN
      /\ stats'.pending \in Nat
  BY CountersAre DEF Sound, TypeOK
<1>2. SUFFICES ASSUME ~raised', NEW c \in Eyes, enc'[c].there, NEW e \in Eyes
               PROVE  TopOf(enc'[e]) - BaseOf(enc'[e], taken'[e]) =
                        stats'.pending - lag'
                          + (IF \/ pc' \in {"takeLeft", "takeRight", "pair"}
                                \/ (pc' = "right" /\ e = "left") THEN 1 ELSE 0)
  BY DEF Delayed, Top, Base
<1>3. Top(e) - Base(e) = stats.pending - lag
        + (IF pc \in {"takeLeft", "takeRight", "pair"} \/ (pc = "right" /\ e = "left")
             THEN 1 ELSE 0)
  BY <1>1, <1>2 DEF Sound, Delayed
<1>4. TopOf(enc'[e]) = Top(e) /\ BaseOf(enc'[e], taken'[e]) = Base(e)
  BY DEF Steady
<1> QED BY <1>1, <1>2, <1>3, <1>4

LEMMA InitSound == Init => Sound
<1> SUFFICES ASSUME Init PROVE Sound
  OBVIOUS
<1>1. \A e \in Eyes : /\ enc[e].made = 0 /\ enc[e].inside = <<>> /\ enc[e].queue = <<>>
                      /\ taken[e] = Nothing /\ ~enc[e].alive /\ ~enc[e].there
  BY DEF Init, Both, NoEncoder
<1>2. \A e \in Eyes : /\ Numbered(enc[e], taken[e])
                      /\ BaseOf(enc[e], taken[e]) = 0 /\ TopOf(enc[e]) = 0
                      /\ \A j, f \in Nat : ~HasIn(enc[e], taken[e], j, f)
  BY <1>1, Unused
<1>3. Counting
  BY <1>1, <1>2, EyesAre DEF Counting, Base, Top
<1>4. Agreeing
  BY <1>2, EyesAre DEF Agreeing, Has, Init
<1>5. Ordered
  <2>1. payload["left"] = payload["right"] /\ payload["left"].frame = 0
    BY EyesAre DEF Init, Both, Nothing
  <2>2. stats.submitted = 0 /\ pc = "idle"
    BY CountersAre DEF Init
  <2> QED BY <1>2, <2>1, <2>2, EyesAre DEF Ordered, Has
<1>6. Delayed
  BY <1>1 DEF Delayed
<1> QED BY <1>3, <1>4, <1>5, <1>6, InitType DEF Sound

-----------------------------------------------------------------------------
(* One lemma for each action. *)
LEMMA StatsAre ==
  ASSUME TypeOK
  PROVE  /\ stats.submitted \in Nat /\ stats.pending \in Nat
         /\ stats \in [Counters -> Nat]
         /\ payload["left"] \in Units /\ payload["left"].frame \in Nat
BY CountersAre, EyesAre DEF TypeOK, Units

LEMMA CountIs ==
  ASSUME TypeOK, NEW c \in {"sent", "dropped", "pending"}, Count(c)
  PROVE  /\ stats'.submitted = stats.submitted
         /\ stats'.pending = stats.pending + (IF c = "pending" THEN 1 ELSE 0)
BY CountersAre, StatsAre DEF Count

(* a step that touches neither the encoders nor what is pending *)
LEMMA Idle ==
  ASSUME Sound, TypeOK', enc' = enc, taken' = taken, payload' = payload, lag' = lag,
         raised' = raised \/ raised' = TRUE,
         NEW n \in {0, 1}, stats'.pending = stats.pending + n,
         stats'.submitted >= stats.submitted,
         pc' \in {"ensure", "left", "right"} =>
           \/ pc' = "ensure" /\ stats'.submitted > stats.submitted
           \/ pc' = pc /\ stats'.submitted = stats.submitted
           \/ pc' = "left" /\ pc = "ensure" /\ stats'.submitted = stats.submitted,
         pc = "right" => pc' = "right" \/ ~enc["right"].alive,
         ~raised' => \A e \in Eyes :
           (IF pc' \in {"takeLeft", "takeRight", "pair"} \/ (pc' = "right" /\ e = "left")
              THEN 1 ELSE 0) + n =
           (IF pc \in {"takeLeft", "takeRight", "pair"} \/ (pc = "right" /\ e = "left")
              THEN 1 ELSE 0)
  PROVE  Sound'
<1>1. Steady
  BY Untouched DEF Sound
<1>2. Counting' /\ Agreeing' /\ Ordered'
  <2>1. \A d, e \in Eyes : ~enc'[d].there =>
           enc'[e].made = 0 /\ enc'[e].inside = <<>> /\ enc'[e].queue = <<>>
    BY DEF Sound, Counting
  <2> QED BY <1>1, <2>1, SteadyKeeps
<1>3. Delayed'
  BY <1>1, DelayKeeps
<1> QED BY <1>2, <1>3 DEF Sound

LEMMA SubmitSound == ASSUME Sound, TypeOK', Submit PROVE Sound'
<1>1. stats'.submitted = stats.submitted + 1 /\ stats'.pending = stats.pending
  BY StatsAre, CountersAre DEF Sound, Submit, Count
<1>2. stats'.submitted > stats.submitted /\ stats'.pending = stats.pending + 0
  BY <1>1, StatsAre DEF Sound
<1>3. stats'.submitted >= stats.submitted
  BY <1>1, StatsAre DEF Sound
<1> QED BY <1>2, <1>3, Idle DEF Submit

LEMMA MissingSound == ASSUME Sound, TypeOK', PairMissing PROVE Sound'
<1>1. stats'.submitted = stats.submitted /\ stats'.pending = stats.pending + 1
  BY CountIs DEF Sound, PairMissing
<1>2. stats'.submitted >= stats.submitted
  BY <1>1, StatsAre DEF Sound
<1> QED BY <1>1, <1>2, Idle DEF PairMissing, Goto

LEMMA SendFrameSound == ASSUME Sound, TypeOK', SendFrame PROVE Sound'
<1>1. stats'.submitted = stats.submitted /\ stats'.pending = stats.pending + 0
  BY CountIs DEF Sound, SendFrame
<1>2. stats'.submitted >= stats.submitted
  BY <1>1, StatsAre DEF Sound
<1> QED BY <1>1, <1>2, Idle DEF SendFrame, Goto

(* what except leaves when nothing else was changed *)
LEMMA RaiseSound ==
  ASSUME Sound, TypeOK', Raise, enc' = enc, taken' = taken, payload' = payload, lag' = lag,
         pc = "right" => ~enc["right"].alive
  PROVE  Sound'
<1>1. stats'.submitted = stats.submitted /\ stats'.pending = stats.pending + 0
  BY CountIs DEF Sound, Raise
<1>2. stats'.submitted >= stats.submitted
  BY <1>1, StatsAre DEF Sound
<1> QED BY <1>1, <1>2, Idle DEF Raise

LEMMA StutterSound == ASSUME Sound, TypeOK', UNCHANGED vars PROVE Sound'
<1>1. stats'.pending = stats.pending + 0 /\ stats'.submitted >= stats.submitted
  BY StatsAre DEF vars, Sound
<1> QED BY <1>1, Idle DEF vars

LEMMA CloseSound == ASSUME Sound, TypeOK', Close PROVE Sound'
<1>1. \A e \in Eyes : /\ enc'[e].made = 0 /\ enc'[e].inside = <<>>
                      /\ enc'[e].queue = <<>> /\ taken'[e] = Nothing /\ ~enc'[e].there
  BY DEF Close, Both, NoEncoder
<1>2. Counting' /\ Agreeing' /\ Ordered'
  BY <1>1, NothingUnderWay DEF Close, Sound, Ordered
<1>3. Delayed'
  BY <1>1 DEF Delayed
<1> QED BY <1>2, <1>3 DEF Sound

LEMMA EnsureSound == ASSUME Sound, TypeOK', EnsureEncoders PROVE Sound'
<1>0. CASE (\A e \in Eyes : enc[e].there) /\ UNCHANGED <<enc, lag>> /\ Raise
  BY <1>0, RaiseSound DEF EnsureEncoders
<1>1. CASE (\A e \in Eyes : enc[e].there) /\ UNCHANGED <<enc, stats, lag, raised>>
           /\ pc' = "left"
  <2>1. stats'.pending = stats.pending + 0 /\ stats'.submitted >= stats.submitted
    BY <1>1, StatsAre DEF Sound
  <2> QED BY <1>1, <2>1, Idle DEF EnsureEncoders
<1>2. CASE \E e \in Eyes : ~enc[e].there
  <2>1. \A e \in Eyes : /\ enc[e].made = 0 /\ enc[e].inside = <<>> /\ enc[e].queue = <<>>
                        /\ taken[e] = Nothing
    BY <1>2 DEF Sound, Counting, TypeOK
  <2>2. CASE Raise /\ UNCHANGED <<enc, lag>>
    BY <2>2, RaiseSound DEF EnsureEncoders
  <2>3. CASE Raise /\ enc' = [enc EXCEPT !["left"] = NewEncoder] /\ UNCHANGED lag
    <3>1. \A e \in Eyes : /\ enc'[e].made = 0 /\ enc'[e].inside = <<>>
                          /\ enc'[e].queue = <<>> /\ taken'[e] = Nothing
      BY <2>1, <2>3 DEF EnsureEncoders, NewEncoder, NoEncoder, Sound, TypeOK
    <3>2. stats'.submitted = stats.submitted
      BY <2>3, CountIs DEF Raise, Sound
    <3>3. Counting' /\ Agreeing' /\ Ordered'
      BY <2>3, <3>1, <3>2, NothingUnderWay DEF EnsureEncoders, Raise, Sound, Ordered
    <3>4. Delayed'
      BY <2>3 DEF Raise, Delayed
    <3> QED BY <3>3, <3>4 DEF Sound
  <2>4. CASE /\ pc' = "left" /\ enc' = Both(NewEncoder) /\ UNCHANGED stats
             /\ lag' = stats.pending /\ raised' = FALSE
    <3>1. \A e \in Eyes : /\ enc'[e].made = 0 /\ enc'[e].inside = <<>>
                          /\ enc'[e].queue = <<>> /\ taken'[e] = Nothing
      BY <2>1, <2>4 DEF EnsureEncoders, NewEncoder, NoEncoder, Both
    <3>2. /\ Counting' /\ Agreeing' /\ Ordered'
          /\ \A e \in Eyes : Top(e)' = 0 /\ Base(e)' = 0
      BY <2>4, <3>1, NothingUnderWay DEF EnsureEncoders, Sound, Ordered
    <3>3. stats'.pending - lag' + 0 = 0
      BY <2>4, StatsAre DEF Sound
    <3>4. Delayed'
      BY <2>4, <3>2, <3>3 DEF Delayed
    <3> QED BY <3>2, <3>4 DEF Sound
  <2>5. CASE Raise /\ enc' = Both(NewEncoder) /\ lag' = stats.pending
    <3>1. \A e \in Eyes : /\ enc'[e].made = 0 /\ enc'[e].inside = <<>>
                          /\ enc'[e].queue = <<>> /\ taken'[e] = Nothing
      BY <2>1, <2>5 DEF EnsureEncoders, NewEncoder, NoEncoder, Both
    <3>2. stats'.submitted = stats.submitted
      BY <2>5, CountIs DEF Raise, Sound
    <3>3. Counting' /\ Agreeing' /\ Ordered'
      BY <2>5, <3>1, <3>2, NothingUnderWay DEF EnsureEncoders, Raise, Sound, Ordered
    <3>4. Delayed'
      BY <2>5 DEF Raise, Delayed
    <3> QED BY <3>3, <3>4 DEF Sound
  <2> QED BY <1>2, <2>2, <2>3, <2>4, <2>5 DEF EnsureEncoders
<1> QED BY <1>0, <1>1, <1>2 DEF EnsureEncoders

LEMMA EmitSound == ASSUME Sound, TypeOK', NEW e \in Eyes, Emit(e) PROVE Sound'
<1>1. enc \in [Eyes -> Encoders] /\ enc[e] \in Encoders /\ taken \in [Eyes -> Units]
  BY DEF Sound, TypeOK
<1> DEFINE u == [frame |-> Head(enc[e].inside), index |-> enc[e].made]
<1>2. u \in Units /\ u.frame = Head(enc[e].inside) /\ u.index = enc[e].made
  <2>1. Head(enc[e].inside) \in Nat /\ enc[e].made \in Nat
    BY <1>1 DEF Emit, Encoders
  <2> QED BY <2>1 DEF Units
<1>3. /\ enc'[e].made = enc[e].made + 1 /\ enc'[e].inside = Tail(enc[e].inside)
      /\ enc'[e].queue = Append(enc[e].queue, u)
      /\ \A d \in Eyes : enc'[d].there = enc[d].there /\ enc'[d].alive = enc[d].alive
      /\ \A d \in Eyes \ {e} : enc'[d] = enc[d]
  BY <1>1 DEF Emit, Encoders
<1> HIDE DEF u
<1>4. taken' = taken /\ pc' = pc /\ payload' = payload /\ lag' = lag /\ raised' = raised
      /\ stats' = stats /\ enc[e].inside # <<>>
  BY DEF Emit
<1>5. /\ Numbered(enc'[e], taken[e]) /\ BaseOf(enc'[e], taken[e]) = BaseOf(enc[e], taken[e])
      /\ TopOf(enc'[e]) = TopOf(enc[e])
      /\ \A j, f \in Nat : HasIn(enc'[e], taken[e], j, f) => HasIn(enc[e], taken[e], j, f)
  BY <1>1, <1>2, <1>3, <1>4, OneEmitted DEF Sound, Counting
<1>6. Steady
  BY <1>3, <1>4, <1>5, SteadyOne DEF Sound, Base, Top, Has
<1>7. \A d, c \in Eyes : ~enc'[d].there =>
         enc'[c].made = 0 /\ enc'[c].inside = <<>> /\ enc'[c].queue = <<>>
  BY <1>3, <1>4 DEF Sound, Counting
<1>8. stats'.submitted >= stats.submitted /\ stats'.pending = stats.pending + 0
  BY <1>4, StatsAre DEF Sound
<1>9. Counting' /\ Agreeing' /\ Ordered'
  BY <1>3, <1>4, <1>6, <1>7, <1>8, SteadyKeeps
<1>10. Delayed'
  BY <1>3, <1>4, <1>6, <1>8, DelayKeeps
<1> QED BY <1>9, <1>10 DEF Sound

LEMMA ExitsSound == ASSUME Sound, TypeOK', NEW e \in Eyes, FfmpegExits(e) PROVE Sound'
<1>1. \A d \in Eyes : /\ enc'[d].made = enc[d].made /\ enc'[d].inside = enc[d].inside
                      /\ enc'[d].queue = enc[d].queue /\ enc'[d].there = enc[d].there
                      /\ enc'[d].alive => enc[d].alive
  BY DEF Sound, TypeOK, Encoders, FfmpegExits
<1>2. taken' = taken /\ pc' = pc /\ payload' = payload /\ lag' = lag /\ raised' = raised
      /\ stats' = stats
  BY DEF FfmpegExits
<1>3. Steady
  <2> SUFFICES ASSUME NEW d \in Eyes
               PROVE  /\ Numbered(enc'[d], taken[d])
                      /\ BaseOf(enc'[d], taken[d]) = BaseOf(enc[d], taken[d])
                      /\ TopOf(enc'[d]) = TopOf(enc[d])
                      /\ \A j, f \in Nat : HasIn(enc'[d], taken[d], j, f)
                                           => HasIn(enc[d], taken[d], j, f)
    BY <1>2 DEF Steady, Base, Top, Has
  <2>1. enc'[d].made = enc[d].made /\ enc'[d].inside = enc[d].inside
        /\ enc'[d].queue = enc[d].queue
    BY <1>1
  <2>2. BaseOf(enc'[d], taken[d]) = BaseOf(enc[d], taken[d]) /\ TopOf(enc'[d]) = TopOf(enc[d])
    BY <2>1, Zenon DEF BaseOf, TopOf
  <2>3. Numbered(enc[d], taken[d])
    BY DEF Sound, Counting
  <2>4. Numbered(enc'[d], taken[d])
    BY <2>1, <2>2, <2>3, Zenon DEF Numbered
  <2>5. \A j, f \in Nat : HasIn(enc'[d], taken[d], j, f) => HasIn(enc[d], taken[d], j, f)
    BY <2>1, Zenon DEF HasIn
  <2> QED BY <2>2, <2>4, <2>5
<1>4. \A d, c \in Eyes : ~enc'[d].there =>
         enc'[c].made = 0 /\ enc'[c].inside = <<>> /\ enc'[c].queue = <<>>
  BY <1>1 DEF Sound, Counting
<1>5. stats'.submitted >= stats.submitted /\ stats'.pending = stats.pending + 0
  BY <1>2, StatsAre DEF Sound
<1>6. Counting' /\ Agreeing' /\ Ordered'
  BY <1>1, <1>2, <1>3, <1>4, <1>5, SteadyKeeps
<1>7. Delayed'
  BY <1>1, <1>2, <1>3, <1>5, DelayKeeps
<1> QED BY <1>6, <1>7 DEF Sound

LEMMA TakeSound ==
  ASSUME Sound, TypeOK', NEW e \in Eyes,
         NEW from \in {"takeLeft", "takeRight"}, NEW to \in {"takeRight", "pair"},
         Take(e, from, to)
  PROVE  Sound'
<1>1. enc \in [Eyes -> Encoders] /\ enc[e] \in Encoders /\ taken \in [Eyes -> Units]
  BY DEF Sound, TypeOK
<1>2. /\ pc = from /\ pc' = to /\ payload' = payload /\ lag' = lag /\ raised' = raised
      /\ stats' = stats
  BY DEF Take, Goto
<1>3. stats'.submitted >= stats.submitted /\ stats'.pending = stats.pending + 0
  BY <1>2, StatsAre DEF Sound
<1>4. CASE UNCHANGED <<taken, enc>>
  BY <1>2, <1>3, <1>4, Idle
<1>5. CASE /\ taken[e] = Nothing /\ enc[e].queue # <<>>
           /\ taken' = [taken EXCEPT ![e] = Head(enc[e].queue)]
           /\ enc' = [enc EXCEPT ![e].queue = Tail(@)]
  <2>1. /\ enc'[e].made = enc[e].made /\ enc'[e].inside = enc[e].inside
        /\ enc'[e].queue = Tail(enc[e].queue) /\ taken'[e] = Head(enc[e].queue)
        /\ \A d \in Eyes : enc'[d].there = enc[d].there /\ enc'[d].alive = enc[d].alive
        /\ \A d \in Eyes \ {e} : enc'[d] = enc[d] /\ taken'[d] = taken[d]
    BY <1>1, <1>5 DEF Encoders
  <2>2. Head(enc[e].queue) # Nothing
    <3>1. /\ Len(enc[e].queue) \in Nat \ {0} /\ Head(enc[e].queue) = enc[e].queue[1]
          /\ enc[e].queue[1] \in Units
      BY <1>1, <1>5 DEF Encoders
    <3>2. 1 \in 1..Len(enc[e].queue)
      BY <3>1
    <3>3. enc[e].queue[1].index \in Nat /\ enc[e].queue[1].frame \in Nat
      BY <3>1 DEF Units
    <3>4. Has(e, enc[e].queue[1].index, enc[e].queue[1].frame)
      BY <3>2 DEF Has, HasIn
    <3>5. payload["left"].frame < enc[e].queue[1].frame
      BY <3>3, <3>4 DEF Sound, Ordered
    <3>6. enc[e].queue[1].frame # 0
      BY <3>3, <3>5, StatsAre DEF Sound
    <3> QED BY <3>1, <3>6 DEF Nothing
  <2>3. Numbered(enc[e], Nothing) /\ taken[e] = Nothing
    BY <1>5 DEF Sound, Counting
  <2>4. /\ Numbered(enc'[e], taken'[e])
        /\ BaseOf(enc'[e], taken'[e]) = BaseOf(enc[e], Nothing)
        /\ TopOf(enc'[e]) = TopOf(enc[e])
        /\ \A j, f \in Nat : HasIn(enc'[e], taken'[e], j, f) => HasIn(enc[e], Nothing, j, f)
    <3>1. taken'[e] = Head(enc[e].queue) /\ taken'[e] # Nothing /\ enc[e].queue # <<>>
      BY <1>5, <2>1, <2>2
    <3>2. /\ enc'[e].made = enc[e].made /\ enc'[e].inside = enc[e].inside
          /\ enc'[e].queue = Tail(enc[e].queue)
      BY <2>1
    <3> HIDE <1>5
    <3> QED BY <1>1, <2>3, <3>1, <3>2, OneTaken
  <2>5. Steady
    BY <2>1, <2>3, <2>4, SteadyOne DEF Sound, Base, Top, Has
  <2>6. \A d, c \in Eyes : ~enc'[d].there =>
           enc'[c].made = 0 /\ enc'[c].inside = <<>> /\ enc'[c].queue = <<>>
    BY <1>5, <2>1 DEF Sound, Counting
  <2>7. Counting' /\ Agreeing' /\ Ordered'
    BY <1>2, <1>3, <2>1, <2>5, <2>6, SteadyKeeps
  <2>8. Delayed'
    BY <1>2, <1>3, <2>1, <2>5, DelayKeeps
  <2> QED BY <2>7, <2>8 DEF Sound
<1> QED BY <1>4, <1>5 DEF Take

(* what encode() does to the numbers *)
Gained(e) ==
  /\ \A d \in Eyes : /\ Numbered(enc'[d], taken'[d]) /\ enc'[d].there
                     /\ enc'[d].alive = enc[d].alive
                     /\ BaseOf(enc'[d], taken'[d]) = Base(d)
  /\ TopOf(enc'[e]) = Top(e) + 1
  /\ \A j, f \in Nat : HasIn(enc'[e], taken'[e], j, f)
                       => Has(e, j, f) \/ (j = Top(e) /\ f = stats.submitted)
  /\ \A d \in Eyes \ {e} :
       /\ TopOf(enc'[d]) = Top(d)
       /\ \A j, f \in Nat : HasIn(enc'[d], taken'[d], j, f) => Has(d, j, f)
  /\ UNCHANGED <<stats, payload, lag, raised>>

LEMMA EncodeGains ==
  ASSUME Sound, NEW e \in Eyes, pc = e, NEW to, Encode(e, to), enc[e].alive
  PROVE  Gained(e) /\ pc' = to
<1>1. enc \in [Eyes -> Encoders] /\ enc[e] \in Encoders /\ taken \in [Eyes -> Units]
      /\ stats.submitted \in Nat
  BY StatsAre DEF Sound, TypeOK
<1>2. \A d \in Eyes : enc[d].there
  BY EyesAre DEF Sound, TypeOK, Eyes
<1>3. /\ enc'[e].made = enc[e].made /\ enc'[e].queue = enc[e].queue
      /\ enc'[e].inside = Append(enc[e].inside, stats.submitted)
      /\ \A d \in Eyes : enc'[d].there = enc[d].there /\ enc'[d].alive = enc[d].alive
      /\ \A d \in Eyes \ {e} : enc'[d] = enc[d]
  BY <1>1 DEF Encode, Encoders
<1>4. UNCHANGED <<taken, stats, payload, lag, raised>> /\ pc' = to
  BY DEF Encode
<1>5. /\ Numbered(enc'[e], taken[e]) /\ BaseOf(enc'[e], taken[e]) = BaseOf(enc[e], taken[e])
      /\ TopOf(enc'[e]) = TopOf(enc[e]) + 1
      /\ \A j, f \in Nat : HasIn(enc'[e], taken[e], j, f)
           => HasIn(enc[e], taken[e], j, f) \/ (j = TopOf(enc[e]) /\ f = stats.submitted)
  <2>1. Numbered(enc[e], taken[e])
    BY DEF Sound, Counting
  <2> QED BY <1>1, <1>3, <2>1, OneMoreInside
<1> QED BY <1>2, <1>3, <1>4, <1>5 DEF Gained, Sound, Counting, Base, Top, Has

LEMMA InRange ==
  ASSUME Sound, NEW e \in Eyes
  PROVE  /\ Base(e) \in Nat /\ Top(e) \in Nat
         /\ \A j, f \in Nat : Has(e, j, f) => Base(e) <= j /\ j < Top(e)
<1>1. enc[e] \in Encoders /\ taken[e] \in Units /\ Numbered(enc[e], taken[e])
  BY DEF Sound, TypeOK, Counting
<1> QED BY <1>1, Between DEF Base, Top, Has

LEMMA EncodeSound ==
  ASSUME Sound, TypeOK', EncodeLeft \/ EncodeRight
  PROVE  Sound'
<1> DEFINE e == pc
           c == IF e = "left" THEN "right" ELSE "left"
<1>1. e \in Eyes /\ c \in Eyes /\ e # c /\ Eyes = {e, c}
      /\ Encode(e, IF e = "left" THEN "right" ELSE "takeLeft")
  BY DEF EncodeLeft, EncodeRight, Encode, Eyes
<1>2. CASE ~enc[e].alive
  <2>1. Raise /\ UNCHANGED <<enc, taken, closes, payload, lag>>
    BY <1>1, <1>2 DEF Encode
  <2> QED BY <1>2, <2>1, RaiseSound
<1>3. CASE enc[e].alive
  <2>1. Gained(e) /\ pc' = IF e = "left" THEN "right" ELSE "takeLeft"
    BY <1>1, <1>3, EncodeGains
  <2>2. /\ stats.submitted \in Nat /\ stats.pending \in Nat /\ lag \in Nat
        /\ raised \in BOOLEAN
        /\ \A d \in Eyes : Base(d) \in Nat /\ Top(d) \in Nat
        /\ \A d \in Eyes : \A j, f \in Nat : Has(d, j, f) => j < Top(d)
    BY InRange, StatsAre DEF Sound, TypeOK
  <2>3. e = "right" => Top("left") = Top("right") + 1
    BY <1>3 DEF Sound, Counting
  <2>4. Top("right") <= Top("left")
    BY DEF Sound, Counting
  <2>5. Counting'
    <3>1. CASE e = "left"
      BY <2>1, <2>2, <2>4, <3>1, EyesAre DEF Sound, Counting, Gained, Base, Top
    <3>2. CASE e = "right"
      BY <1>1, <2>1, <2>2, <2>3, <3>2, EyesAre DEF Sound, Counting, Gained, Base, Top
    <3> QED BY <1>1, <3>1, <3>2 DEF Eyes
  <2>6. ASSUME NEW j \in Nat, NEW f \in Nat, NEW g \in Nat,
               HasIn(enc'["left"], taken'["left"], j, f),
               HasIn(enc'["right"], taken'["right"], j, g)
        PROVE  f = g
    <3>1. CASE e = "left"
      <4>1. Has("right", j, g) /\ j < Top("right")
        BY <2>1, <2>2, <2>6, <3>1, EyesAre DEF Gained
      <4>2. Has("left", j, f)
        BY <2>1, <2>2, <2>4, <2>6, <3>1, <4>1, EyesAre DEF Gained
      <4> QED BY <4>1, <4>2 DEF Sound, Agreeing
    <3>2. CASE e = "right"
      <4>1. Has("left", j, f)
        BY <2>1, <2>6, <3>2, EyesAre DEF Gained
      <4>2. Has("right", j, g) \/ (j = Top("right") /\ g = stats.submitted)
        BY <2>1, <2>6, <3>2, EyesAre DEF Gained
      <4>3. CASE Has("right", j, g)
        BY <4>1, <4>3 DEF Sound, Agreeing
      <4>4. CASE j = Top("right") /\ g = stats.submitted
        BY <2>3, <3>2, <4>1, <4>4 DEF Sound, Agreeing
      <4> QED BY <4>2, <4>3, <4>4
    <3> QED BY <1>1, <3>1, <3>2 DEF Eyes
  <2>7. ASSUME pc' = "right", NEW j \in Nat, NEW f \in Nat,
               j + 1 = TopOf(enc'["left"]), HasIn(enc'["left"], taken'["left"], j, f)
        PROVE  f = stats'.submitted
    <3>1. e = "left"
      BY <1>1, <2>1, <2>7
    <3>2. j = Top("left") /\ ~Has("left", j, f)
      BY <2>1, <2>2, <2>7, <3>1, EyesAre DEF Gained
    <3> QED BY <2>1, <2>7, <3>1, <3>2 DEF Gained
  <2>8. Agreeing'
    BY <2>6, <2>7 DEF Agreeing, Has, Top
  <2>9. ASSUME NEW d \in Eyes, NEW i \in Nat, NEW j \in Nat, NEW f \in Nat, NEW g \in Nat,
               HasIn(enc'[d], taken'[d], i, f), HasIn(enc'[d], taken'[d], j, g), i < j
        PROVE  f < g
    <3>1. CASE d # e
      BY <2>1, <2>9, <3>1 DEF Gained, Sound, Ordered
    <3>2. CASE d = e
      <4>1. Has(e, i, f) \/ (i = Top(e) /\ f = stats.submitted)
        BY <2>1, <2>9, <3>2 DEF Gained
      <4>2. Has(e, j, g) \/ (j = Top(e) /\ g = stats.submitted)
        BY <2>1, <2>9, <3>2 DEF Gained
      <4>3. j <= Top(e) /\ i < Top(e)
        BY <1>1, <2>2, <2>9, <4>2
      <4>4. Has(e, i, f)
        BY <1>1, <2>2, <4>1, <4>3
      <4>5. CASE Has(e, j, g)
        BY <1>1, <2>9, <4>4, <4>5 DEF Sound, Ordered
      <4>6. CASE g = stats.submitted
        BY <1>1, <4>4, <4>6 DEF Sound, Ordered, Eyes
      <4> QED BY <4>2, <4>5, <4>6
    <3> QED BY <3>1, <3>2
  <2>10. payload["left"].frame < stats.submitted /\ payload["left"].frame \in Nat
    BY <1>1, StatsAre DEF Sound, Ordered, Eyes
  <2>11. ASSUME NEW d \in Eyes, NEW j \in Nat, NEW f \in Nat, HasIn(enc'[d], taken'[d], j, f)
         PROVE  /\ payload'["left"].frame < f /\ f <= stats'.submitted
                /\ pc' \in {"ensure", "left"} \/ (pc' = "right" /\ d = "right")
                     => f < stats'.submitted
    <3>1. payload' = payload /\ stats' = stats
      BY <2>1 DEF Gained
    <3>2. CASE Has(d, j, f)
      <4>1. /\ payload["left"].frame < f /\ f <= stats.submitted
            /\ pc = "left" => f < stats.submitted
        BY <3>2 DEF Sound, Ordered
      <4> QED BY <1>1, <2>1, <3>1, <4>1
    <3>3. CASE d = e /\ f = stats.submitted
      BY <1>1, <2>1, <2>2, <2>10, <3>1, <3>3
    <3> QED BY <2>1, <2>11, <3>2, <3>3 DEF Gained
  <2>12. Ordered'
    BY <1>1, <2>1, <2>2, <2>9, <2>10, <2>11 DEF Gained, Sound, Ordered, Has
  <2>13. Delayed'
    <3>1. SUFFICES ASSUME ~raised', NEW d \in Eyes
                   PROVE  TopOf(enc'[d]) - BaseOf(enc'[d], taken'[d]) =
                            stats'.pending - lag'
                              + (IF \/ pc' \in {"takeLeft", "takeRight", "pair"}
                                    \/ (pc' = "right" /\ d = "left") THEN 1 ELSE 0)
      BY DEF Delayed, Top, Base
    <3>2. /\ \A b \in Eyes : enc[b].there
          /\ stats' = stats /\ lag' = lag /\ raised' = raised
      BY <1>1, <2>1 DEF Gained, Sound, TypeOK, Eyes
    <3>3. \A b \in Eyes : Top(b) - Base(b) = stats.pending - lag
            + (IF pc \in {"takeLeft", "takeRight", "pair"} \/ (pc = "right" /\ b = "left")
                 THEN 1 ELSE 0)
      BY <3>1, <3>2 DEF Sound, Delayed
    <3>4. /\ BaseOf(enc'[d], taken'[d]) = Base(d)
          /\ TopOf(enc'[d]) = Top(d) + (IF d = e THEN 1 ELSE 0)
      BY <2>1, <2>2 DEF Gained
    <3>5. CASE e = "left"
      BY <2>1, <2>2, <3>2, <3>3, <3>4, <3>5, EyesAre DEF Eyes
    <3>6. CASE e = "right"
      BY <2>1, <2>2, <3>2, <3>3, <3>4, <3>6, EyesAre DEF Eyes
    <3> QED BY <1>1, <3>5, <3>6 DEF Eyes
  <2> QED BY <2>5, <2>8, <2>12, <2>13 DEF Sound
<1> QED BY <1>2, <1>3

(* the pair both eyes have under the lowest number *)
LEMMA PairSound ==
  ASSUME Sound, TypeOK', PairComplete
  PROVE  /\ Sound' /\ payload'["left"].frame > payload["left"].frame
<1>1. /\ pc = "pair" /\ pc' = "send" /\ payload' = taken
      /\ UNCHANGED <<enc, stats, lag, raised>>
      /\ \A e \in Eyes : taken[e] # Nothing /\ taken'[e] = Nothing
      /\ \A e \in Eyes : enc[e] \in Encoders /\ taken[e] \in Units /\ Numbered(enc[e], taken[e])
  BY DEF PairComplete, Complete, Goto, Both, Sound, TypeOK, Counting
<1>2. ASSUME NEW e \in Eyes
      PROVE  /\ Numbered(enc'[e], taken'[e])
             /\ BaseOf(enc'[e], taken'[e]) = Base(e) + 1 /\ TopOf(enc'[e]) = Top(e)
             /\ Base(e) = taken[e].index /\ Has(e, taken[e].index, taken[e].frame)
             /\ \A j, f \in Nat : HasIn(enc'[e], taken'[e], j, f) => Has(e, j, f)
  BY <1>1, OneSent DEF Base, Top, Has
<1>3. /\ \A e \in Eyes : taken[e].index \in Nat /\ taken[e].frame \in Nat
      /\ \A e \in Eyes : Base(e) \in Nat
      /\ stats.submitted \in Nat /\ payload["left"].frame \in Nat
  BY <1>1, StatsAre, InRange DEF Units, Sound
<1>4. taken["left"].index = taken["right"].index /\ taken["left"].frame = taken["right"].frame
  <2>1. taken["left"].index = taken["right"].index
    BY <1>2, EyesAre DEF Sound, Counting
  <2> QED BY <1>2, <1>3, <2>1, EyesAre DEF Sound, Agreeing
<1>5. taken["left"] = taken["right"]
  BY <1>1, <1>4, EyesAre DEF Units
<1>6. /\ payload["left"].frame < taken["left"].frame
      /\ taken["left"].frame <= stats.submitted
  BY <1>2, <1>3, EyesAre DEF Sound, Ordered
<1>7. Counting'
  <2>1. \A d, e \in Eyes : ~enc'[d].there =>
           enc'[e].made = 0 /\ enc'[e].inside = <<>> /\ enc'[e].queue = <<>>
    BY <1>1 DEF Sound, Counting
  <2>2. BaseOf(enc'["left"], taken'["left"]) = BaseOf(enc'["right"], taken'["right"])
    BY <1>2, EyesAre DEF Sound, Counting
  <2>3. TopOf(enc'["right"]) <= TopOf(enc'["left"])
    BY <1>2, EyesAre DEF Sound, Counting
  <2>4. enc'["right"].alive => TopOf(enc'["left"]) = TopOf(enc'["right"])
    BY <1>1, <1>2, InRange, EyesAre DEF Sound, Counting
  <2>5. pc' # "right" /\ \A n \in Nat : n + 0 = n
    BY <1>1
  <2>6. TopOf(enc'["right"]) \in Nat
    BY <1>2, InRange, EyesAre
  <2> QED BY <1>2, <2>1, <2>2, <2>3, <2>4, <2>5, <2>6, EyesAre DEF Counting, Base, Top
<1>8. Agreeing'
  BY <1>1, <1>2, EyesAre DEF Sound, Agreeing, Has
<1>9. Ordered'
  <2>1. ASSUME NEW e \in Eyes, NEW j \in Nat, NEW f \in Nat, HasIn(enc'[e], taken'[e], j, f)
        PROVE  taken["left"].frame < f /\ f <= stats.submitted
    <3>1. Has(e, j, f)
      BY <1>2, <2>1
    <3>2. BaseOf(enc'[e], taken'[e]) <= j
      <4>1. enc'[e] \in Encoders /\ taken'[e] \in Units
        BY DEF TypeOK
      <4> QED BY <1>2, <2>1, <4>1, Between
    <3>3. taken[e].index < j
      BY <1>2, <1>3, <3>2
    <3>4. taken[e].frame < f
      BY <1>2, <1>3, <3>1, <3>3 DEF Sound, Ordered
    <3> QED BY <1>4, <3>1, <3>4 DEF Sound, Ordered, Eyes
  <2>2. ASSUME NEW e \in Eyes, NEW i \in Nat, NEW j \in Nat, NEW f \in Nat, NEW g \in Nat,
               HasIn(enc'[e], taken'[e], i, f), HasIn(enc'[e], taken'[e], j, g), i < j
        PROVE  f < g
    BY <1>2, <2>2 DEF Sound, Ordered
  <2> QED BY <1>1, <1>5, <1>6, <2>1, <2>2 DEF Ordered, Has
<1>10. Delayed'
  <2>1. SUFFICES ASSUME ~raised', NEW e \in Eyes
                 PROVE  TopOf(enc'[e]) - BaseOf(enc'[e], taken'[e]) = stats'.pending - lag' + 0
    BY <1>1 DEF Delayed, Top, Base
  <2>2. enc[e].there
    BY <1>1 DEF Sound, TypeOK
  <2>3. Top(e) - Base(e) = stats.pending - lag + 1
    BY <1>1, <2>1, <2>2 DEF Sound, Delayed
  <2>4. stats.pending \in Nat /\ lag \in Nat /\ Top(e) \in Nat /\ Base(e) \in Nat
    BY StatsAre, InRange DEF Sound, TypeOK
  <2> QED BY <1>1, <1>2, <2>3, <2>4
<1> QED BY <1>1, <1>3, <1>6, <1>7, <1>8, <1>9, <1>10 DEF Sound

LEMMA NextSound == ASSUME Sound, [Next]_vars PROVE Sound'
<1>1. TypeOK'
  BY NextType DEF Sound
<1> QED BY <1>1, SubmitSound, EnsureSound, EncodeSound, TakeSound, MissingSound, PairSound,
           SendFrameSound, CloseSound, EmitSound, ExitsSound, StutterSound, EyesAre
        DEF Next, Send, TakeLeft, TakeRight

LEMMA AlwaysSound == Spec => []Sound
BY InitSound, NextSound, PTL DEF Spec

(* The halves of a packet are the same frame, for any number of calls and   *)
(* closes and any delays (video.py 463-480).                               *)
THEOREM StreamerPairsMatch == Spec => []PairsMatch
<1>1. Sound => PairsMatch
  BY DEF Sound, Ordered, PairsMatch
<1> QED BY <1>1, AlwaysSound, PTL

(* Packets go out in the order of the calls, new encoders included          *)
(* (video.py 434-442, 472-480).                                            *)
THEOREM StreamerPairsInOrder == Spec => PairsInOrder
<1>1. ASSUME Sound, [Next]_vars
      PROVE  [pc = "pair" /\ pc' = "send"
                => payload'["left"].frame > payload["left"].frame]_vars
  <2>1. SUFFICES ASSUME pc = "pair", pc' = "send", Next
                 PROVE  payload'["left"].frame > payload["left"].frame
    BY <1>1
  <2>2. PairComplete
    BY <2>1 DEF Next, Send, Submit, EnsureEncoders, EncodeLeft, EncodeRight, Encode, TakeLeft,
                TakeRight, Take, Goto, PairMissing, SendFrame, Close, Emit, FfmpegExits
  <2> QED BY <1>1, <2>2, NextType, PairSound DEF Sound
<1> QED BY <1>1, AlwaysSound, PTL DEF Spec, PairsInOrder

(* encode_pending is the delay of the video (video.py 463-482).             *)
THEOREM StreamerLagCounted == Spec => []LagCounted
<1>1. ASSUME Sound, pc = "idle", ~raised, NEW e \in Eyes, enc[e].there
      PROVE  UnderWay(e) = stats.pending - lag
  <2>1. stats.pending \in Nat /\ lag \in Nat
    BY <1>1, StatsAre DEF Sound, TypeOK
  <2>2. Top(e) - Base(e) = stats.pending - lag + 0
    BY <1>1 DEF Sound, Delayed
  <2>3. /\ enc[e].made \in Nat /\ Len(enc[e].inside) \in Nat /\ Len(enc[e].queue) \in Nat
    BY <1>1 DEF Sound, TypeOK, Encoders
  <2>4. Top(e) - Base(e) = UnderWay(e)
    <3>1. \A m, a, b \in Nat : /\ (m + a) - (m - b - 0) = a + b + 0
                               /\ (m + a) - (m - b - 1) = a + b + 1
      OBVIOUS
    <3>2. CASE taken[e] = Nothing
      BY <2>3, <3>1, <3>2, Zenon DEF Top, Base, TopOf, BaseOf, UnderWay
    <3>3. CASE taken[e] # Nothing
      BY <2>3, <3>1, <3>3, Zenon DEF Top, Base, TopOf, BaseOf, UnderWay
    <3> QED BY <3>2, <3>3
  <2> QED BY <2>1, <2>2, <2>4
<1>2. Sound => LagCounted
  BY <1>1 DEF LagCounted
<1> QED BY <1>2, AlwaysSound, PTL

-----------------------------------------------------------------------------
(* Functions that are computed step by step; a set of numbers has a least  *)
(* one.                                                                    *)
Less == {q \in Nat \X Nat : q[1] < q[2]}

LEMMA Least ==
  ASSUME NEW T, T \subseteq Nat, T # {}
  PROVE  \E m \in T : \A y \in T : y >= m
<1>1. Less = OpToRel(<, Nat)
  BY DEF Less, OpToRel
<1>2. IsWellFoundedOn(Less, Nat)
  BY <1>1, NatLessThanWellFounded
<1>3. PICK m \in T : \A y \in T : ~(<<y, m>> \in Less)
  BY <1>2, WFMin
<1>4. ASSUME NEW y \in T PROVE y >= m
  <2>1. ~(<<y, m>> \in Less) /\ y \in Nat /\ m \in Nat
    BY <1>3
  <2> QED BY <2>1 DEF Less
<1> QED BY <1>4

(* g is x and then, for n steps, step[k] of its value before. *)
Runs(g, n, x, step) ==
  g[0] = x /\ \A k \in 1..n : g[k] = step[k][g[k - 1]]

LEMMA RunExists ==
  ASSUME NEW n \in Nat, NEW S, NEW x \in S, NEW step \in [1..n -> [S -> S]]
  PROVE  \E g \in [0..n -> S] : Runs(g, n, x, step)
<1> DEFINE T == {k \in 0..n : ~ \E g \in [0..k -> S] : Runs(g, k, x, step)}
<1>1. ASSUME T # {} PROVE FALSE
  <2>1. PICK k \in T : \A y \in T : y >= k
    <3>1. T \subseteq Nat
      OBVIOUS
    <3> QED BY <1>1, <3>1, Least
  <2>2. k # 0
    <3>1. ASSUME k = 0 PROVE FALSE
      <4>1. [i \in 0..0 |-> x] \in [0..0 -> S] /\ Runs([i \in 0..0 |-> x], 0, x, step)
        BY DEF Runs
      <4> QED BY <3>1, <4>1
    <3> QED BY <3>1
  <2>3. k - 1 \in 0..n /\ k - 1 \notin T /\ k \in 1..n
    <3>1. k \in 0..n /\ ~(k - 1 >= k)
      OBVIOUS
    <3>2. k - 1 \in 0..n
      BY <2>2, <3>1
    <3> QED BY <2>1, <2>2, <3>1, <3>2
  <2>4. PICK g \in [0..k - 1 -> S] : Runs(g, k - 1, x, step)
    BY <2>3
  <2> DEFINE t == [i \in 0..k |-> IF i = k THEN step[k][g[k - 1]] ELSE g[i]]
  <2>5. g[k - 1] \in S /\ step[k] \in [S -> S]
    BY <2>3
  <2>6. t \in [0..k -> S]
    BY <2>3, <2>5
  <2>7. \A i \in 0..k - 1 : t[i] = g[i]
    BY <2>3
  <2>8. t[k] = step[k][g[k - 1]]
    BY <2>3
  <2> HIDE DEF t
  <2>9. t[0] = x
    BY <2>3, <2>4, <2>7 DEF Runs
  <2>10. ASSUME NEW i \in 1..k PROVE t[i] = step[i][t[i - 1]]
    <3>1. CASE i = k
      BY <2>3, <2>7, <2>8, <3>1
    <3>2. CASE i # k
      <4>1. i \in 1..k - 1 /\ i \in 0..k - 1 /\ i - 1 \in 0..k - 1
        BY <2>3, <3>2
      <4> QED BY <2>4, <2>7, <4>1 DEF Runs
    <3> QED BY <3>1, <3>2
  <2>11. Runs(t, k, x, step)
    BY <2>9, <2>10 DEF Runs
  <2> QED BY <2>6, <2>11
<1> QED BY <1>1

LEMMA RunUnique ==
  ASSUME NEW n \in Nat, NEW x, NEW step, NEW g, NEW h,
         Runs(g, n, x, step), Runs(h, n, x, step)
  PROVE  \A k \in 0..n : g[k] = h[k]
<1> DEFINE T == {k \in 0..n : g[k] # h[k]}
<1>1. ASSUME T # {} PROVE FALSE
  <2>1. PICK k \in T : \A y \in T : y >= k
    <3>1. T \subseteq Nat
      OBVIOUS
    <3> QED BY <1>1, <3>1, Least
  <2>2. k \in 0..n /\ g[k] # h[k] /\ k # 0
    BY DEF Runs
  <2>3. k - 1 \in 0..n /\ k \in 1..n
    BY <2>2
  <2>4. g[k - 1] = h[k - 1]
    <3>1. ~(k - 1 >= k)
      BY <2>2
    <3> QED BY <2>1, <2>3, <3>1
  <2>5. g[k] = step[k][g[k - 1]] /\ h[k] = step[k][h[k - 1]]
    BY <2>3 DEF Runs
  <2> QED BY <2>2, <2>4, <2>5
<1> QED BY <1>1

(* A function that takes these steps as long as its values are in S stays in S. *)
RunsIn(h, n, S, x, step) ==
  h[0] = x /\ \A k \in 1..n : h[k - 1] \in S => h[k] = step[k][h[k - 1]]

LEMMA RunStays ==
  ASSUME NEW n \in Nat, NEW S, NEW x \in S, NEW step \in [1..n -> [S -> S]],
         NEW h, RunsIn(h, n, S, x, step)
  PROVE  Runs(h, n, x, step) /\ \A k \in 0..n : h[k] \in S
<1> DEFINE T == {k \in 0..n : h[k] \notin S}
<1>1. ASSUME T # {} PROVE FALSE
  <2>1. PICK k \in T : \A y \in T : y >= k
    <3>1. T \subseteq Nat
      OBVIOUS
    <3> QED BY <1>1, <3>1, Least
  <2>2. k \in 0..n /\ h[k] \notin S /\ k # 0
    BY DEF RunsIn
  <2>3. k - 1 \in 0..n /\ k \in 1..n /\ ~(k - 1 >= k)
    BY <2>2
  <2>4. h[k - 1] \in S
    BY <2>1, <2>3
  <2>5. h[k] = step[k][h[k - 1]] /\ step[k] \in [S -> S]
    BY <2>3, <2>4 DEF RunsIn
  <2> QED BY <2>2, <2>4, <2>5
<1>2. \A k \in 0..n : h[k] \in S
  BY <1>1
<1>3. ASSUME NEW k \in 1..n PROVE h[k] = step[k][h[k - 1]]
  <2>1. k - 1 \in 0..n
    OBVIOUS
  <2> QED BY <1>2, <2>1 DEF RunsIn
<1> QED BY <1>2, <1>3 DEF Runs, RunsIn

LEMMA UpFrom ==
  ASSUME NEW m \in Nat, NEW n \in Nat, NEW T, m \in T,
         \A k \in m..n - 1 : k \in T => k + 1 \in T
  PROVE  \A k \in m..n : k \in T
<1> DEFINE U == {k \in m..n : k \notin T}
<1>1. ASSUME U # {} PROVE FALSE
  <2>1. PICK k \in U : \A y \in U : y >= k
    <3>1. U \subseteq Nat
      OBVIOUS
    <3> QED BY <1>1, <3>1, Least
  <2>2. k \in m..n /\ k \notin T /\ k # m
    OBVIOUS
  <2>3. k - 1 \in m..n /\ k - 1 \in m..n - 1 /\ ~(k - 1 >= k) /\ (k - 1) + 1 = k
    BY <2>2
  <2>4. k - 1 \in T
    BY <2>1, <2>3
  <2> QED BY <2>2, <2>3, <2>4
<1> QED BY <1>1

-----------------------------------------------------------------------------
(* PiecesTo satisfies its equation. *)
UpTo(f, n, parts, cuts) ==
  f = [k \in 0..n |->
         IF k = 0 THEN <<>> ELSE NextPiece(f[k - 1], parts, cuts, k)]

LEMMA PiecesToIs ==
  ASSUME NEW n, NEW parts, NEW cuts
  PROVE  PiecesTo(n, parts, cuts) = (CHOOSE f : UpTo(f, n, parts, cuts))[n]
BY DEF PiecesTo, UpTo

PieceSteps(n, parts, cuts, A) ==
  [k \in 1..n |-> [p \in Seq(Seq(A)) |-> NextPiece(p, parts, cuts, k)]]

(* The first n parts are sequences over A. *)
AreParts(n, parts, A) == \A k \in 1..n : parts[k] \in Seq(A)

LEMMA NextPieceType ==
  ASSUME NEW A, NEW p \in Seq(Seq(A)), NEW parts, NEW cuts, NEW k, parts[k] \in Seq(A)
  PROVE  NextPiece(p, parts, cuts, k) \in Seq(Seq(A))
<1> DEFINE S == Seq(A)
           x == parts[k]
<1>1. \A a \in S, b \in S : a \o b \in S
  BY ConcatProperties
<1> HIDE DEF S
<1>2. p \in Seq(S) /\ x \in S
  BY DEF S
<1> HIDE DEF x
<1>3. Append(p, x) \in Seq(S) /\ <<>> \in Seq(S)
  BY <1>2
<1>4. ASSUME p # <<>> PROVE [p EXCEPT ![Len(p)] = @ \o x] \in Seq(S)
  <2>1. Len(p) \in 1..Len(p)
    BY <1>2, <1>4
  <2>2. p[Len(p)] \o x \in S
    BY <1>1, <1>2, <2>1
  <2> QED BY <1>2, <2>1, <2>2, ExceptSeq
<1> QED BY <1>3, <1>4 DEF NextPiece, S, x

PiecesOf(g, n, parts, cuts, A) ==
  /\ g \in [0..n -> Seq(Seq(A))]
  /\ Runs(g, n, <<>>, PieceSteps(n, parts, cuts, A))
  /\ PiecesTo(n, parts, cuts) = g[n]

LEMMA PiecesRun ==
  ASSUME NEW A, NEW n \in Nat, NEW parts, NEW cuts, AreParts(n, parts, A)
  PROVE  \E g : PiecesOf(g, n, parts, cuts, A)
<1> DEFINE S == Seq(Seq(A))
           step == PieceSteps(n, parts, cuts, A)
<1>1. <<>> \in S
  OBVIOUS
<1>2. step \in [1..n -> [S -> S]]
  BY NextPieceType DEF PieceSteps, AreParts
<1> HIDE DEF S
<1>3. PICK g \in [0..n -> S] : Runs(g, n, <<>>, step)
  BY <1>1, <1>2, RunExists
<1>4. \A k \in 1..n : g[k] = NextPiece(g[k - 1], parts, cuts, k)
  <2> TAKE k \in 1..n
  <2>1. k - 1 \in 0..n /\ g[k - 1] \in S
    BY <1>3
  <2> QED BY <1>3, <2>1 DEF Runs, PieceSteps, S
<1>5. UpTo(g, n, parts, cuts)
  <2>1. g = [k \in 0..n |-> g[k]]
    BY <1>3
  <2>2. \A k \in 0..n : g[k] = IF k = 0 THEN <<>>
                               ELSE NextPiece(g[k - 1], parts, cuts, k)
    BY <1>3, <1>4 DEF Runs
  <2> QED BY <2>1, <2>2, Zenon DEF UpTo
<1>6. PICK h : h = (CHOOSE f : UpTo(f, n, parts, cuts)) /\ UpTo(h, n, parts, cuts)
  BY <1>5, Zenon
<1>7. h \in [0..n -> S] /\ Runs(h, n, <<>>, step)
  <2>1. h[0] = <<>> /\ DOMAIN h = 0..n
    <3>1. 0 \in 0..n
      OBVIOUS
    <3>2. DOMAIN h = 0..n
      BY <1>6 DEF UpTo
    <3> QED BY <1>6, <3>1, <3>2 DEF UpTo
  <2>2. ASSUME NEW k \in 1..n, h[k - 1] \in S PROVE h[k] = step[k][h[k - 1]]
    <3>1. k \in 0..n /\ k # 0
      OBVIOUS
    <3>2. h[k] = NextPiece(h[k - 1], parts, cuts, k)
      BY <1>6, <3>1 DEF UpTo
    <3> QED BY <2>2, <3>2 DEF PieceSteps, S
  <2> DEFINE x == <<>>
  <2>3. RunsIn(h, n, S, x, step) /\ x \in S
    BY <1>1, <2>1, <2>2 DEF RunsIn
  <2> HIDE DEF step, x
  <2>4. Runs(h, n, x, step) /\ \A k \in 0..n : h[k] \in S
    BY <1>2, <2>3, RunStays
  <2>5. Runs(h, n, <<>>, step) /\ \A k \in 0..n : h[k] \in S
    BY <2>4 DEF x
  <2>6. h = [k \in 0..n |-> h[k]]
    BY <1>6, <2>1 DEF UpTo
  <2> QED BY <2>5, <2>6
<1> QED BY <1>6, <1>7, PiecesToIs DEF S, PiecesOf

LEMMA PiecesToType ==
  ASSUME NEW A, NEW n \in Nat, NEW parts, NEW cuts, AreParts(n, parts, A)
  PROVE  PiecesTo(n, parts, cuts) \in Seq(Seq(A))
<1>1. PICK g : PiecesOf(g, n, parts, cuts, A)
  BY PiecesRun
<1>2. n \in 0..n
  OBVIOUS
<1> QED BY <1>1, <1>2 DEF PiecesOf

LEMMA PiecesToNothing ==
  ASSUME NEW parts, NEW cuts
  PROVE  PiecesTo(0, parts, cuts) = <<>>
<1>1. PICK g : PiecesOf(g, 0, parts, cuts, {})
  <2>1. AreParts(0, parts, {})
    BY DEF AreParts
  <2> QED BY <2>1, PiecesRun
<1> QED BY <1>1 DEF Runs, PiecesOf

LEMMA PiecesShorter ==
  ASSUME NEW A, NEW n \in Nat, NEW m \in Nat, m = n + 1, NEW parts, NEW cuts, NEW g,
         PiecesOf(g, m, parts, cuts, A)
  PROVE  /\ Runs(g, n, <<>>, PieceSteps(n, parts, cuts, A))
         /\ g[m] = NextPiece(g[n], parts, cuts, m)
<1>0. m \in 1..m /\ m - 1 = n /\ n \in 0..m
  OBVIOUS
<1>1. ASSUME NEW k \in 1..n
      PROVE  g[k] = PieceSteps(n, parts, cuts, A)[k][g[k - 1]]
  <2>1. k \in 1..m /\ k - 1 \in 0..m
    OBVIOUS
  <2>2. g[k] = PieceSteps(m, parts, cuts, A)[k][g[k - 1]] /\ g[k - 1] \in Seq(Seq(A))
    BY <2>1 DEF Runs, PiecesOf
  <2> QED BY <2>1, <2>2 DEF PieceSteps
<1>2. g[m] = PieceSteps(m, parts, cuts, A)[m][g[n]] /\ g[n] \in Seq(Seq(A))
  BY <1>0 DEF Runs, PiecesOf
<1>3. g[m] = NextPiece(g[n], parts, cuts, m)
  BY <1>0, <1>2 DEF PieceSteps
<1> QED BY <1>1, <1>3 DEF Runs, PiecesOf

LEMMA PiecesToNext ==
  ASSUME NEW A, NEW n \in Nat, NEW m \in Nat, m = n + 1, NEW parts, NEW cuts,
         AreParts(m, parts, A)
  PROVE  PiecesTo(m, parts, cuts)
           = NextPiece(PiecesTo(n, parts, cuts), parts, cuts, m)
<1> DEFINE x == <<>>
           step == PieceSteps(n, parts, cuts, A)
<1>1. PICK g : PiecesOf(g, m, parts, cuts, A)
  BY PiecesRun
<1>2. PICK h : PiecesOf(h, n, parts, cuts, A)
  <2>1. AreParts(n, parts, A)
    BY DEF AreParts
  <2> QED BY <2>1, PiecesRun
<1>3. Runs(g, n, x, step) /\ g[m] = NextPiece(g[n], parts, cuts, m)
  BY <1>1, PiecesShorter
<1>4. Runs(h, n, x, step) /\ PiecesTo(n, parts, cuts) = h[n]
  BY <1>2 DEF PiecesOf
<1>5. g[n] = h[n]
  <2> HIDE DEF x, step
  <2>1. \A k \in 0..n : g[k] = h[k]
    BY <1>3, <1>4, RunUnique
  <2>2. n \in 0..n
    OBVIOUS
  <2> QED BY <2>1, <2>2
<1> QED BY <1>1, <1>3, <1>4, <1>5 DEF PiecesOf

(* ... and depends on nothing beyond the first n parts. *)
Agree(n, parts, cuts, others, marks) ==
  \A k \in 1..n : others[k] = parts[k] /\ (k \in cuts <=> k \in marks)

LEMMA PiecesToSame ==
  ASSUME NEW A, NEW n \in Nat, NEW parts, NEW cuts, NEW others, NEW marks,
         AreParts(n, parts, A), Agree(n, parts, cuts, others, marks)
  PROVE  PiecesTo(n, parts, cuts) = PiecesTo(n, others, marks)
<1> DEFINE T == {k \in 0..n : PiecesTo(k, parts, cuts) = PiecesTo(k, others, marks)}
<1>1. 0 \in T
  BY PiecesToNothing
<1>2. ASSUME NEW k \in 0..n - 1, k \in T PROVE k + 1 \in T
  <2>1. k \in Nat /\ k + 1 \in 1..n /\ k + 1 \in 0..n
    OBVIOUS
  <2>2. AreParts(k + 1, parts, A) /\ AreParts(k + 1, others, A)
    <3>1. \A i \in 1..k + 1 : i \in 1..n
      OBVIOUS
    <3> QED BY <3>1 DEF AreParts, Agree
  <2>3. PiecesTo(k + 1, parts, cuts)
          = NextPiece(PiecesTo(k, parts, cuts), parts, cuts, k + 1)
    BY <2>1, <2>2, PiecesToNext
  <2>4. PiecesTo(k + 1, others, marks)
          = NextPiece(PiecesTo(k, others, marks), others, marks, k + 1)
    BY <2>1, <2>2, PiecesToNext
  <2> QED BY <1>2, <2>1, <2>3, <2>4 DEF NextPiece, Agree
<1>3. n \in 0..n
  OBVIOUS
<1> HIDE DEF T
<1>4. n \in T
  BY <1>1, <1>2, <1>3, UpFrom
<1> QED BY <1>4 DEF T

-----------------------------------------------------------------------------
(* Start codes.  SizeTo is the size of the one at i in the first p bytes. *)
Three(data, i) == data[i] = 0 /\ data[i + 1] = 0 /\ data[i + 2] = 1

Four(data, i) ==
  data[i] = 0 /\ data[i + 1] = 0 /\ data[i + 2] = 0 /\ data[i + 3] = 1

SizeTo(data, p, i) ==
  IF Three(data, i) /\ i + 2 <= p THEN 3
  ELSE IF Four(data, i) /\ i + 3 <= p THEN 4 ELSE 0

LEMMA AtIs ==
  ASSUME NEW data \in Seq(Nat), NEW i \in Nat \ {0}
  PROVE  /\ At(<<0, 0, 1>>, data, i) <=> Three(data, i) /\ i + 2 <= Len(data)
         /\ At(<<0, 0, 0, 1>>, data, i) <=> Four(data, i) /\ i + 3 <= Len(data)
<1> DEFINE three == <<0, 0, 1>>
           four == <<0, 0, 0, 1>>
<1>1. Len(three) = 3 /\ three[1] = 0 /\ three[2] = 0 /\ three[3] = 1
  OBVIOUS
<1>2. Len(four) = 4 /\ four[1] = 0 /\ four[2] = 0 /\ four[3] = 0 /\ four[4] = 1
  OBVIOUS
<1> HIDE DEF three, four
<1>3. Len(data) \in Nat
  OBVIOUS
<1>4. At(three, data, i) <=> Three(data, i) /\ i + 2 <= Len(data)
  <2>1. 1..3 = {1, 2, 3} /\ i + 3 - 1 = i + 2 /\ i + 1 - 1 = i /\ i + 2 - 1 = i + 1
    OBVIOUS
  <2> QED BY <1>1, <1>3, <2>1 DEF At, Three
<1>5. At(four, data, i) <=> Four(data, i) /\ i + 3 <= Len(data)
  <2>1. 1..4 = {1, 2, 3, 4} /\ i + 4 - 1 = i + 3 /\ i + 1 - 1 = i /\ i + 2 - 1 = i + 1
        /\ i + 3 - 1 = i + 2
    OBVIOUS
  <2> QED BY <1>2, <1>3, <2>1 DEF At, Four
<1> QED BY <1>4, <1>5 DEF three, four

LEMMA SizeIs ==
  ASSUME NEW data \in Seq(Nat), NEW i \in Nat \ {0}
  PROVE  StartCodeSize(data, i) = SizeTo(data, Len(data), i)
<1>1. ~(Three(data, i) /\ Four(data, i))
  BY DEF Three, Four
<1> QED BY <1>1, AtIs DEF StartCodeSize, SizeTo

LEMMA SliceIs ==
  ASSUME NEW data \in Seq(Nat), NEW p \in 0..Len(data), NEW c \in 1..p + 1
  PROVE  /\ SubSeq(data, c, p) \in Seq(Nat)
         /\ Len(SubSeq(data, c, p)) = p - c + 1
         /\ \A i \in 1..p - c + 1 : SubSeq(data, c, p)[i] = data[c + i - 1]
<1>1. \A i \in c..p : data[i] \in Nat
  OBVIOUS
<1>2. c \in Int /\ p \in Int
  OBVIOUS
<1> QED BY <1>1, <1>2, SubSeqProperties

LEMMA SizeInSlice ==
  ASSUME NEW data \in Seq(Nat), NEW p \in 0..Len(data), NEW c \in 1..p + 1,
         NEW i \in Nat \ {0}
  PROVE  StartCodeSize(SubSeq(data, c, p), i) = SizeTo(data, p, c + i - 1)
<1> DEFINE slice == SubSeq(data, c, p)
           n == Len(slice)
           k == c + i - 1
<1>1. slice \in Seq(Nat) /\ n = p - c + 1 /\ n \in Nat /\ p \in Nat /\ c \in Nat
      /\ \A j \in 1..n : slice[j] = data[c + j - 1]
  BY SliceIs
<1>2. StartCodeSize(slice, i) = SizeTo(slice, n, i)
  BY <1>1, SizeIs
<1>3. (i + 2 <= n <=> k + 2 <= p) /\ (i + 3 <= n <=> k + 3 <= p)
  BY <1>1
<1> HIDE DEF slice, n
<1>4. ASSUME i + 2 <= n PROVE Three(slice, i) <=> Three(data, k)
  <2>1. i \in 1..n /\ i + 1 \in 1..n /\ i + 2 \in 1..n
    BY <1>1, <1>4
  <2>2. c + i - 1 = k /\ c + (i + 1) - 1 = k + 1 /\ c + (i + 2) - 1 = k + 2
    BY <1>1
  <2> HIDE DEF k
  <2> QED BY <1>1, <2>1, <2>2 DEF Three
<1>5. ASSUME i + 3 <= n PROVE Four(slice, i) <=> Four(data, k)
  <2>1. i \in 1..n /\ i + 1 \in 1..n /\ i + 2 \in 1..n /\ i + 3 \in 1..n
    BY <1>1, <1>5
  <2>2. c + i - 1 = k /\ c + (i + 1) - 1 = k + 1 /\ c + (i + 2) - 1 = k + 2
        /\ c + (i + 3) - 1 = k + 3
    BY <1>1
  <2> HIDE DEF k
  <2> QED BY <1>1, <2>1, <2>2 DEF Four
<1>6. SizeTo(slice, n, i) = SizeTo(data, p, k)
  <2> HIDE DEF k
  <2> QED BY <1>3, <1>4, <1>5 DEF SizeTo
<1> QED BY <1>2, <1>6 DEF slice

LEMMA BeginsAre ==
  ASSUME NEW data \in Seq(Nat), NEW b
  PROVE  b \in Begins(data) <=>
           /\ b \in 1..Len(data)
           /\ \/ Four(data, b) /\ b + 3 <= Len(data)
              \/ Three(data, b) /\ b + 2 <= Len(data) /\ (b > 1 => data[b - 1] # 0)
<1> DEFINE codes == {j \in 1..Len(data) : At(<<0, 0, 1>>, data, j)}
           n == Len(data)
<1>0. n \in Nat /\ codes = {j \in 1..n : Three(data, j) /\ j + 2 <= n}
  BY AtIs
<1>1. Begins(data) = {IF i > 1 /\ data[i - 1] = 0 THEN i - 1 ELSE i : i \in codes}
  BY DEF Begins
<1> HIDE DEF codes, n
<1>2. ASSUME b \in Begins(data)
      PROVE  /\ b \in 1..n
             /\ \/ Four(data, b) /\ b + 3 <= n
                \/ Three(data, b) /\ b + 2 <= n /\ (b > 1 => data[b - 1] # 0)
  <2>1. PICK i \in codes : b = IF i > 1 /\ data[i - 1] = 0 THEN i - 1 ELSE i
    BY <1>1, <1>2
  <2>2. i \in 1..n /\ Three(data, i) /\ i + 2 <= n
    BY <1>0
  <2>3. CASE i > 1 /\ data[i - 1] = 0
    <3>1. b = i - 1 /\ b + 1 = i /\ b + 2 = i + 1 /\ b + 3 = i + 2 /\ b \in 1..n
      BY <1>0, <2>1, <2>2, <2>3
    <3> QED BY <2>2, <2>3, <3>1 DEF Three, Four
  <2>4. CASE ~(i > 1 /\ data[i - 1] = 0)
    BY <2>1, <2>2, <2>4
  <2> QED BY <2>3, <2>4
<1>3. ASSUME b \in 1..n, Four(data, b), b + 3 <= n PROVE b \in Begins(data)
  <2>1. b + 1 \in 1..n /\ b + 1 > 1 /\ (b + 1) - 1 = b /\ (b + 1) + 1 = b + 2
        /\ (b + 1) + 2 = b + 3
    BY <1>0, <1>3
  <2>2. Three(data, b + 1) /\ data[(b + 1) - 1] = 0
    BY <1>3, <2>1 DEF Three, Four
  <2>3. b + 1 \in codes
    BY <1>0, <1>3, <2>1, <2>2
  <2> QED BY <1>1, <2>1, <2>2, <2>3
<1>4. ASSUME b \in 1..n, Three(data, b), b + 2 <= n, b > 1 => data[b - 1] # 0
      PROVE  b \in Begins(data)
  <2>1. b \in codes
    BY <1>0, <1>4
  <2> QED BY <1>1, <1>4, <2>1
<1> QED BY <1>2, <1>3, <1>4 DEF n

(* The last byte of the start code at b. *)
CodeEnd(data, b) == IF Three(data, b) THEN b + 2 ELSE b + 3

LEMMA CodeOfBegin ==
  ASSUME NEW data \in Seq(Nat), NEW b \in Begins(data), NEW p \in 0..Len(data)
  PROVE  /\ b \in 1..Len(data) /\ CodeEnd(data, b) \in b + 2..b + 3
         /\ CodeEnd(data, b) <= Len(data)
         /\ SizeTo(data, p, b)
              = IF CodeEnd(data, b) <= p THEN CodeEnd(data, b) - b + 1 ELSE 0
<1>1. /\ b \in 1..Len(data)
      /\ \/ Four(data, b) /\ b + 3 <= Len(data)
         \/ Three(data, b) /\ b + 2 <= Len(data)
  BY BeginsAre
<1>2. ~(Three(data, b) /\ Four(data, b))
  BY DEF Three, Four
<1>3. Len(data) \in Nat
  OBVIOUS
<1> QED BY <1>1, <1>2, <1>3 DEF CodeEnd, SizeTo

LEMMA BeginsApart ==
  ASSUME NEW data \in Seq(Nat), NEW b \in Begins(data), NEW d \in Begins(data), b < d
  PROVE  d > CodeEnd(data, b)
<1> DEFINE n == Len(data)
<1>1. /\ b \in 1..n
      /\ \/ Four(data, b) /\ b + 3 <= n
         \/ Three(data, b) /\ b + 2 <= n
  BY BeginsAre
<1>2. /\ d \in 1..n
      /\ \/ Four(data, d) /\ d + 3 <= n
         \/ Three(data, d) /\ d + 2 <= n /\ (d > 1 => data[d - 1] # 0)
  BY BeginsAre
<1>3. n \in Nat
  OBVIOUS
<1> HIDE DEF n
<1>4. CASE d = b + 1
  <2>1. d - 1 = b /\ d > 1 /\ d + 1 = b + 2 /\ d + 2 = b + 3
    BY <1>1, <1>4
  <2>2. data[b] = 0 /\ data[d] = data[b + 1]
    BY <1>1, <1>4 DEF Three, Four
  <2>3. Four(data, d)
    BY <1>2, <2>1, <2>2
  <2> QED BY <1>1, <1>4, <2>1, <2>3 DEF Three, Four
<1>5. CASE d = b + 2
  <2>1. d + 1 = b + 3 /\ data[d] = 0 /\ data[d + 1] = 0
    BY <1>1, <1>2, <1>5 DEF Three, Four
  <2> QED BY <1>1, <1>5, <2>1 DEF Three, Four
<1>6. CASE d = b + 3 /\ Four(data, b)
  <2>1. data[d] = 0
    BY <1>2 DEF Three, Four
  <2> QED BY <1>6, <2>1 DEF Four
<1>7. CASE d > b + 3 \/ (d = b + 3 /\ ~Four(data, b))
  BY <1>1, <1>2, <1>3, <1>7 DEF CodeEnd
<1>8. d = b + 1 \/ d = b + 2 \/ d = b + 3 \/ d > b + 3
  BY <1>1, <1>2, <1>3
<1> QED BY <1>4, <1>5, <1>6, <1>7, <1>8

LEMMA CodeAtBegin ==
  ASSUME NEW data \in Seq(Nat), NEW p \in 0..Len(data), NEW i \in 1..p,
         SizeTo(data, p, i) # 0, i \notin Begins(data)
  PROVE  i > 1 /\ i - 1 \in Begins(data) /\ SizeTo(data, p, i - 1) # 0
<1>1. Len(data) \in Nat /\ i \in 1..Len(data)
  OBVIOUS
<1>2. \/ Three(data, i) /\ i + 2 <= p
      \/ Four(data, i) /\ i + 3 <= p
  BY DEF SizeTo
<1>3. Three(data, i) /\ i + 2 <= p /\ i > 1 /\ data[i - 1] = 0
  <2>1. ~(Four(data, i) /\ i + 3 <= Len(data))
        /\ ~(Three(data, i) /\ i + 2 <= Len(data) /\ (i > 1 => data[i - 1] # 0))
    BY <1>1, BeginsAre
  <2> QED BY <1>1, <1>2, <2>1
<1>4. i - 1 \in 1..Len(data) /\ (i - 1) + 1 = i /\ (i - 1) + 2 = i + 1
      /\ (i - 1) + 3 = i + 2
  BY <1>1, <1>3
<1>5. Four(data, i - 1) /\ (i - 1) + 3 <= p
  BY <1>3, <1>4 DEF Three, Four
<1>6. i - 1 \in Begins(data)
  BY <1>1, <1>4, <1>5, BeginsAre
<1> QED BY <1>3, <1>5, <1>6 DEF SizeTo

(* No NAL unit begins before c. *)
NoneBefore(data, c) == \A b \in Begins(data) : b >= c

(* From c there is no start code before d in the first p bytes. *)
NoCode(data, p, c, d) == \A i \in c..d - 1 : SizeTo(data, p, i) = 0

LEMMA FirstBegin ==
  ASSUME NEW data \in Seq(Nat), NEW p \in 0..Len(data), NEW c \in 1..p + 1,
         NoneBefore(data, c), NEW f \in c..p, SizeTo(data, p, f) # 0,
         NoCode(data, p, c, f)
  PROVE  f \in Begins(data) /\ NoneBefore(data, f)
<1>1. Len(data) \in Nat /\ f \in 1..p
  OBVIOUS
<1>2. f \in Begins(data)
  <2>1. ASSUME f \notin Begins(data) PROVE FALSE
    <3>1. f > 1 /\ f - 1 \in Begins(data) /\ SizeTo(data, p, f - 1) # 0
      BY <1>1, <2>1, CodeAtBegin
    <3>2. f - 1 \in c..f - 1
      BY <1>1, <3>1 DEF NoneBefore
    <3> QED BY <3>1, <3>2 DEF NoCode
  <2> QED BY <2>1
<1>3. ASSUME NEW b \in Begins(data), ~(b >= f) PROVE FALSE
  <2>1. b \in 1..Len(data) /\ b >= c
    BY CodeOfBegin DEF NoneBefore
  <2>2. b \in c..f - 1 /\ b < f
    BY <1>1, <1>3, <2>1
  <2>3. SizeTo(data, p, b) = 0
    BY <2>2 DEF NoCode
  <2>4. CodeEnd(data, b) \in Nat /\ ~(CodeEnd(data, b) <= p)
    BY <2>1, <2>3, CodeOfBegin
  <2>5. f > CodeEnd(data, b)
    BY <1>2, <2>2, BeginsApart
  <2> QED BY <1>1, <2>4, <2>5
<1> QED BY <1>2, <1>3 DEF NoneBefore

(* No NAL unit begins after f and before g. *)
NoneBetween(data, f, g) == \A b \in Begins(data) : ~(f < b /\ b < g)

LEMMA SecondBegin ==
  ASSUME NEW data \in Seq(Nat), NEW p \in 0..Len(data), NEW f \in Begins(data),
         SizeTo(data, p, f) # 0, NEW g \in f + SizeTo(data, p, f)..p,
         SizeTo(data, p, g) # 0, NoCode(data, p, f + SizeTo(data, p, f), g)
  PROVE  g \in Begins(data) /\ NoneBetween(data, f, g)
<1> DEFINE size == SizeTo(data, p, f)
           end == CodeEnd(data, f)
<1>1. /\ Len(data) \in Nat /\ p \in Nat /\ f \in 1..Len(data) /\ end \in f + 2..f + 3
      /\ size = end - f + 1
  BY CodeOfBegin
<1> HIDE DEF size, end
<1>2. g \in f + size..p /\ g \in 1..p /\ f + size = end + 1
  BY <1>1 DEF size
<1>3. g \in Begins(data)
  <2>1. ASSUME g \notin Begins(data) PROVE FALSE
    <3>1. g > 1 /\ g - 1 \in Begins(data) /\ SizeTo(data, p, g - 1) # 0
      BY <1>2, <2>1, CodeAtBegin
    <3>2. f < g - 1
      BY <1>1, <1>2
    <3>3. g - 1 > end
      BY <3>1, <3>2, BeginsApart DEF end
    <3>4. g - 1 \in f + size..g - 1
      BY <1>1, <1>2, <3>3
    <3> QED BY <3>1, <3>4 DEF NoCode, size
  <2> QED BY <2>1
<1>4. ASSUME NEW b \in Begins(data), f < b, b < g PROVE FALSE
  <2>1. b \in 1..Len(data) /\ b > end
    BY <1>4, CodeOfBegin, BeginsApart DEF end
  <2>2. b \in f + size..g - 1
    BY <1>1, <1>2, <1>4, <2>1
  <2>3. SizeTo(data, p, b) = 0
    BY <2>2 DEF NoCode, size
  <2>4. CodeEnd(data, b) \in Nat /\ ~(CodeEnd(data, b) <= p)
    <3>1. /\ CodeEnd(data, b) \in b + 2..b + 3
          /\ SizeTo(data, p, b)
               = IF CodeEnd(data, b) <= p THEN CodeEnd(data, b) - b + 1 ELSE 0
      BY CodeOfBegin
    <3> QED BY <2>1, <2>3, <3>1
  <2>5. g > CodeEnd(data, b)
    BY <1>3, <1>4, BeginsApart
  <2> QED BY <1>1, <1>2, <2>4, <2>5
<1> QED BY <1>3, <1>4 DEF NoneBetween

LEMMA NoBegin ==
  ASSUME NEW data \in Seq(Nat), NEW p \in 0..Len(data), NEW c \in 1..p + 1,
         NoneBefore(data, c), NoCode(data, p, c, p + 1), ~CutsFirstCode(data, p)
  PROVE  NoneBefore(data, p + 1)
<1>0. Len(data) \in Nat /\ Len(data) \in 0..Len(data)
  OBVIOUS
<1>1. ASSUME NEW b \in Begins(data), ~(b >= p + 1) PROVE FALSE
  <2>1. /\ b \in 1..Len(data) /\ b >= c /\ CodeEnd(data, b) \in b + 2..b + 3
        /\ CodeEnd(data, b) <= Len(data)
    BY CodeOfBegin DEF NoneBefore
  <2>2. b \in c..(p + 1) - 1
    BY <1>0, <1>1, <2>1
  <2>3. SizeTo(data, p, b) = 0
    BY <2>2 DEF NoCode
  <2>4. p < CodeEnd(data, b)
    <3>1. SizeTo(data, p, b)
            = IF CodeEnd(data, b) <= p THEN CodeEnd(data, b) - b + 1 ELSE 0
      BY CodeOfBegin
    <3> QED BY <1>0, <2>1, <2>3, <3>1
  <2>5. ASSUME NEW d \in Begins(data), ~(b <= d) PROVE FALSE
    <3>1. d \in 1..Len(data) /\ d >= c /\ CodeEnd(data, d) \in d + 2..d + 3 /\ d < b
      BY <2>1, <2>5, CodeOfBegin DEF NoneBefore
    <3>2. d \in c..(p + 1) - 1
      BY <1>0, <1>1, <2>1, <3>1
    <3>3. SizeTo(data, p, d) = 0
      BY <3>2 DEF NoCode
    <3>4. p < CodeEnd(data, d)
      <4>1. SizeTo(data, p, d)
              = IF CodeEnd(data, d) <= p THEN CodeEnd(data, d) - d + 1 ELSE 0
        BY CodeOfBegin
      <4> QED BY <1>0, <3>1, <3>3, <4>1
    <3>5. b > CodeEnd(data, d)
      BY <3>1, BeginsApart
    <3> QED BY <1>0, <1>1, <2>1, <3>1, <3>4, <3>5
  <2>6. Min(Begins(data)) = b
    <3>1. \A x \in Begins(data) : (\A y \in Begins(data) : x <= y) => x = b
      <4> SUFFICES ASSUME NEW x \in Begins(data), \A y \in Begins(data) : x <= y
                   PROVE  x = b
        OBVIOUS
      <4>1. x <= b /\ b <= x /\ x \in 1..Len(data)
        BY <2>5, CodeOfBegin, <1>0
      <4> QED BY <2>1, <4>1
    <3>2. \A y \in Begins(data) : b <= y
      BY <2>5
    <3> QED BY <3>1, <3>2 DEF Min
  <2>7. StartCodeSize(data, b) = CodeEnd(data, b) - b + 1
    <3>1. b \in Nat \ {0}
      BY <2>1
    <3> QED BY <1>0, <2>1, <3>1, SizeIs, CodeOfBegin
  <2>8. p \in b..b + StartCodeSize(data, b) - 2
    BY <1>0, <1>1, <2>1, <2>4, <2>7
  <2> QED BY <2>6, <2>8 DEF CutsFirstCode
<1> QED BY <1>1 DEF NoneBefore

LEMMA FindInSlice ==
  ASSUME NEW data \in Seq(Nat), NEW p \in 0..Len(data), NEW c \in 1..p + 1,
         NEW from \in Nat \ {0}
  PROVE  LET found == FindStartCode(SubSeq(data, c, p), from)
         IN \/ found = 0 /\ NoCode(data, p, c + from - 1, p + 1)
            \/ /\ found \in from..p - c + 1
               /\ SizeTo(data, p, c + found - 1) # 0
               /\ NoCode(data, p, c + from - 1, c + found - 1)
<1> DEFINE slice == SubSeq(data, c, p)
           n == p - c + 1
           at == {i \in from..n : SizeTo(data, p, c + i - 1) # 0}
           found == FindStartCode(slice, from)
<1>1. n \in Nat /\ Len(slice) = n
  BY SliceIs
<1>2. found = IF at = {} THEN 0 ELSE Min(at)
  <2>1. \A i \in from..n : StartCodeSize(slice, i) = SizeTo(data, p, c + i - 1)
    BY SizeInSlice
  <2>2. at = {i \in from..n : StartCodeSize(slice, i) # 0}
    BY <2>1
  <2> HIDE DEF at, slice, n
  <2> QED BY <1>1, <2>2 DEF FindStartCode
<1> HIDE DEF found
<1>3. CASE at = {}
  <2>1. ASSUME NEW k \in c + from - 1..(p + 1) - 1 PROVE SizeTo(data, p, k) = 0
    <3>1. k - c + 1 \in from..n /\ c + (k - c + 1) - 1 = k
      OBVIOUS
    <3> QED BY <1>3, <3>1
  <2> QED BY <1>2, <1>3, <2>1 DEF NoCode, found
<1>4. CASE at # {}
  <2>1. PICK m \in at : \A y \in at : y >= m
    <3>1. at \subseteq Nat
      OBVIOUS
    <3> HIDE DEF at
    <3> QED BY <1>4, <3>1, Least
  <2>2. Min(at) = m
    <3>1. m \in at /\ \A y \in at : m <= y
      BY <2>1
    <3>2. \A x \in at : (\A y \in at : x <= y) => x = m
      <4> SUFFICES ASSUME NEW x \in at, \A y \in at : x <= y PROVE x = m
        OBVIOUS
      <4>1. x <= m /\ m <= x /\ x \in Nat /\ m \in Nat
        BY <3>1
      <4> QED BY <4>1
    <3> QED BY <3>1, <3>2 DEF Min
  <2>3. m \in from..n /\ SizeTo(data, p, c + m - 1) # 0
    BY <2>1
  <2>4. ASSUME NEW k \in c + from - 1..(c + m - 1) - 1 PROVE SizeTo(data, p, k) = 0
    <3>1. k - c + 1 \in from..n /\ c + (k - c + 1) - 1 = k /\ ~(k - c + 1 >= m)
      BY <2>3
    <3>2. k - c + 1 \notin at
      BY <2>1, <3>1
    <3> QED BY <3>1, <3>2
  <2>5. found = m
    BY <1>2, <1>4, <2>2
  <2> QED BY <2>3, <2>4, <2>5 DEF NoCode, found
<1> QED BY <1>3, <1>4

-----------------------------------------------------------------------------
(* The NAL units of the first q bytes. *)
Singles(data) == [i \in DOMAIN data |-> <<data[i]>>]
NalsTo(data, q) == PiecesTo(q, Singles(data), Begins(data))

LEMMA NalsAre ==
  ASSUME NEW data \in Seq(Nat)
  PROVE  Nals(data) = NalsTo(data, Len(data))
<1>1. DOMAIN data = 1..Len(data) /\ Len(data) \in Nat
  OBVIOUS
<1>2. Len(Singles(data)) = Len(data)
  BY <1>1 DEF Singles
<1>3. Nals(data) = Pieces(Singles(data), Begins(data))
  BY DEF Nals, Singles
<1> QED BY <1>2, <1>3 DEF Pieces, NalsTo

LEMMA SinglesAreParts ==
  ASSUME NEW data \in Seq(Nat), NEW q \in 0..Len(data)
  PROVE  AreParts(q, Singles(data), Nat)
<1> SUFFICES ASSUME NEW k \in 1..q PROVE Singles(data)[k] \in Seq(Nat)
  BY DEF AreParts
<1>1. k \in DOMAIN data /\ data[k] \in Nat
  OBVIOUS
<1>2. Singles(data)[k] = <<data[k]>>
  BY <1>1 DEF Singles
<1> QED BY <1>1, <1>2

LEMMA NalsToType ==
  ASSUME NEW data \in Seq(Nat), NEW q \in 0..Len(data)
  PROVE  NalsTo(data, q) \in Seq(Seq(Nat))
<1>1. q \in Nat
  OBVIOUS
<1> QED BY <1>1, SinglesAreParts, PiecesToType DEF NalsTo

(* pieces with t joined to the last. *)
Grown(pieces, t) == [pieces EXCEPT ![Len(pieces)] = @ \o t]

LEMMA NalsToNext ==
  ASSUME NEW data \in Seq(Nat), NEW q \in 1..Len(data), NEW n \in Nat, q = n + 1
  PROVE  NalsTo(data, q)
           = IF q \in Begins(data) THEN Append(NalsTo(data, n), <<data[q]>>)
             ELSE IF NalsTo(data, n) = <<>> THEN <<>>
             ELSE Grown(NalsTo(data, n), <<data[q]>>)
<1>1. q \in Nat /\ q \in 0..Len(data) /\ q \in DOMAIN data
  OBVIOUS
<1>2. AreParts(q, Singles(data), Nat)
  BY <1>1, SinglesAreParts
<1>3. NalsTo(data, q) = NextPiece(NalsTo(data, n), Singles(data), Begins(data), q)
  BY <1>1, <1>2, PiecesToNext DEF NalsTo
<1>4. Singles(data)[q] = <<data[q]>>
  BY <1>1 DEF Singles
<1> QED BY <1>3, <1>4 DEF NextPiece, Grown

LEMMA NothingBegun ==
  ASSUME NEW data \in Seq(Nat), NEW c \in 1..Len(data) + 1, NoneBefore(data, c)
  PROVE  NalsTo(data, c - 1) = <<>>
<1> DEFINE T == {q \in 0..Len(data) : NalsTo(data, q) = <<>>}
<1>0. Len(data) \in Nat /\ c - 1 \in Nat /\ c - 1 \in 0..c - 1 /\ 0 \in 0..Len(data)
  OBVIOUS
<1>1. 0 \in T
  BY <1>0, PiecesToNothing DEF NalsTo
<1>2. ASSUME NEW q \in 0..(c - 1) - 1, q \in T PROVE q + 1 \in T
  <2>1. q + 1 \in 1..Len(data) /\ q \in Nat /\ q + 1 \in 0..Len(data)
        /\ ~(q + 1 >= c)
    OBVIOUS
  <2>2. q + 1 \notin Begins(data)
    BY <2>1 DEF NoneBefore
  <2>3. NalsTo(data, q + 1) = <<>>
    BY <1>2, <2>1, <2>2, NalsToNext
  <2> QED BY <2>1, <2>3
<1> HIDE DEF T
<1>3. c - 1 \in T
  BY <1>0, <1>1, <1>2, UpFrom
<1> QED BY <1>3 DEF T

Joins(u, s, t) == u = s \o t

LEMMA LastGrows ==
  ASSUME NEW S, NEW p \in Seq(S), NEW s \in S, NEW t, NEW u \in S, Joins(u, s, t)
  PROVE  Append(p, s) # <<>> /\ Grown(Append(p, s), t) = Append(p, u)
<1> DEFINE q == Append(p, s)
           r == [q EXCEPT ![Len(q)] = u]
<1>1. /\ q \in Seq(S) /\ Len(q) = Len(p) + 1 /\ Len(p) \in Nat /\ q[Len(q)] = s
      /\ \A i \in 1..Len(p) : q[i] = p[i]
  BY AppendProperties
<1>2. Append(p, u) \in Seq(S) /\ Len(Append(p, u)) = Len(p) + 1
      /\ Append(p, u)[Len(p) + 1] = u /\ \A i \in 1..Len(p) : Append(p, u)[i] = p[i]
  BY AppendProperties
<1> HIDE DEF q
<1>3. Len(q) \in 1..Len(q)
  BY <1>1
<1>4. /\ r \in Seq(S) /\ Len(r) = Len(q)
      /\ \A j \in 1..Len(q) : r[j] = IF j = Len(q) THEN u ELSE q[j]
  BY <1>1, <1>3, ExceptSeq
<1> HIDE DEF r
<1>5. \A i \in 1..Len(r) : r[i] = Append(p, u)[i]
  <2> SUFFICES ASSUME NEW i \in 1..Len(r) PROVE r[i] = Append(p, u)[i]
    OBVIOUS
  <2>1. i = Len(p) + 1 \/ i \in 1..Len(p)
    BY <1>1, <1>4
  <2> QED BY <1>1, <1>2, <1>4, <2>1
<1>6. r = Append(p, u)
  BY <1>1, <1>2, <1>4, <1>5, SeqEqual
<1>7. q # <<>>
  BY <1>1
<1>8. Grown(q, t) = r
  BY <1>1, <1>3 DEF r, Grown, Joins
<1> QED BY <1>6, <1>7, <1>8 DEF q

LEMMA OneNal ==
  ASSUME NEW data \in Seq(Nat), NEW f \in Begins(data), NEW e \in f..Len(data),
         NoneBetween(data, f, e + 1)
  PROVE  NalsTo(data, e) = Append(NalsTo(data, f - 1), SubSeq(data, f, e))
<1> DEFINE before == NalsTo(data, f - 1)
           T == {q \in f..e : NalsTo(data, q) = Append(before, SubSeq(data, f, q))}
<1>0. /\ Len(data) \in Nat /\ f \in 1..Len(data) /\ e \in 1..Len(data) /\ e \in f..e
      /\ f - 1 \in 0..Len(data) /\ f - 1 \in Nat /\ f = (f - 1) + 1
  <2>1. f \in 1..Len(data) /\ Len(data) \in Nat
    BY BeginsAre
  <2> QED BY <2>1
<1>1. f \in T
  <2>1. NalsTo(data, f) = Append(before, <<data[f]>>)
    BY <1>0, NalsToNext
  <2>2. SubSeq(data, f, f) = <<data[f]>>
    <3>1. f \in 0..Len(data) /\ f \in 1..f + 1 /\ f - f + 1 = 1 /\ f + 1 - 1 = f
      BY <1>0
    <3>2. /\ SubSeq(data, f, f) \in Seq(Nat) /\ Len(SubSeq(data, f, f)) = 1
          /\ SubSeq(data, f, f)[1] = data[f]
      BY <3>1, SliceIs
    <3>3. <<data[f]>> \in Seq(Nat) /\ Len(<<data[f]>>) = 1 /\ <<data[f]>>[1] = data[f]
      BY <1>0
    <3>4. \A i \in 1..1 : SubSeq(data, f, f)[i] = <<data[f]>>[i]
      BY <3>2, <3>3
    <3> QED BY <3>2, <3>3, <3>4, SeqEqual
  <2> QED BY <1>0, <2>1, <2>2
<1>2. ASSUME NEW q \in f..e - 1, q \in T PROVE q + 1 \in T
  <2> DEFINE s == SubSeq(data, f, q)
             t == <<data[q + 1]>>
  <2>1. /\ q + 1 \in 1..Len(data) /\ q \in Nat /\ q + 1 \in f..e
        /\ f < q + 1 /\ q + 1 < e + 1 /\ q \in f..Len(data) /\ q + 1 \in f..Len(data)
    BY <1>0
  <2>2. q + 1 \notin Begins(data)
    BY <2>1 DEF NoneBetween
  <2>3. SubSeq(data, f, q + 1) = s \o t
    BY <1>0, <2>1, SubSeqRecursiveSecond
  <2>4. before \in Seq(Seq(Nat))
    BY <1>0, NalsToType
  <2>5. s \in Seq(Nat) /\ SubSeq(data, f, q + 1) \in Seq(Nat)
    <3>1. q \in 0..Len(data) /\ q + 1 \in 0..Len(data) /\ f \in 1..q + 1 /\ f \in 1..(q + 1) + 1
      BY <1>0
    <3> QED BY <3>1, SliceIs
  <2>6. NalsTo(data, q) = Append(before, s)
    BY <1>2
  <2> DEFINE S == Seq(Nat)
             u == SubSeq(data, f, q + 1)
  <2> HIDE DEF before, s, t
  <2>7. Joins(u, s, t) /\ u \in S /\ s \in S /\ before \in Seq(S)
    BY <2>3, <2>4, <2>5 DEF Joins
  <2> HIDE DEF S, u
  <2>8. Append(before, s) # <<>> /\ Grown(Append(before, s), t) = Append(before, u)
    BY <2>7, LastGrows
  <2>9. NalsTo(data, q + 1) = Append(before, u)
    <3>1. NalsTo(data, q + 1)
            = IF q + 1 \in Begins(data) THEN Append(NalsTo(data, q), t)
              ELSE IF NalsTo(data, q) = <<>> THEN <<>>
              ELSE Grown(NalsTo(data, q), t)
      BY <2>1, NalsToNext DEF t
    <3> QED BY <2>2, <2>6, <2>8, <3>1
  <2> QED BY <2>1, <2>9 DEF before, u
<1> HIDE DEF T, before
<1>3. f \in Nat /\ e \in Nat
  BY <1>0
<1>4. e \in T
  BY <1>0, <1>1, <1>2, <1>3, UpFrom
<1> QED BY <1>4 DEF T, before

-----------------------------------------------------------------------------
(* The access units of a list of NAL units, and of one more. *)
Kept(nal) == IF Payload(nal) = <<>> THEN <<>> ELSE nal
KeptOf(nals) == [k \in DOMAIN nals |-> Kept(nals[k])]

LEMMA KeptType ==
  ASSUME NEW nal \in Seq(Nat)
  PROVE  Kept(nal) \in Seq(Nat)
BY DEF Kept

LEMMA KeptAreParts ==
  ASSUME NEW nals \in Seq(Seq(Nat)), NEW n \in 0..Len(nals)
  PROVE  AreParts(n, KeptOf(nals), Nat)
<1> SUFFICES ASSUME NEW k \in 1..n PROVE KeptOf(nals)[k] \in Seq(Nat)
  BY DEF AreParts
<1> DEFINE S == Seq(Nat)
<1> HIDE DEF S
<1>0. nals \in Seq(S)
  BY DEF S
<1>1. k \in DOMAIN nals /\ nals[k] \in S
  BY <1>0
<1>2. KeptOf(nals)[k] = Kept(nals[k])
  BY <1>1 DEF KeptOf
<1> QED BY <1>1, <1>2, KeptType DEF S

LEMMA UnitsAre ==
  ASSUME NEW nals \in Seq(Seq(Nat))
  PROVE  /\ UnitsOf(nals) = PiecesTo(Len(nals), KeptOf(nals), UnitBegins(nals))
         /\ UnitsOf(nals) \in Seq(Seq(Nat))
<1> DEFINE S == Seq(Nat)
<1> HIDE DEF S
<1>1. nals \in Seq(S)
  BY DEF S
<1>2. DOMAIN nals = 1..Len(nals) /\ Len(nals) \in Nat /\ Len(nals) \in 0..Len(nals)
  BY <1>1
<1>3. Len(KeptOf(nals)) = Len(nals)
  BY <1>2 DEF KeptOf
<1>4. UnitsOf(nals) = Pieces(KeptOf(nals), UnitBegins(nals))
  BY DEF UnitsOf, KeptOf, Kept
<1>5. UnitsOf(nals) = PiecesTo(Len(nals), KeptOf(nals), UnitBegins(nals))
  BY <1>3, <1>4 DEF Pieces
<1>6. AreParts(Len(nals), KeptOf(nals), Nat)
  BY <1>2, KeptAreParts
<1> QED BY <1>2, <1>5, <1>6, PiecesToType

(* The elements of a list and one more. *)
LEMMA OneMore ==
  ASSUME NEW nals \in Seq(Seq(Nat)), NEW x \in Seq(Nat)
  PROVE  /\ Append(nals, x) \in Seq(Seq(Nat)) /\ Len(nals) \in Nat
         /\ Len(Append(nals, x)) = Len(nals) + 1
         /\ \A i \in 1..Len(nals) : Append(nals, x)[i] = nals[i]
         /\ Append(nals, x)[Len(nals) + 1] = x /\ Append(nals, x) # <<>>
<1> DEFINE S == Seq(Nat)
<1>1. nals \in Seq(S) /\ x \in S
  OBVIOUS
<1> HIDE DEF S
<1>2. /\ Append(nals, x) \in Seq(S) /\ Len(nals) \in Nat
      /\ Len(Append(nals, x)) = Len(nals) + 1
      /\ \A i \in 1..Len(nals) : Append(nals, x)[i] = nals[i]
      /\ Append(nals, x)[Len(nals) + 1] = x /\ Append(nals, x) # <<>>
  BY <1>1, AppendProperties
<1> QED BY <1>2 DEF S

LEMMA OpenBefore ==
  ASSUME NEW nals \in Seq(Seq(Nat)), NEW x \in Seq(Nat), NEW k \in 1..Len(nals) + 1
  PROVE  Open(Append(nals, x), k) <=> Open(nals, k)
<1> DEFINE q == Append(nals, x)
           n == Len(nals)
<1>1. n \in Nat /\ \A i \in 1..n : q[i] = nals[i]
  BY OneMore
<1>2. n \in Nat /\ k \in 1..n + 1
  BY <1>1
<1> HIDE DEF q, n
<1>3. ASSUME NEW j \in 1..k - 1, NEW m \in j + 1..k - 1
      PROVE  m \in 1..k - 1 /\ m \in 1..n
  BY <1>2
<1>4. ASSUME NEW j \in 1..k - 1 PROVE j \in 1..n
  BY <1>2
<1>5. \A j \in 1..k - 1 : q[j] = nals[j]
  BY <1>1, <1>4
<1> QED BY <1>3, <1>5 DEF Open, q

LEMMA OpenNext ==
  ASSUME NEW nals \in Seq(Seq(Nat)), NEW x \in Seq(Nat)
  PROVE  Open(Append(nals, x), Len(nals) + 2)
           <=> IsVcl(x) \/ (~IsAud(x) /\ Open(nals, Len(nals) + 1))
<1> DEFINE q == Append(nals, x)
           n == Len(nals)
<1>1. n \in Nat /\ q[n + 1] = x /\ \A i \in 1..n : q[i] = nals[i]
  BY OneMore
<1> HIDE DEF q, n
<1>0. n \in Nat
  BY <1>1
<1>2. (n + 2) - 1 = n + 1 /\ (n + 1) - 1 = n /\ n + 1 \in 1..n + 1
  BY <1>0
<1>3. ASSUME Open(q, n + 2) PROVE IsVcl(x) \/ (~IsAud(x) /\ Open(nals, n + 1))
  <2>1. PICK j \in 1..n + 1 : IsVcl(q[j]) /\ \A m \in j + 1..n + 1 : ~IsAud(q[m])
    BY <1>2, <1>3 DEF Open
  <2>2. CASE j = n + 1
    BY <1>1, <2>1, <2>2
  <2>3. CASE j # n + 1
    <3>1. j \in 1..n /\ n + 1 \in j + 1..n + 1
      BY <1>0, <2>3
    <3>2. ASSUME NEW m \in j + 1..n PROVE m \in 1..n /\ m \in j + 1..n + 1
      BY <1>0, <3>1
    <3>3. IsVcl(nals[j]) /\ \A m \in j + 1..n : ~IsAud(nals[m])
      BY <1>1, <2>1, <3>1, <3>2
    <3>4. ~IsAud(x)
      BY <1>1, <2>1, <3>1
    <3> QED BY <1>2, <3>1, <3>3, <3>4 DEF Open
  <2> QED BY <2>2, <2>3
<1>4. ASSUME IsVcl(x) PROVE Open(q, n + 2)
  <2>1. \A m \in (n + 1) + 1..n + 1 : FALSE
    BY <1>1
  <2> QED BY <1>1, <1>2, <1>4, <2>1 DEF Open
<1>5. ASSUME ~IsAud(x), Open(nals, n + 1) PROVE Open(q, n + 2)
  <2>1. PICK j \in 1..n : IsVcl(nals[j]) /\ \A m \in j + 1..n : ~IsAud(nals[m])
    BY <1>2, <1>5 DEF Open
  <2>2. j \in 1..n + 1
    BY <1>1
  <2>3. ASSUME NEW m \in j + 1..n + 1 PROVE ~IsAud(q[m])
    <3>1. m = n + 1 \/ (m \in 1..n /\ m \in j + 1..n)
      BY <1>0
    <3> QED BY <1>1, <1>5, <2>1, <3>1
  <2>4. IsVcl(q[j])
    BY <1>1, <2>1
  <2> QED BY <1>2, <2>2, <2>3, <2>4 DEF Open
<1> QED BY <1>3, <1>4, <1>5 DEF q, n

LEMMA UnitsNext ==
  ASSUME NEW nals \in Seq(Seq(Nat)), NEW x \in Seq(Nat)
  PROVE  UnitsOf(Append(nals, x))
           = IF nals = <<>> \/ (Starts(x) /\ Open(nals, Len(nals) + 1))
             THEN Append(UnitsOf(nals), Kept(x))
             ELSE IF UnitsOf(nals) = <<>> THEN <<>>
             ELSE Grown(UnitsOf(nals), Kept(x))
<1> DEFINE q == Append(nals, x)
           n == Len(nals)
           m == n + 1
<1>1. /\ q \in Seq(Seq(Nat)) /\ n \in Nat /\ Len(q) = m /\ q[m] = x
      /\ \A i \in 1..n : q[i] = nals[i]
  BY OneMore
<1>2. \A k \in 1..m : Open(q, k) <=> Open(nals, k)
  BY OpenBefore
<1>a. n = 0 <=> nals = <<>>
  <2> DEFINE S == Seq(Nat)
  <2>1. nals \in Seq(S)
    OBVIOUS
  <2> HIDE DEF S
  <2> QED BY <2>1
<1> HIDE DEF q, n
<1>3. m \in Nat /\ m \in 1..m /\ n \in 0..m /\ m \in 0..m /\ n \in 0..n
  BY <1>1
<1>4. UnitsOf(q) = PiecesTo(m, KeptOf(q), UnitBegins(q))
  BY <1>1, UnitsAre
<1>5. UnitsOf(nals) = PiecesTo(n, KeptOf(nals), UnitBegins(nals))
  BY UnitsAre DEF n
<1>6. AreParts(m, KeptOf(q), Nat) /\ AreParts(n, KeptOf(q), Nat)
  BY <1>1, <1>3, KeptAreParts
<1>7. PiecesTo(m, KeptOf(q), UnitBegins(q))
        = NextPiece(PiecesTo(n, KeptOf(q), UnitBegins(q)), KeptOf(q), UnitBegins(q), m)
  BY <1>1, <1>3, <1>6, PiecesToNext
<1>8. DOMAIN q = 1..m /\ DOMAIN nals = 1..n
  <2> DEFINE S == Seq(Nat)
  <2>1. q \in Seq(S) /\ nals \in Seq(S)
    BY <1>1
  <2> HIDE DEF S
  <2> QED BY <1>1, <2>1 DEF n
<1>9. PiecesTo(n, KeptOf(nals), UnitBegins(nals)) = PiecesTo(n, KeptOf(q), UnitBegins(q))
  <2>1. AreParts(n, KeptOf(nals), Nat)
    BY <1>1, <1>3, KeptAreParts DEF n
  <2>2. ASSUME NEW k \in 1..n
        PROVE  /\ KeptOf(q)[k] = KeptOf(nals)[k]
               /\ k \in UnitBegins(nals) <=> k \in UnitBegins(q)
    <3>1. k \in 1..m /\ q[k] = nals[k] /\ k \in 1..n
      BY <1>1
    <3>2. KeptOf(q)[k] = KeptOf(nals)[k]
      BY <1>8, <3>1 DEF KeptOf
    <3>3. k \in UnitBegins(nals) <=> k \in UnitBegins(q)
      BY <1>1, <1>2, <3>1 DEF UnitBegins, n
    <3> QED BY <3>2, <3>3
  <2>3. Agree(n, KeptOf(nals), UnitBegins(nals), KeptOf(q), UnitBegins(q))
    BY <2>2 DEF Agree
  <2>4. n \in Nat
    BY <1>1
  <2> QED BY <2>1, <2>3, <2>4, PiecesToSame
<1>10. KeptOf(q)[m] = Kept(x)
  BY <1>1, <1>3, <1>8 DEF KeptOf
<1>11. m \in UnitBegins(q) <=> nals = <<>> \/ (Starts(x) /\ Open(nals, m))
  <2>1. m = 1 <=> nals = <<>>
    BY <1>1, <1>a
  <2>2. m \in UnitBegins(q) <=> m = 1 \/ (Starts(x) /\ Open(q, m))
    BY <1>1, <1>3 DEF UnitBegins, Starts
  <2> QED BY <1>2, <1>3, <2>1, <2>2
<1> HIDE DEF m
<1>12. UnitsOf(q) = IF m \in UnitBegins(q) THEN Append(UnitsOf(nals), Kept(x))
                    ELSE IF UnitsOf(nals) = <<>> THEN <<>>
                    ELSE Grown(UnitsOf(nals), Kept(x))
  BY <1>4, <1>5, <1>7, <1>9, <1>10 DEF NextPiece, Grown
<1> QED BY <1>11, <1>12 DEF q, n, m

-----------------------------------------------------------------------------
(* What the thread holds after it has processed these NAL units: their     *)
(* access units, the last of them still open.                              *)
States(S, T) == [buffer : S, unit : S, vcl : BOOLEAN, units : T]
ReaderStates == States(Seq(Nat), Seq(Seq(Nat)))

Holds(r, nals) ==
  /\ r.vcl <=> Open(nals, Len(nals) + 1)
  /\ IF nals = <<>> THEN r.units = <<>> /\ r.unit = <<>>
     ELSE UnitsOf(nals) = Append(r.units, r.unit)

LEMMA ReaderFields ==
  ASSUME NEW r \in ReaderStates
  PROVE  /\ r.buffer \in Seq(Nat) /\ r.unit \in Seq(Nat) /\ r.vcl \in BOOLEAN
         /\ r.units \in Seq(Seq(Nat))
BY DEF ReaderStates, States

SetAll(r, u, v, w) == [r EXCEPT !.units = u, !.unit = v, !.vcl = w]
SetUnit(r, v, w) == [r EXCEPT !.unit = v, !.vcl = w]
SetBuffer(r, v) == [r EXCEPT !.buffer = v]

LEMMA SetAllIs ==
  ASSUME NEW S, NEW T, NEW r \in States(S, T), NEW u \in T, NEW v \in S, NEW w \in BOOLEAN
  PROVE  /\ SetAll(r, u, v, w) \in States(S, T) /\ SetAll(r, u, v, w).units = u
         /\ SetAll(r, u, v, w).unit = v /\ SetAll(r, u, v, w).vcl = w
         /\ SetAll(r, u, v, w).buffer = r.buffer
BY DEF States, SetAll

LEMMA SetUnitIs ==
  ASSUME NEW S, NEW T, NEW r \in States(S, T), NEW v \in S, NEW w \in BOOLEAN
  PROVE  /\ SetUnit(r, v, w) \in States(S, T) /\ SetUnit(r, v, w).units = r.units
         /\ SetUnit(r, v, w).unit = v /\ SetUnit(r, v, w).vcl = w
         /\ SetUnit(r, v, w).buffer = r.buffer
BY DEF States, SetUnit

LEMMA SetBufferIs ==
  ASSUME NEW S, NEW T, NEW r \in States(S, T), NEW v \in S
  PROVE  /\ SetBuffer(r, v) \in States(S, T) /\ SetBuffer(r, v).units = r.units
         /\ SetBuffer(r, v).unit = r.unit /\ SetBuffer(r, v).vcl = r.vcl
         /\ SetBuffer(r, v).buffer = v
BY DEF States, SetBuffer

LEMMA EmitCurrentIs ==
  ASSUME NEW r \in ReaderStates
  PROVE  /\ EmitCurrent(r) \in ReaderStates /\ EmitCurrent(r).buffer = r.buffer
         /\ EmitCurrent(r).unit = <<>> /\ EmitCurrent(r).vcl = FALSE
         /\ r.vcl => EmitCurrent(r).units = Append(r.units, r.unit)
         /\ ~r.vcl => EmitCurrent(r).units = r.units
<1> DEFINE S == Seq(Nat)
           T == Seq(Seq(Nat))
           u == IF r.vcl THEN Append(r.units, r.unit) ELSE r.units
           e == <<>>
           f == FALSE
<1>1. Append(r.units, r.unit) \in T /\ r.units \in T /\ e \in S /\ f \in BOOLEAN
  BY ReaderFields, OneMore
<1>2. EmitCurrent(r) = SetAll(r, u, e, f)
  BY DEF EmitCurrent, SetAll
<1>3. u \in T /\ (r.vcl => u = Append(r.units, r.unit)) /\ (~r.vcl => u = r.units)
  BY <1>1, Zenon
<1>4. r \in States(S, T)
  BY DEF ReaderStates
<1> HIDE DEF u, S, T, e, f
<1>5. /\ SetAll(r, u, e, f) \in States(S, T) /\ SetAll(r, u, e, f).units = u
      /\ SetAll(r, u, e, f).unit = e /\ SetAll(r, u, e, f).vcl = f
      /\ SetAll(r, u, e, f).buffer = r.buffer
  BY <1>1, <1>3, <1>4, SetAllIs
<1> QED BY <1>2, <1>3, <1>5 DEF S, T, e, f, ReaderStates

LEMMA ProcessNalStarts ==
  ASSUME NEW r \in ReaderStates, NEW x \in Seq(Nat), StartCodeSize(x, 1) # 0,
         Payload(x) # <<>>, Starts(x), r.vcl
  PROVE  /\ ProcessNal(r, x) \in ReaderStates /\ ProcessNal(r, x).buffer = r.buffer
         /\ ProcessNal(r, x).unit = x /\ ProcessNal(r, x).vcl = IsVcl(x)
         /\ ProcessNal(r, x).units = Append(r.units, r.unit)
<1> DEFINE S == Seq(Nat)
           T == Seq(Seq(Nat))
           e == EmitCurrent(r)
           v == e.unit \o x
           w == e.vcl \/ IsVcl(x)
<1>1. /\ e \in States(S, T) /\ e.buffer = r.buffer /\ e.unit = <<>> /\ e.vcl = FALSE
      /\ e.units = Append(r.units, r.unit)
  BY EmitCurrentIs DEF ReaderStates
<1>2. v = x /\ v \in S
  BY <1>1, ConcatEmptySeq
<1>3. w = IsVcl(x) /\ w \in BOOLEAN
  BY <1>1 DEF IsVcl
<1>4. ProcessNal(r, x) = SetUnit(e, v, w)
  BY Zenon DEF ProcessNal, SetUnit
<1> HIDE DEF S, T, e, v, w
<1>5. /\ SetUnit(e, v, w) \in States(S, T) /\ SetUnit(e, v, w).units = e.units
      /\ SetUnit(e, v, w).unit = v /\ SetUnit(e, v, w).vcl = w
      /\ SetUnit(e, v, w).buffer = e.buffer
  BY <1>1, <1>2, <1>3, SetUnitIs
<1> QED BY <1>1, <1>2, <1>3, <1>4, <1>5 DEF S, T, ReaderStates

LEMMA ProcessNalGoesOn ==
  ASSUME NEW r \in ReaderStates, NEW x \in Seq(Nat), StartCodeSize(x, 1) # 0,
         Payload(x) # <<>>, ~(Starts(x) /\ r.vcl)
  PROVE  /\ ProcessNal(r, x) \in ReaderStates /\ ProcessNal(r, x).buffer = r.buffer
         /\ ProcessNal(r, x).unit = r.unit \o x
         /\ ProcessNal(r, x).vcl = (r.vcl \/ IsVcl(x))
         /\ ProcessNal(r, x).units = r.units
<1> DEFINE S == Seq(Nat)
           T == Seq(Seq(Nat))
           v == r.unit \o x
           w == r.vcl \/ IsVcl(x)
<1>1. r \in States(S, T)
  BY DEF ReaderStates
<1>2. v \in S
  BY ReaderFields, ConcatProperties
<1>3. w \in BOOLEAN
  OBVIOUS
<1>4. ProcessNal(r, x) = SetUnit(r, v, w)
  BY Zenon DEF ProcessNal, SetUnit
<1> HIDE DEF S, T, v, w
<1>5. /\ SetUnit(r, v, w) \in States(S, T) /\ SetUnit(r, v, w).units = r.units
      /\ SetUnit(r, v, w).unit = v /\ SetUnit(r, v, w).vcl = w
      /\ SetUnit(r, v, w).buffer = r.buffer
  BY <1>1, <1>2, <1>3, SetUnitIs
<1> QED BY <1>4, <1>5 DEF S, T, v, w, ReaderStates

LEMMA HoldsOneMore ==
  ASSUME NEW r \in ReaderStates, NEW nals \in Seq(Seq(Nat)), Holds(r, nals),
         NEW x \in Seq(Nat), StartCodeSize(x, 1) # 0
  PROVE  /\ ProcessNal(r, x) \in ReaderStates /\ ProcessNal(r, x).buffer = r.buffer
         /\ Holds(ProcessNal(r, x), Append(nals, x))
<1> DEFINE q == Append(nals, x)
           n == Len(nals)
           p == ProcessNal(r, x)
           S == Seq(Nat)
<1>1. q # <<>> /\ Len(q) = n + 1 /\ n \in Nat
  BY OneMore
<1>2. Open(q, n + 2) <=> IsVcl(x) \/ (~IsAud(x) /\ Open(nals, n + 1))
  BY OpenNext
<1>3. UnitsOf(q) = IF nals = <<>> \/ (Starts(x) /\ Open(nals, n + 1))
                   THEN Append(UnitsOf(nals), Kept(x))
                   ELSE IF UnitsOf(nals) = <<>> THEN <<>>
                   ELSE Grown(UnitsOf(nals), Kept(x))
  BY UnitsNext
<1>4. r.vcl <=> Open(nals, n + 1)
  BY DEF Holds
<1>5. nals = <<>> => ~Open(nals, n + 1)
  <2>1. nals = <<>> => n = 0
    OBVIOUS
  <2> HIDE DEF n
  <2>2. n = 0 => 1..(n + 1) - 1 = {}
    OBVIOUS
  <2> QED BY <2>1, <2>2 DEF Open
<1>6. nals = <<>> => UnitsOf(nals) = <<>> /\ r.units = <<>> /\ r.unit = <<>>
  <2>1. nals = <<>> => Len(nals) = 0
    OBVIOUS
  <2> QED BY <2>1, UnitsAre, PiecesToNothing DEF Holds
<1>7. nals # <<>> => UnitsOf(nals) = Append(r.units, r.unit)
  BY DEF Holds
<1>8. r.units \in Seq(S) /\ r.unit \in S /\ x \in S
  BY ReaderFields
<1> HIDE DEF q, n, p, S
<1>9. (n + 1) + 1 = n + 2
  BY <1>1
<1>10. CASE Payload(x) = <<>>
  <2>1. p = r
    BY <1>10 DEF ProcessNal, p
  <2>2. Kept(x) = <<>> /\ ~IsVcl(x) /\ ~IsAud(x) /\ ~Starts(x)
    BY <1>10 DEF Kept, IsVcl, IsAud, Starts, FirstSlice
  <2>3. p.vcl <=> Open(q, n + 2)
    BY <1>2, <1>4, <2>1, <2>2
  <2>4. UnitsOf(q) = Append(r.units, r.unit)
    <3>1. CASE nals = <<>>
      BY <1>3, <1>6, <2>2, <3>1
    <3>2. CASE nals # <<>>
      <4> DEFINE e == <<>>
                 l == r.units
                 u == r.unit
                 v == r.unit
      <4>1. Joins(v, u, e) /\ l \in Seq(S) /\ u \in S /\ v \in S
        BY <1>8, ConcatEmptySeq DEF Joins, S
      <4> HIDE DEF e, l, u, v
      <4>2. Append(l, u) # <<>> /\ Grown(Append(l, u), e) = Append(l, v)
        BY <4>1, LastGrows
      <4> QED BY <1>3, <1>7, <2>2, <3>2, <4>2 DEF e, l, u, v
    <3> QED BY <3>1, <3>2
  <2> QED BY <1>1, <1>9, <2>1, <2>3, <2>4 DEF Holds, q, p
<1>11. CASE Payload(x) # <<>> /\ Starts(x) /\ r.vcl
  <2>1. /\ p \in ReaderStates /\ p.buffer = r.buffer /\ p.unit = x
        /\ p.vcl = IsVcl(x) /\ p.units = Append(r.units, r.unit)
    BY <1>11, ProcessNalStarts DEF p
  <2>2. Kept(x) = x /\ (IsAud(x) \/ IsVcl(x))
    BY <1>11 DEF Kept, Starts, FirstSlice
  <2>3. p.vcl <=> Open(q, n + 2)
    BY <1>2, <2>1, <2>2
  <2>4. UnitsOf(q) = Append(p.units, p.unit)
    BY <1>3, <1>4, <1>5, <1>7, <1>11, <2>1, <2>2
  <2> QED BY <1>1, <1>9, <2>1, <2>3, <2>4 DEF Holds, q, p
<1>12. CASE Payload(x) # <<>> /\ ~(Starts(x) /\ r.vcl)
  <2>1. /\ p \in ReaderStates /\ p.buffer = r.buffer /\ p.unit = r.unit \o x
        /\ p.vcl = (r.vcl \/ IsVcl(x)) /\ p.units = r.units
    BY <1>12, ProcessNalGoesOn DEF p
  <2>2. Kept(x) = x
    BY <1>12 DEF Kept
  <2>3. p.vcl <=> Open(q, n + 2)
    <3>1. IsAud(x) => ~r.vcl
      BY <1>12 DEF Starts
    <3> QED BY <1>2, <1>4, <2>1, <3>1
  <2>4. UnitsOf(q) = Append(p.units, p.unit)
    <3>1. CASE nals = <<>>
      <4>1. p.unit = x
        BY <1>6, <1>8, <2>1, <3>1, ConcatEmptySeq DEF S
      <4> QED BY <1>3, <1>6, <2>1, <2>2, <3>1, <4>1
    <3>2. CASE nals # <<>>
      <4> DEFINE l == r.units
                 u == r.unit
                 v == p.unit
      <4>1. Joins(v, u, x) /\ v \in S /\ l \in Seq(S) /\ u \in S
        BY <1>8, <2>1, ReaderFields DEF Joins, S
      <4> HIDE DEF l, u, v
      <4>2. Append(l, u) # <<>> /\ Grown(Append(l, u), x) = Append(l, v)
        BY <4>1, LastGrows
      <4> QED BY <1>3, <1>4, <1>7, <1>12, <2>1, <2>2, <3>2, <4>2 DEF l, u, v
    <3> QED BY <3>1, <3>2
  <2> QED BY <1>1, <1>9, <2>1, <2>3, <2>4 DEF Holds, q, p
<1> QED BY <1>10, <1>11, <1>12

-----------------------------------------------------------------------------
(* One round of the inner loop. *)
LEMMA SliceOfSlice ==
  ASSUME NEW data \in Seq(Nat), NEW p \in 0..Len(data), NEW c \in 1..p,
         NEW a \in 1..p - c + 1, NEW b \in 1..p - c + 1
  PROVE  SubSeq(SubSeq(data, c, p), a, b) = SubSeq(data, c + a - 1, c + b - 1)
<1>1. Len(data) \in Nat /\ c \in 1..Len(data) /\ p \in 1..Len(data)
  OBVIOUS
<1> QED BY <1>1, SubSeqOfSubSeq

LEMMA FirstIs ==
  ASSUME NEW data \in Seq(Nat), NEW p \in 0..Len(data), NEW c \in 1..p + 1,
         NEW first, first = FindStartCode(SubSeq(data, c, p), 1),
         (c \in Begins(data) /\ SizeTo(data, p, c) # 0) \/ NoneBefore(data, c)
  PROVE  \/ first = 0 /\ NoneBefore(data, c) /\ NoCode(data, p, c, p + 1)
         \/ \E f \in c..p :
              /\ first \in 1..p - c + 1 /\ f = c + first - 1 /\ f \in Begins(data)
              /\ SizeTo(data, p, f) # 0 /\ NalsTo(data, f - 1) = NalsTo(data, c - 1)
              /\ (c \in Begins(data) /\ SizeTo(data, p, c) # 0) => f = c
<1>0. Len(data) \in Nat /\ p \in Nat /\ c \in Nat \ {0} /\ 1 \in Nat \ {0} /\ c + 1 - 1 = c
  OBVIOUS
<1>1. \/ first = 0 /\ NoCode(data, p, c, p + 1)
      \/ /\ first \in 1..p - c + 1 /\ SizeTo(data, p, c + first - 1) # 0
         /\ NoCode(data, p, c, c + first - 1)
  <2>1. LET found == FindStartCode(SubSeq(data, c, p), 1)
        IN \/ found = 0 /\ NoCode(data, p, c + 1 - 1, p + 1)
           \/ /\ found \in 1..p - c + 1 /\ SizeTo(data, p, c + found - 1) # 0
              /\ NoCode(data, p, c + 1 - 1, c + found - 1)
    BY <1>0, FindInSlice
  <2> QED BY <1>0, <2>1
<1>2. SizeTo(data, p, c) # 0 => c \in c..(p + 1) - 1
  BY <1>0 DEF SizeTo
<1>3. CASE first = 0 /\ NoCode(data, p, c, p + 1)
  BY <1>2, <1>3 DEF NoCode
<1>4. CASE /\ first \in 1..p - c + 1 /\ SizeTo(data, p, c + first - 1) # 0
           /\ NoCode(data, p, c, c + first - 1)
  <2> DEFINE f == c + first - 1
  <2>1. f \in c..p /\ f \in Nat /\ f - 1 \in Nat
    <3>1. p \in Nat /\ c \in Nat /\ c >= 1 /\ first \in Nat /\ first >= 1
          /\ first <= p - c + 1
      BY <1>0, <1>4
    <3>2. f \in Nat /\ f - 1 \in Nat /\ c <= f
      BY <3>1
    <3>3. f <= p
      BY <3>1
    <3> HIDE DEF f
    <3> QED BY <3>1, <3>2, <3>3
  <2> HIDE DEF f
  <2>2. SizeTo(data, p, f) # 0 /\ NoCode(data, p, c, f)
    BY <1>4 DEF f
  <2>3. CASE c \in Begins(data) /\ SizeTo(data, p, c) # 0
    <3>1. f = c
      <4>1. c \notin c..f - 1
        BY <2>2, <2>3 DEF NoCode
      <4> QED BY <1>0, <2>1, <4>1
    <3> QED BY <1>4, <2>1, <2>2, <2>3, <3>1 DEF f
  <2>4. CASE NoneBefore(data, c)
    <3>1. f \in Begins(data) /\ NoneBefore(data, f)
      BY <2>1, <2>2, <2>4, FirstBegin
    <3>2. c \in 1..Len(data) + 1 /\ f \in 1..Len(data) + 1
      BY <1>0, <2>1
    <3>3. NalsTo(data, f - 1) = NalsTo(data, c - 1)
      BY <2>4, <3>1, <3>2, NothingBegun
    <3>4. c \in Begins(data) => f = c
      BY <1>0, <2>1, <3>1 DEF NoneBefore
    <3> QED BY <1>4, <2>1, <2>2, <3>1, <3>3, <3>4 DEF f
  <2> QED BY <2>3, <2>4
<1> QED BY <1>1, <1>3, <1>4

(* A NAL unit begins at second of the buffer that begins with f, or none. *)
IsSecond(data, p, f, second) ==
  \/ second = 0 /\ NoCode(data, p, f + SizeTo(data, p, f), p + 1)
  \/ \E g \in f + SizeTo(data, p, f)..p :
       /\ g = f + second - 1 /\ second \in Nat /\ g >= f + 3
       /\ g \in Begins(data) /\ SizeTo(data, p, g) # 0
       /\ NalsTo(data, g - 1) = Append(NalsTo(data, f - 1), SubSeq(data, f, g - 1))
       /\ StartCodeSize(SubSeq(data, f, g - 1), 1) # 0

LEMMA SecondIs ==
  ASSUME NEW data \in Seq(Nat), NEW p \in 0..Len(data), NEW f \in Begins(data),
         SizeTo(data, p, f) # 0, NEW second,
         second = FindStartCode(SubSeq(data, f, p), SizeTo(data, p, f) + 1)
  PROVE  IsSecond(data, p, f, second)
<1> DEFINE size == SizeTo(data, p, f)
           end == CodeEnd(data, f)
<1>0. Len(data) \in Nat /\ p \in Nat
  OBVIOUS
<1>1. /\ f \in 1..Len(data) /\ end \in f + 2..f + 3
      /\ size = IF end <= p THEN end - f + 1 ELSE 0
  BY CodeOfBegin
<1>2. size = end - f + 1 /\ end <= p
  BY <1>1
<1>3. \A q \in 0..Len(data) : SizeTo(data, q, f) = IF end <= q THEN end - f + 1 ELSE 0
  BY CodeOfBegin
<1> HIDE DEF size, end
<1>4. size \in Nat /\ size >= 3 /\ size + 1 \in Nat \ {0} /\ f + (size + 1) - 1 = f + size
      /\ f + size = end + 1 /\ f \in 1..p + 1
  BY <1>0, <1>1, <1>2
<1>5. \/ second = 0 /\ NoCode(data, p, f + size, p + 1)
      \/ /\ second \in size + 1..p - f + 1 /\ SizeTo(data, p, f + second - 1) # 0
         /\ NoCode(data, p, f + size, f + second - 1)
  <2>1. LET found == FindStartCode(SubSeq(data, f, p), size + 1)
        IN \/ found = 0 /\ NoCode(data, p, f + (size + 1) - 1, p + 1)
           \/ /\ found \in size + 1..p - f + 1 /\ SizeTo(data, p, f + found - 1) # 0
              /\ NoCode(data, p, f + (size + 1) - 1, f + found - 1)
    BY <1>4, FindInSlice
  <2> QED BY <1>4, <2>1 DEF size
<1>6. CASE second = 0 /\ NoCode(data, p, f + size, p + 1)
  BY <1>6 DEF size, IsSecond
<1>7. CASE /\ second \in size + 1..p - f + 1 /\ SizeTo(data, p, f + second - 1) # 0
           /\ NoCode(data, p, f + size, f + second - 1)
  <2> DEFINE g == f + second - 1
  <2>1. g \in f + size..p /\ g >= f + 3 /\ second \in Nat /\ g - 1 \in f..Len(data)
        /\ (g - 1) + 1 = g /\ g - 1 \in 0..Len(data) /\ f < g /\ g \in Nat
        /\ f \in 1..(g - 1) + 1
    <3>1. f \in Nat /\ f >= 1 /\ size \in Nat /\ size >= 3 /\ p <= Len(data)
      BY <1>0, <1>1, <1>4
    <3>2. second \in Nat /\ size + 1 <= second /\ second <= p - f + 1
      BY <1>0, <1>4, <1>7, <3>1
    <3>3. g \in Nat /\ f + size <= g /\ g <= p
      BY <1>0, <3>1, <3>2
    <3> HIDE DEF g
    <3> QED BY <1>0, <3>1, <3>2, <3>3
  <2> HIDE DEF g
  <2>2. g \in Begins(data) /\ NoneBetween(data, f, g) /\ SizeTo(data, p, g) # 0
    <3>1. SizeTo(data, p, g) # 0 /\ NoCode(data, p, f + SizeTo(data, p, f), g)
          /\ g \in f + SizeTo(data, p, f)..p
      BY <1>7, <2>1 DEF g, size
    <3> QED BY <3>1, SecondBegin
  <2>3. NalsTo(data, g - 1) = Append(NalsTo(data, f - 1), SubSeq(data, f, g - 1))
    BY <2>1, <2>2, OneNal
  <2>4. StartCodeSize(SubSeq(data, f, g - 1), 1) # 0
    <3>1. StartCodeSize(SubSeq(data, f, g - 1), 1) = SizeTo(data, g - 1, f)
      <4>1. 1 \in Nat \ {0} /\ f + 1 - 1 = f
        BY <1>1
      <4> QED BY <2>1, <4>1, SizeInSlice
    <3>2. end <= g - 1
      BY <1>1, <1>2, <1>4, <2>1
    <3>3. SizeTo(data, g - 1, f) = end - f + 1
      BY <1>3, <2>1, <3>2
    <3> QED BY <1>1, <3>1, <3>3
  <2> QED BY <2>1, <2>2, <2>3, <2>4 DEF g, size, IsSecond
<1> QED BY <1>5, <1>6, <1>7

(* After p bytes have been received, those from c on are still in the      *)
(* buffer, and the NAL units before c are processed.                       *)
Remains(r, data, p, c) ==
  /\ c \in 1..p + 1 /\ r \in ReaderStates
  /\ r.buffer = SubSeq(data, c, p) /\ Holds(r, NalsTo(data, c - 1))
  /\ (c \in Begins(data) /\ SizeTo(data, p, c) # 0) \/ NoneBefore(data, c)

(* ... and none of those from c on is known to be complete. *)
Settled(data, p, c) ==
  \/ c = p + 1 /\ NoneBefore(data, c)
  \/ /\ c \in Begins(data) /\ SizeTo(data, p, c) # 0
     /\ NoCode(data, p, c + SizeTo(data, p, c), p + 1)

LEMMA HoldsSame ==
  ASSUME NEW r, NEW q, NEW nals, Holds(r, nals), q.unit = r.unit, q.vcl = r.vcl,
         q.units = r.units
  PROVE  Holds(q, nals)
BY DEF Holds

LEMMA BufferSet ==
  ASSUME NEW r \in ReaderStates, NEW b \in Seq(Nat), NEW nals, Holds(r, nals)
  PROVE  /\ SetBuffer(r, b) \in ReaderStates /\ SetBuffer(r, b).buffer = b
         /\ Holds(SetBuffer(r, b), nals)
<1> DEFINE S == Seq(Nat)
           T == Seq(Seq(Nat))
           q == SetBuffer(r, b)
<1>1. r \in States(S, T) /\ b \in S
  BY DEF ReaderStates
<1> HIDE DEF S, T
<1>2. /\ q \in States(S, T) /\ q.units = r.units /\ q.unit = r.unit
      /\ q.vcl = r.vcl /\ q.buffer = b
  BY <1>1, SetBufferIs
<1> HIDE DEF q
<1>3. Holds(q, nals)
  BY <1>2, HoldsSame
<1> QED BY <1>2, <1>3 DEF q, S, T, ReaderStates

LEMMA RoundFindsNone ==
  ASSUME NEW data \in Seq(Nat), NEW p \in 0..Len(data), NEW c, NEW r,
         Remains(r, data, p, c), NoneBefore(data, c), NoCode(data, p, c, p + 1),
         ~CutsFirstCode(data, p)
  PROVE  Remains(SetBuffer(r, <<>>), data, p, p + 1) /\ Settled(data, p, p + 1)
<1> DEFINE e == <<>>
           d == p + 1
<1>0. Len(data) \in Nat /\ c \in 1..p + 1 /\ d \in 1..p + 1 /\ d - 1 = p
      /\ c \in 1..Len(data) + 1 /\ d \in 1..Len(data) + 1 /\ p < d /\ d \in Int
  BY DEF Remains
<1>1. NoneBefore(data, d)
  BY <1>0, NoBegin
<1>2. NalsTo(data, c - 1) = <<>> /\ NalsTo(data, d - 1) = <<>>
  BY <1>0, <1>1, NothingBegun
<1>3. e \in Seq(Nat) /\ SubSeq(data, d, p) = e
  BY <1>0, SubSeqEmpty
<1>4. r \in ReaderStates /\ Holds(r, NalsTo(data, d - 1))
  BY <1>2 DEF Remains
<1> HIDE DEF e, d
<1>5. /\ SetBuffer(r, e) \in ReaderStates /\ SetBuffer(r, e).buffer = e
      /\ Holds(SetBuffer(r, e), NalsTo(data, d - 1))
  BY <1>3, <1>4, BufferSet
<1>6. Remains(SetBuffer(r, e), data, p, d)
  BY <1>0, <1>1, <1>3, <1>5 DEF Remains
<1>7. Settled(data, p, d)
  BY <1>1 DEF Settled, d
<1> QED BY <1>6, <1>7 DEF e, d

LEMMA RoundFindsFirst ==
  ASSUME NEW data \in Seq(Nat), NEW p \in 0..Len(data), NEW r \in ReaderStates,
         NEW f \in 1..p, f \in Begins(data), SizeTo(data, p, f) # 0,
         Holds(r, NalsTo(data, f - 1)),
         NoCode(data, p, f + SizeTo(data, p, f), p + 1)
  PROVE  Remains(SetBuffer(r, SubSeq(data, f, p)), data, p, f) /\ Settled(data, p, f)
<1> DEFINE b == SubSeq(data, f, p)
<1>1. f \in 1..p + 1
  OBVIOUS
<1>2. b \in Seq(Nat)
  BY <1>1, SliceIs
<1> HIDE DEF b
<1>3. /\ SetBuffer(r, b) \in ReaderStates /\ SetBuffer(r, b).buffer = b
      /\ Holds(SetBuffer(r, b), NalsTo(data, f - 1))
  BY <1>2, BufferSet
<1> QED BY <1>1, <1>3 DEF Remains, Settled, b

LEMMA RoundFindsSecond ==
  ASSUME NEW data \in Seq(Nat), NEW p \in 0..Len(data), NEW r \in ReaderStates,
         NEW f \in 1..p, NEW g \in f + 1..p, g \in Begins(data), SizeTo(data, p, g) # 0,
         Holds(r, NalsTo(data, f - 1)),
         NalsTo(data, g - 1) = Append(NalsTo(data, f - 1), SubSeq(data, f, g - 1)),
         StartCodeSize(SubSeq(data, f, g - 1), 1) # 0
  PROVE  Remains(ProcessNal(SetBuffer(r, SubSeq(data, g, p)), SubSeq(data, f, g - 1)),
                 data, p, g)
<1> DEFINE b == SubSeq(data, g, p)
           x == SubSeq(data, f, g - 1)
           nals == NalsTo(data, f - 1)
           q == SetBuffer(r, b)
<1>1. g \in 1..p + 1 /\ f - 1 \in 0..Len(data) /\ g - 1 \in 0..Len(data)
      /\ f \in 1..(g - 1) + 1
  OBVIOUS
<1>2. b \in Seq(Nat) /\ x \in Seq(Nat)
  BY <1>1, SliceIs
<1>3. nals \in Seq(Seq(Nat))
  BY <1>1, NalsToType
<1>4. StartCodeSize(x, 1) # 0 /\ NalsTo(data, g - 1) = Append(nals, x) /\ Holds(r, nals)
  OBVIOUS
<1> HIDE DEF b, x, nals
<1>5. q \in ReaderStates /\ q.buffer = b /\ Holds(q, nals)
  BY <1>2, <1>4, BufferSet
<1> HIDE DEF q
<1>6. /\ ProcessNal(q, x) \in ReaderStates /\ ProcessNal(q, x).buffer = b
      /\ Holds(ProcessNal(q, x), Append(nals, x))
  BY <1>2, <1>3, <1>4, <1>5, HoldsOneMore
<1> QED BY <1>1, <1>4, <1>6 DEF Remains, q, b, x

LEMMA NextNalRound ==
  ASSUME NEW data \in Seq(Nat), NEW p \in 0..Len(data), NEW c, NEW r,
         Remains(r, data, p, c), ~CutsFirstCode(data, p)
  PROVE  \E d \in 1..p + 1 :
           /\ Remains(NextNal(r), data, p, d)
           /\ Settled(data, p, d) \/ (d >= c + 3 /\ ~Settled(data, p, c))
<1> DEFINE buffer == SubSeq(data, c, p)
           first == FindStartCode(buffer, 1)
           rest == SubSeq(buffer, first, Len(buffer))
           second == FindStartCode(rest, StartCodeSize(rest, 1) + 1)
<1>0. /\ Len(data) \in Nat /\ c \in 1..p + 1 /\ r \in ReaderStates /\ r.buffer = buffer
      /\ Holds(r, NalsTo(data, c - 1))
      /\ (c \in Begins(data) /\ SizeTo(data, p, c) # 0) \/ NoneBefore(data, c)
  BY DEF Remains
<1>1. NextNal(r) = IF first = 0 THEN SetBuffer(r, <<>>)
                   ELSE IF second = 0 THEN SetBuffer(r, rest)
                   ELSE ProcessNal(SetBuffer(r, SubSeq(rest, second, Len(rest))),
                                   SubSeq(rest, 1, second - 1))
  BY <1>0 DEF NextNal, SetBuffer
<1> HIDE DEF first, second
<1>2. \/ first = 0 /\ NoneBefore(data, c) /\ NoCode(data, p, c, p + 1)
      \/ \E f \in c..p :
           /\ first \in 1..p - c + 1 /\ f = c + first - 1 /\ f \in Begins(data)
           /\ SizeTo(data, p, f) # 0 /\ NalsTo(data, f - 1) = NalsTo(data, c - 1)
           /\ (c \in Begins(data) /\ SizeTo(data, p, c) # 0) => f = c
  BY <1>0, FirstIs DEF first
<1>3. CASE first = 0 /\ NoneBefore(data, c) /\ NoCode(data, p, c, p + 1)
  <2>1. Remains(SetBuffer(r, <<>>), data, p, p + 1) /\ Settled(data, p, p + 1)
    BY <1>3, RoundFindsNone
  <2>2. NextNal(r) = SetBuffer(r, <<>>)
    BY <1>1, <1>3
  <2>3. p + 1 \in 1..p + 1
    OBVIOUS
  <2> QED BY <2>1, <2>2, <2>3
<1>4. ASSUME NEW f \in c..p, first \in 1..p - c + 1, f = c + first - 1,
             f \in Begins(data), SizeTo(data, p, f) # 0,
             NalsTo(data, f - 1) = NalsTo(data, c - 1),
             (c \in Begins(data) /\ SizeTo(data, p, c) # 0) => f = c
      PROVE  \E d \in 1..p + 1 :
               /\ Remains(NextNal(r), data, p, d)
               /\ Settled(data, p, d) \/ (d >= c + 3 /\ ~Settled(data, p, c))
  <2>1. /\ f \in 1..p /\ f \in 1..p + 1 /\ c \in 1..p /\ first # 0 /\ c >= 1 /\ f >= c
        /\ p - c + 1 \in 1..p - c + 1 /\ c + (p - c + 1) - 1 = p
    BY <1>0, <1>4
  <2>2. Len(buffer) = p - c + 1
    BY <1>0, SliceIs
  <2>3. rest = SubSeq(data, f, p)
    BY <1>4, <2>1, <2>2, SliceOfSlice
  <2>4. Len(rest) = p - f + 1 /\ StartCodeSize(rest, 1) = SizeTo(data, p, f)
    <3>1. 1 \in Nat \ {0} /\ f + 1 - 1 = f
      BY <2>1
    <3> QED BY <2>1, <2>3, <3>1, SliceIs, SizeInSlice
  <2>5. second = FindStartCode(SubSeq(data, f, p), SizeTo(data, p, f) + 1)
    BY <2>3, <2>4 DEF second
  <2> HIDE DEF buffer, rest
  <2>6. Holds(r, NalsTo(data, f - 1))
    BY <1>0, <1>4
  <2>7. CASE second = 0 /\ NoCode(data, p, f + SizeTo(data, p, f), p + 1)
    <3>1. NextNal(r) = SetBuffer(r, SubSeq(data, f, p))
      BY <1>1, <2>1, <2>3, <2>7
    <3>2. Remains(SetBuffer(r, SubSeq(data, f, p)), data, p, f) /\ Settled(data, p, f)
      BY <1>0, <1>4, <2>1, <2>6, <2>7, RoundFindsFirst
    <3> QED BY <2>1, <3>1, <3>2
  <2>8. ASSUME NEW g \in f + SizeTo(data, p, f)..p, g = f + second - 1, second \in Nat,
               g >= f + 3, g \in Begins(data), SizeTo(data, p, g) # 0,
               NalsTo(data, g - 1) = Append(NalsTo(data, f - 1), SubSeq(data, f, g - 1)),
               StartCodeSize(SubSeq(data, f, g - 1), 1) # 0
        PROVE  \E d \in 1..p + 1 :
                 /\ Remains(NextNal(r), data, p, d)
                 /\ Settled(data, p, d) \/ (d >= c + 3 /\ ~Settled(data, p, c))
    <3>1. SizeTo(data, p, f) \in Nat
      BY DEF SizeTo
    <3>2. /\ g \in f + 1..p /\ g \in 1..p + 1 /\ g >= c + 3 /\ second # 0
          /\ second \in 1..p - f + 1 /\ second - 1 \in 1..p - f + 1
          /\ f + 1 - 1 = f /\ f + (second - 1) - 1 = g - 1
          /\ p - f + 1 \in 1..p - f + 1 /\ f + (p - f + 1) - 1 = p /\ 1 \in 1..p - f + 1
      <4>1. f \in Nat /\ c \in Nat /\ f >= c /\ f >= 1 /\ f <= p
        BY <1>0, <2>1
      <4>2. g \in Nat /\ g >= f + 3 /\ g <= p
        BY <2>8, <3>1, <4>1
      <4>3. g = f + second - 1 /\ second \in Nat
        BY <2>8
      <4>4. second - 1 >= 3 /\ second - 1 = g - f
        BY <4>1, <4>2, <4>3
      <4> QED BY <4>1, <4>2, <4>3, <4>4
    <3>3. SubSeq(rest, second, Len(rest)) = SubSeq(data, g, p)
      BY <2>1, <2>3, <2>4, <2>8, <3>2, SliceOfSlice
    <3>4. SubSeq(rest, 1, second - 1) = SubSeq(data, f, g - 1)
      BY <2>1, <2>3, <3>2, SliceOfSlice
    <3>5. NextNal(r) = ProcessNal(SetBuffer(r, SubSeq(data, g, p)), SubSeq(data, f, g - 1))
      BY <1>1, <2>1, <3>2, <3>3, <3>4
    <3>6. Remains(NextNal(r), data, p, g)
      BY <1>0, <2>1, <2>6, <2>8, <3>2, <3>5, RoundFindsSecond
    <3>7. ~Settled(data, p, c)
      <4>1. c # p + 1
        BY <2>1
      <4>2. ASSUME c \in Begins(data), SizeTo(data, p, c) # 0,
                   NoCode(data, p, c + SizeTo(data, p, c), p + 1)
            PROVE  FALSE
        <5>1. f = c
          BY <1>4, <4>2
        <5>2. g \in c + SizeTo(data, p, c)..(p + 1) - 1
          BY <2>8, <3>1, <3>2, <5>1
        <5> QED BY <2>8, <4>2, <5>2 DEF NoCode
      <4> QED BY <4>1, <4>2 DEF Settled
    <3> QED BY <3>2, <3>6, <3>7
  <2>9. IsSecond(data, p, f, second)
    BY <1>4, <2>5, SecondIs
  <2> QED BY <2>7, <2>8, <2>9 DEF IsSecond
<1> QED BY <1>2, <1>3, <1>4

-----------------------------------------------------------------------------
(* The inner loop: as many rounds as Drain has settle the buffer. *)
AfterRounds(f, n, r) ==
  f = [k \in 0..n |-> IF k = 0 THEN r ELSE NextNal(f[k - 1])]

LEMMA DrainIs ==
  ASSUME NEW r
  PROVE  LET n == Len(r.buffer) \div 3 + 1
         IN Drain(r) = (CHOOSE f : AfterRounds(f, n, r))[n]
BY DEF Drain, AfterRounds

(* f takes these rounds as long as they lead to states of the thread. *)
TakesRounds(f, n, r) ==
  /\ f[0] = r
  /\ \A k \in 1..n : NextNal(f[k - 1]) \in ReaderStates => f[k] = NextNal(f[k - 1])

After(f, k, data, p, c) ==
  \E d \in 1..p + 1 : Remains(f[k], data, p, d) /\ (Settled(data, p, d) \/ d >= c + 3 * k)

LEMMA RoundsProgress ==
  ASSUME NEW data \in Seq(Nat), NEW p \in 0..Len(data), NEW c \in 1..p + 1, NEW r,
         Remains(r, data, p, c), ~CutsFirstCode(data, p), NEW n \in Nat, NEW f,
         TakesRounds(f, n, r)
  PROVE  \A k \in 0..n : f[k] \in ReaderStates /\ After(f, k, data, p, c)
                         /\ (k < n => NextNal(f[k]) \in ReaderStates)
<1> DEFINE T == {k \in 0..n : After(f, k, data, p, c)}
<1>1. 0 \in T
  <2>1. c >= c + 3 * 0
    OBVIOUS
  <2>2. f[0] = r
    BY DEF TakesRounds
  <2> QED BY <2>1, <2>2 DEF After
<1>2. ASSUME NEW k \in 0..n, k \in T
      PROVE  /\ f[k] \in ReaderStates
             /\ \E d \in 1..p + 1, e \in 1..p + 1 :
                  /\ Settled(data, p, d) \/ d >= c + 3 * k
                  /\ Remains(NextNal(f[k]), data, p, e)
                  /\ Settled(data, p, e) \/ (e >= d + 3 /\ ~Settled(data, p, d))
  <2>1. PICK d \in 1..p + 1 : /\ Remains(f[k], data, p, d)
                              /\ Settled(data, p, d) \/ d >= c + 3 * k
    BY <1>2 DEF After
  <2>2. PICK e \in 1..p + 1 :
          /\ Remains(NextNal(f[k]), data, p, e)
          /\ Settled(data, p, e) \/ (e >= d + 3 /\ ~Settled(data, p, d))
    BY <2>1, NextNalRound
  <2>3. f[k] \in ReaderStates
    BY <2>1 DEF Remains
  <2> QED BY <2>1, <2>2, <2>3
<1>3. ASSUME NEW k \in 0..n - 1, k \in T PROVE k + 1 \in T
  <2>1. k \in 0..n /\ k + 1 \in 0..n /\ k + 1 \in 1..n /\ (k + 1) - 1 = k
    OBVIOUS
  <2>2. PICK d \in 1..p + 1, e \in 1..p + 1 :
          /\ Settled(data, p, d) \/ d >= c + 3 * k
          /\ Remains(NextNal(f[k]), data, p, e)
          /\ Settled(data, p, e) \/ (e >= d + 3 /\ ~Settled(data, p, d))
    BY <1>2, <1>3, <2>1
  <2>3. NextNal(f[k]) \in ReaderStates
    BY <2>2 DEF Remains
  <2>4. f[k + 1] = NextNal(f[k])
    BY <2>1, <2>3 DEF TakesRounds
  <2>5. Settled(data, p, e) \/ e >= c + 3 * (k + 1)
    <3>1. d >= c + 3 * k /\ e >= d + 3 => e >= c + 3 * (k + 1)
      OBVIOUS
    <3> QED BY <2>2, <3>1
  <2> QED BY <2>1, <2>2, <2>4, <2>5 DEF After
<1>4. ASSUME NEW k \in 0..n PROVE k \in T
  <2>1. 0 \in Nat
    OBVIOUS
  <2> HIDE DEF T
  <2> QED BY <1>1, <1>3, <2>1, UpFrom
<1>5. ASSUME NEW k \in 0..n PROVE NextNal(f[k]) \in ReaderStates
  BY <1>2, <1>4 DEF Remains
<1> QED BY <1>2, <1>4, <1>5

RoundSteps(n) ==
  [k \in 1..n |-> [s \in ReaderStates |->
                     IF NextNal(s) \in ReaderStates THEN NextNal(s) ELSE s]]

LEMMA RoundsExist ==
  ASSUME NEW data \in Seq(Nat), NEW p \in 0..Len(data), NEW c \in 1..p + 1, NEW r,
         Remains(r, data, p, c), ~CutsFirstCode(data, p), NEW n \in Nat
  PROVE  \E f : AfterRounds(f, n, r)
<1> DEFINE S == ReaderStates
           step == RoundSteps(n)
<1>1. r \in S
  BY DEF Remains
<1>2. step \in [1..n -> [S -> S]]
  BY DEF RoundSteps
<1>3. PICK g \in [0..n -> S] : Runs(g, n, r, step)
  BY <1>1, <1>2, RunExists
<1>4. \A k \in 1..n : g[k] = IF NextNal(g[k - 1]) \in S THEN NextNal(g[k - 1]) ELSE g[k - 1]
  <2> TAKE k \in 1..n
  <2>1. k - 1 \in 0..n /\ g[k - 1] \in S
    BY <1>3
  <2> QED BY <1>3, <2>1 DEF Runs, RoundSteps
<1>5. TakesRounds(g, n, r)
  BY <1>3, <1>4 DEF TakesRounds, Runs
<1>6. ASSUME NEW k \in 1..n PROVE g[k] = NextNal(g[k - 1])
  <2>1. k - 1 \in 0..n /\ k - 1 < n
    OBVIOUS
  <2>2. NextNal(g[k - 1]) \in S
    BY <1>5, <2>1, RoundsProgress
  <2> QED BY <1>4, <2>2
<1>7. g = [k \in 0..n |-> g[k]]
  BY <1>3
<1>8. \A k \in 0..n : g[k] = IF k = 0 THEN r ELSE NextNal(g[k - 1])
  BY <1>3, <1>6 DEF Runs
<1> QED BY <1>7, <1>8, Zenon DEF AfterRounds

LEMMA DrainSettles ==
  ASSUME NEW data \in Seq(Nat), NEW p \in 0..Len(data), NEW c \in 1..p + 1, NEW r,
         Remains(r, data, p, c), ~CutsFirstCode(data, p)
  PROVE  \E d \in 1..p + 1 : Remains(Drain(r), data, p, d) /\ Settled(data, p, d)
<1> DEFINE n == Len(r.buffer) \div 3 + 1
<1>1. Len(r.buffer) = p - c + 1 /\ Len(r.buffer) \in Nat
  BY SliceIs DEF Remains
<1>2. n \in Nat /\ 3 * n > p - c + 1
  BY <1>1
<1>3. Drain(r) = (CHOOSE f : AfterRounds(f, n, r))[n]
  BY DrainIs
<1> HIDE DEF n
<1>4. \E f : AfterRounds(f, n, r)
  BY <1>2, RoundsExist
<1>5. PICK h : h = (CHOOSE f : AfterRounds(f, n, r)) /\ AfterRounds(h, n, r)
  BY <1>4, Zenon
<1>6. TakesRounds(h, n, r)
  <2>1. \A k \in 0..n : h[k] = IF k = 0 THEN r ELSE NextNal(h[k - 1])
    BY <1>5 DEF AfterRounds
  <2>2. 0 \in 0..n /\ \A k \in 1..n : k \in 0..n /\ k # 0
    BY <1>2
  <2> QED BY <2>1, <2>2 DEF TakesRounds
<1>7. n \in 0..n
  BY <1>2
<1>8. After(h, n, data, p, c)
  BY <1>2, <1>6, <1>7, RoundsProgress
<1>9. PICK d \in 1..p + 1 :
        Remains(h[n], data, p, d) /\ (Settled(data, p, d) \/ d >= c + 3 * n)
  BY <1>8 DEF After
<1>10. ~(d >= c + 3 * n)
  BY <1>2
<1> QED BY <1>3, <1>5, <1>9, <1>10
-----------------------------------------------------------------------------
(* A read puts its bytes behind those that remain and settles the buffer. *)
LEMMA RemainsWithMore ==
  ASSUME NEW data \in Seq(Nat), NEW p \in 0..Len(data), NEW c, NEW r,
         Remains(r, data, p, c), NEW q \in p..Len(data)
  PROVE  Remains(SetBuffer(r, SubSeq(data, c, q)), data, q, c)
<1> DEFINE b == SubSeq(data, c, q)
           nals == NalsTo(data, c - 1)
<1>0. /\ Len(data) \in Nat /\ c \in 1..p + 1 /\ r \in ReaderStates /\ Holds(r, nals)
      /\ (c \in Begins(data) /\ SizeTo(data, p, c) # 0) \/ NoneBefore(data, c)
  BY DEF Remains
<1>1. c \in 1..q + 1 /\ q \in 0..Len(data)
  BY <1>0
<1>2. b \in Seq(Nat)
  BY <1>1, SliceIs
<1> HIDE DEF b, nals
<1>3. /\ SetBuffer(r, b) \in ReaderStates /\ SetBuffer(r, b).buffer = b
      /\ Holds(SetBuffer(r, b), nals)
  BY <1>0, <1>2, BufferSet
<1>4. SizeTo(data, p, c) # 0 => SizeTo(data, q, c) # 0
  BY <1>0 DEF SizeTo
<1> QED BY <1>0, <1>1, <1>3, <1>4 DEF Remains, b, nals

LEMMA ChunkSettles ==
  ASSUME NEW data \in Seq(Nat), NEW p \in 0..Len(data), NEW c, NEW r,
         Remains(r, data, p, c), NEW q \in p..Len(data), ~CutsFirstCode(data, q)
  PROVE  \E d \in 1..q + 1 :
           /\ Remains(ReadChunk(r, SubSeq(data, p + 1, q)), data, q, d)
           /\ Settled(data, q, d)
<1> DEFINE chunk == SubSeq(data, p + 1, q)
           more == SetBuffer(r, SubSeq(data, c, q))
<1>0. Len(data) \in Nat /\ c \in 1..p + 1 /\ r.buffer = SubSeq(data, c, p)
  BY DEF Remains
<1>1. c \in 1..Len(data) + 1 /\ p \in c - 1..Len(data) /\ c \in 1..q + 1
      /\ q \in 0..Len(data)
  BY <1>0
<1>2. r.buffer \o chunk = SubSeq(data, c, q)
  BY <1>0, <1>1, ConcatAdjacentSubSeq
<1>3. ReadChunk(r, chunk) = Drain(more)
  <2>1. ReadChunk(r, chunk) = Drain(SetBuffer(r, r.buffer \o chunk))
    BY DEF ReadChunk, SetBuffer
  <2> QED BY <1>2, <2>1
<1>4. Remains(more, data, q, c)
  BY RemainsWithMore
<1> HIDE DEF chunk, more
<1>5. \E d \in 1..q + 1 : Remains(Drain(more), data, q, d) /\ Settled(data, q, d)
  BY <1>1, <1>4, DrainSettles
<1> QED BY <1>3, <1>5 DEF chunk

LEMMA FreshRemains ==
  ASSUME NEW data \in Seq(Nat)
  PROVE  Remains(Fresh, data, 0, 1)
<1>0. Len(data) \in Nat /\ 1 \in 1..0 + 1 /\ 1 - 1 = 0
  OBVIOUS
<1>1. Fresh \in ReaderStates
  BY DEF Fresh, ReaderStates, States
<1>2. Fresh.buffer = SubSeq(data, 1, 0)
  <2>1. SubSeq(data, 1, 0) = <<>>
    BY SubSeqEmpty
  <2> QED BY <2>1 DEF Fresh
<1>3. Holds(Fresh, NalsTo(data, 1 - 1))
  <2>1. NalsTo(data, 1 - 1) = <<>>
    BY <1>0, PiecesToNothing DEF NalsTo
  <2>2. ~Open(<<>>, Len(<<>>) + 1)
    BY DEF Open
  <2>3. Fresh.units = <<>> /\ Fresh.unit = <<>> /\ Fresh.vcl = FALSE
    BY DEF Fresh
  <2> QED BY <2>1, <2>2, <2>3 DEF Holds
<1>4. NoneBefore(data, 1)
  BY BeginsAre DEF NoneBefore
<1> QED BY <1>0, <1>1, <1>2, <1>3, <1>4 DEF Remains

-----------------------------------------------------------------------------
(* The reads of a stream, where each ends, and the thread after each. *)
AreEnds(data, ends) ==
  /\ ends \in Seq(0..Len(data))
  /\ \A k \in 2..Len(ends) : ends[k - 1] <= ends[k]
  /\ \A k \in DOMAIN ends : ~CutsFirstCode(data, ends[k])

EndOf(data, ends, k) ==
  IF k = 0 THEN 0 ELSE IF k > Len(ends) THEN Len(data) ELSE ends[k]

LEMMA EndCutsNothing ==
  ASSUME NEW data \in Seq(Nat)
  PROVE  ~CutsFirstCode(data, Len(data))
<1>1. SUFFICES ASSUME CutsFirstCode(data, Len(data)) PROVE FALSE
  OBVIOUS
<1>2. Begins(data) # {} /\ Begins(data) \subseteq Nat /\ Len(data) \in Nat
      /\ Len(data) \in 0..Len(data)
  BY <1>1, BeginsAre DEF CutsFirstCode
<1>3. PICK m \in Begins(data) : \A y \in Begins(data) : y >= m
  BY <1>2, Least
<1>4. Min(Begins(data)) = m
  <2>1. \A x \in Begins(data) : (\A y \in Begins(data) : x <= y) => x = m
    <3> SUFFICES ASSUME NEW x \in Begins(data), \A y \in Begins(data) : x <= y
                 PROVE  x = m
      OBVIOUS
    <3>1. x <= m /\ m <= x /\ x \in Nat /\ m \in Nat
      BY <1>2, <1>3
    <3> QED BY <3>1
  <2>2. \A y \in Begins(data) : m <= y
    BY <1>2, <1>3
  <2> QED BY <2>1, <2>2 DEF Min
<1>5. /\ m \in 1..Len(data) /\ CodeEnd(data, m) \in m + 2..m + 3
      /\ CodeEnd(data, m) <= Len(data)
      /\ StartCodeSize(data, m) = CodeEnd(data, m) - m + 1
  <2>1. m \in Nat \ {0}
    BY BeginsAre
  <2> QED BY <1>2, <1>3, <2>1, SizeIs, CodeOfBegin
<1>6. Len(data) \in m..m + StartCodeSize(data, m) - 2
  BY <1>1, <1>4 DEF CutsFirstCode
<1>7. PICK e \in m + 2..m + 3 : e <= Len(data) /\ Len(data) \in m..m + (e - m + 1) - 2
  BY <1>5, <1>6
<1> QED BY <1>2, <1>5, <1>7

LEMMA EndsGrow ==
  ASSUME NEW data \in Seq(Nat), NEW ends, AreEnds(data, ends),
         NEW k \in 1..Len(ends) + 1
  PROVE  /\ EndOf(data, ends, k - 1) \in 0..Len(data)
         /\ EndOf(data, ends, k) \in EndOf(data, ends, k - 1)..Len(data)
         /\ ~CutsFirstCode(data, EndOf(data, ends, k))
         /\ Reads(data, ends)[k]
              = SubSeq(data, EndOf(data, ends, k - 1) + 1, EndOf(data, ends, k))
<1> DEFINE n == Len(ends)
<1>0. Len(data) \in Nat /\ n \in Nat /\ DOMAIN ends = 1..n
      /\ \A i \in 1..n : ends[i] \in 0..Len(data)
  BY DEF AreEnds
<1>1. k \in Nat /\ k # 0 /\ k - 1 \in Nat
  BY <1>0
<1>2. EndOf(data, ends, k) = IF k > n THEN Len(data) ELSE ends[k]
  BY <1>1 DEF EndOf
<1>3. EndOf(data, ends, k - 1) = IF k = 1 THEN 0 ELSE ends[k - 1]
  BY <1>0, <1>1 DEF EndOf
<1>4. k # 1 => k - 1 \in 1..n
  BY <1>0
<1>5. k # 1 /\ ~(k > n) => ends[k - 1] <= ends[k]
  <2>1. k # 1 /\ ~(k > n) => k \in 2..n
    BY <1>0
  <2> QED BY <2>1 DEF AreEnds
<1>6. ~(k > n) => k \in 1..n
  BY <1>0
<1>7. EndOf(data, ends, k - 1) \in 0..Len(data)
  BY <1>0, <1>3, <1>4
<1>8. EndOf(data, ends, k) \in EndOf(data, ends, k - 1)..Len(data)
  <2>1. CASE k > n
    BY <1>0, <1>2, <1>7, <2>1
  <2>2. CASE ~(k > n)
    BY <1>0, <1>2, <1>3, <1>4, <1>5, <1>6, <2>2
  <2> QED BY <2>1, <2>2
<1>9. ~CutsFirstCode(data, EndOf(data, ends, k))
  BY <1>0, <1>2, <1>6, EndCutsNothing DEF AreEnds
<1>10. Reads(data, ends)[k]
         = SubSeq(data, EndOf(data, ends, k - 1) + 1, EndOf(data, ends, k))
  <2>1. Reads(data, ends)[k]
          = SubSeq(data, IF k = 1 THEN 1 ELSE ends[k - 1] + 1,
                   IF k > Len(ends) THEN Len(data) ELSE ends[k])
    BY DEF Reads
  <2>2. (IF k = 1 THEN 1 ELSE ends[k - 1] + 1) = EndOf(data, ends, k - 1) + 1
    BY <1>3
  <2> QED BY <1>2, <2>1, <2>2
<1> QED BY <1>7, <1>8, <1>9, <1>10

AfterReads(f, n, chunks) ==
  f = [k \in 0..n |-> IF k = 0 THEN Fresh ELSE ReadChunk(f[k - 1], chunks[k])]

LEMMA AccessUnitsIs ==
  ASSUME NEW chunks
  PROVE  LET n == Len(chunks)
         IN AccessUnits(chunks) = ReadEnd((CHOOSE f : AfterReads(f, n, chunks))[n]).units
BY DEF AccessUnits, AfterReads

(* f takes these reads as long as they lead to states of the thread. *)
TakesReads(f, n, chunks) ==
  /\ f[0] = Fresh
  /\ \A k \in 1..n : LET next == ReadChunk(f[k - 1], chunks[k])
                     IN next \in ReaderStates => f[k] = next

(* After k reads. *)
StandsAt(r, k, data, ends) ==
  LET p == EndOf(data, ends, k)
  IN \E c \in 1..p + 1 : Remains(r, data, p, c) /\ (k # 0 => Settled(data, p, c))

LEMMA ReadSettles ==
  ASSUME NEW data \in Seq(Nat), NEW ends, AreEnds(data, ends),
         NEW k \in 1..Len(ends) + 1, NEW r, StandsAt(r, k - 1, data, ends)
  PROVE  StandsAt(ReadChunk(r, Reads(data, ends)[k]), k, data, ends)
<1> DEFINE p == EndOf(data, ends, k - 1)
           q == EndOf(data, ends, k)
           chunk == Reads(data, ends)[k]
<1>1. /\ p \in 0..Len(data) /\ q \in p..Len(data) /\ ~CutsFirstCode(data, q)
      /\ chunk = SubSeq(data, p + 1, q)
  BY EndsGrow
<1> HIDE DEF p, q, chunk
<1>2. PICK c : Remains(r, data, p, c)
  BY DEF StandsAt, p
<1>3. \E d \in 1..q + 1 : Remains(ReadChunk(r, chunk), data, q, d) /\ Settled(data, q, d)
  BY <1>1, <1>2, ChunkSettles
<1> QED BY <1>3 DEF StandsAt, q, chunk

LEMMA ReadsProgress ==
  ASSUME NEW data \in Seq(Nat), NEW ends, AreEnds(data, ends), NEW f,
         TakesReads(f, Len(ends) + 1, Reads(data, ends))
  PROVE  /\ \A k \in 0..Len(ends) + 1 : StandsAt(f[k], k, data, ends)
         /\ \A k \in 1..Len(ends) + 1 :
              ReadChunk(f[k - 1], Reads(data, ends)[k]) \in ReaderStates
<1> DEFINE n == Len(ends) + 1
           chunks == Reads(data, ends)
           T == {k \in 0..n : StandsAt(f[k], k, data, ends)}
<1>0. n \in Nat
  BY DEF AreEnds
<1>1. 0 \in T
  <2>1. Remains(Fresh, data, 0, 1) /\ EndOf(data, ends, 0) = 0 /\ f[0] = Fresh
    BY FreshRemains DEF EndOf, TakesReads
  <2>2. 1 \in 1..0 + 1 /\ 0 \in 0..n
    BY <1>0
  <2> QED BY <2>1, <2>2 DEF StandsAt
<1>2. ASSUME NEW k \in 1..n, k - 1 \in T
      PROVE  /\ StandsAt(ReadChunk(f[k - 1], chunks[k]), k, data, ends)
             /\ ReadChunk(f[k - 1], chunks[k]) \in ReaderStates
  <2>1. StandsAt(f[k - 1], k - 1, data, ends)
    BY <1>2
  <2>2. StandsAt(ReadChunk(f[k - 1], chunks[k]), k, data, ends)
    BY <2>1, ReadSettles
  <2> QED BY <2>2 DEF StandsAt, Remains
<1>3. ASSUME NEW k \in 0..n - 1, k \in T PROVE k + 1 \in T
  <2>1. k + 1 \in 1..n /\ (k + 1) - 1 = k /\ k + 1 \in 0..n
    BY <1>0
  <2>2. /\ StandsAt(ReadChunk(f[k], chunks[k + 1]), k + 1, data, ends)
        /\ ReadChunk(f[k], chunks[k + 1]) \in ReaderStates
    <3> DEFINE m == k + 1
    <3>1. m \in 1..n /\ m - 1 \in T /\ m - 1 = k
      BY <1>3, <2>1
    <3> HIDE DEF m, T
    <3>2. /\ StandsAt(ReadChunk(f[m - 1], chunks[m]), m, data, ends)
          /\ ReadChunk(f[m - 1], chunks[m]) \in ReaderStates
      BY <1>2, <3>1
    <3> QED BY <3>1, <3>2 DEF m
  <2>3. f[k + 1] = ReadChunk(f[k], chunks[k + 1])
    BY <2>1, <2>2 DEF TakesReads
  <2> QED BY <2>1, <2>2, <2>3
<1>4. ASSUME NEW k \in 0..n PROVE k \in T
  <2>1. 0 \in Nat
    OBVIOUS
  <2> HIDE DEF T
  <2> QED BY <1>0, <1>1, <1>3, <2>1, UpFrom
<1>5. ASSUME NEW k \in 1..n PROVE ReadChunk(f[k - 1], chunks[k]) \in ReaderStates
  <2>1. k - 1 \in 0..n
    BY <1>0
  <2> QED BY <1>2, <1>4, <2>1
<1> QED BY <1>4, <1>5

ReadSteps(n, chunks) ==
  [k \in 1..n |-> [s \in ReaderStates |->
                     IF ReadChunk(s, chunks[k]) \in ReaderStates
                     THEN ReadChunk(s, chunks[k]) ELSE s]]

LEMMA ReadsExist ==
  ASSUME NEW data \in Seq(Nat), NEW ends, AreEnds(data, ends)
  PROVE  \E f : AfterReads(f, Len(ends) + 1, Reads(data, ends))
<1> DEFINE S == ReaderStates
           n == Len(ends) + 1
           chunks == Reads(data, ends)
           step == ReadSteps(n, chunks)
           x == Fresh
<1>0. n \in Nat
  BY DEF AreEnds
<1>1. x \in S
  BY FreshRemains DEF Remains
<1>2. step \in [1..n -> [S -> S]]
  BY DEF ReadSteps
<1> HIDE DEF x
<1>3. PICK g \in [0..n -> S] : Runs(g, n, x, step)
  BY <1>0, <1>1, <1>2, RunExists
<1>4. \A k \in 1..n : g[k] = IF ReadChunk(g[k - 1], chunks[k]) \in S
                             THEN ReadChunk(g[k - 1], chunks[k]) ELSE g[k - 1]
  <2> TAKE k \in 1..n
  <2>1. k - 1 \in 0..n /\ g[k - 1] \in S
    BY <1>0, <1>3
  <2> QED BY <1>3, <2>1 DEF Runs, ReadSteps
<1>5. TakesReads(g, n, chunks)
  BY <1>3, <1>4 DEF TakesReads, Runs, x
<1>6. ASSUME NEW k \in 1..n PROVE g[k] = ReadChunk(g[k - 1], chunks[k])
  BY <1>4, <1>5, ReadsProgress
<1>7. g = [k \in 0..n |-> g[k]]
  BY <1>3
<1>8. \A k \in 0..n : g[k] = IF k = 0 THEN Fresh ELSE ReadChunk(g[k - 1], chunks[k])
  BY <1>3, <1>6 DEF Runs, x
<1> QED BY <1>7, <1>8, Zenon DEF AfterReads

-----------------------------------------------------------------------------
(* The end of the stream. *)
LEMMA FrontIs ==
  ASSUME NEW S, NEW s \in Seq(S), NEW x \in S
  PROVE  Front(Append(s, x)) = s
<1> DEFINE q == Append(s, x)
           n == Len(s)
<1>1. /\ q \in Seq(S) /\ Len(q) = n + 1 /\ n \in Nat
      /\ \A i \in 1..n : q[i] = s[i]
  BY AppendProperties, LenProperties
<1> HIDE DEF q, n
<1>2. Front(q) = SubSeq(q, 1, n)
  <2>1. (n + 1) - 1 = n
    BY <1>1
  <2> QED BY <1>1, <2>1 DEF Front
<1>3. /\ SubSeq(q, 1, n) \in Seq(S) /\ Len(SubSeq(q, 1, n)) = n
      /\ \A i \in 1..n : SubSeq(q, 1, n)[i] = q[i]
  <2>1. \A i \in 1..n : q[i] \in S
    BY <1>1, ElementOfSeq
  <2>2. 1 \in Int /\ n \in Int /\ n - 1 + 1 = n /\ \A i \in 1..n : 1 + i - 1 = i
    BY <1>1
  <2> QED BY <1>1, <2>1, <2>2, SubSeqProperties
<1>4. SubSeq(q, 1, n) = s
  BY <1>1, <1>3, SeqEqual DEF n
<1> QED BY <1>2, <1>4 DEF q

LEMMA EmitLast ==
  ASSUME NEW r \in ReaderStates, NEW nals \in Seq(Seq(Nat)), Holds(r, nals)
  PROVE  EmitCurrent(r).units
           = IF Open(nals, Len(nals) + 1) THEN UnitsOf(nals) ELSE Front(UnitsOf(nals))
<1> DEFINE S == Seq(Nat)
           units == EmitCurrent(r).units
<1>1. /\ r.vcl => units = Append(r.units, r.unit)
      /\ ~r.vcl => units = r.units
  BY EmitCurrentIs
<1> HIDE DEF units
<1>2. r.units \in Seq(S) /\ r.unit \in S
  BY ReaderFields
<1>3. r.vcl <=> Open(nals, Len(nals) + 1)
  BY DEF Holds
<1>4. CASE nals = <<>>
  <2>1. Len(nals) = 0 /\ ~Open(nals, Len(nals) + 1)
    BY <1>4 DEF Open
  <2>2. UnitsOf(nals) = <<>>
    BY <2>1, UnitsAre, PiecesToNothing
  <2>3. Front(<<>>) = <<>>
    <3>1. Front(<<>>) = SubSeq(<<>>, 1, Len(<<>>) - 1) /\ Len(<<>>) - 1 < 1
          /\ Len(<<>>) - 1 \in Int /\ 1 \in Int
      BY DEF Front
    <3> QED BY <3>1, SubSeqEmpty
  <2>4. units = <<>>
    BY <1>1, <1>3, <1>4, <2>1 DEF Holds
  <2> QED BY <2>1, <2>2, <2>3, <2>4 DEF units
<1>5. CASE nals # <<>>
  <2>1. UnitsOf(nals) = Append(r.units, r.unit)
    BY <1>5 DEF Holds
  <2> HIDE DEF S
  <2>2. Front(Append(r.units, r.unit)) = r.units
    BY <1>2, FrontIs
  <2> QED BY <1>1, <1>3, <2>1, <2>2 DEF units
<1> QED BY <1>4, <1>5

LEMMA LastNal ==
  ASSUME NEW data \in Seq(Nat), NEW c \in Begins(data),
         NoCode(data, Len(data), c + SizeTo(data, Len(data), c), Len(data) + 1)
  PROVE  NoneBetween(data, c, Len(data) + 1)
<1> DEFINE n == Len(data)
<1>0. n \in Nat /\ n \in 0..n
  OBVIOUS
<1>1. /\ c \in 1..n /\ CodeEnd(data, c) \in Nat
      /\ c + SizeTo(data, n, c) = CodeEnd(data, c) + 1
  <2>1. /\ c \in 1..n /\ CodeEnd(data, c) \in c + 2..c + 3 /\ CodeEnd(data, c) <= n
        /\ SizeTo(data, n, c) = IF CodeEnd(data, c) <= n THEN CodeEnd(data, c) - c + 1
                                ELSE 0
    BY <1>0, CodeOfBegin
  <2> QED BY <2>1
<1>2. ASSUME NEW b \in Begins(data), c < b, b < n + 1 PROVE FALSE
  <2>1. /\ b \in 1..n /\ CodeEnd(data, b) \in b + 2..b + 3 /\ CodeEnd(data, b) <= n
        /\ SizeTo(data, n, b) = IF CodeEnd(data, b) <= n THEN CodeEnd(data, b) - b + 1
                                ELSE 0
    BY <1>0, CodeOfBegin
  <2>2. SizeTo(data, n, b) # 0
    BY <2>1
  <2>3. b > CodeEnd(data, c)
    BY <1>2, BeginsApart
  <2>4. b \in c + SizeTo(data, n, c)..(n + 1) - 1
    BY <1>0, <1>1, <2>1, <2>3
  <2> QED BY <2>2, <2>4 DEF NoCode
<1> QED BY <1>2 DEF NoneBetween

LEMMA EndIsReference ==
  ASSUME NEW data \in Seq(Nat), NEW c, NEW r, Remains(r, data, Len(data), c),
         Settled(data, Len(data), c)
  PROVE  ReadEnd(r).units = Reference(data)
<1> DEFINE n == Len(data)
           nals == Nals(data)
<1>0. /\ n \in Nat /\ n \in 0..n /\ c \in 1..n + 1 /\ r \in ReaderStates
      /\ r.buffer = SubSeq(data, c, n) /\ Holds(r, NalsTo(data, c - 1))
  BY DEF Remains
<1>1. nals = NalsTo(data, n) /\ nals \in Seq(Seq(Nat))
  BY <1>0, NalsAre, NalsToType
<1>2. Reference(data)
        = IF Open(nals, Len(nals) + 1) THEN UnitsOf(nals) ELSE Front(UnitsOf(nals))
  BY DEF Reference
<1>3. CASE c = n + 1
  <2>1. r.buffer = <<>>
    BY <1>0, <1>3, SubSeqEmpty
  <2>2. Holds(r, nals)
    <3>1. c - 1 = n
      BY <1>0, <1>3
    <3> QED BY <1>0, <1>1, <3>1
  <2>3. ReadEnd(r) = EmitCurrent(r)
    BY <2>1 DEF ReadEnd
  <2> HIDE DEF nals
  <2> QED BY <1>0, <1>1, <1>2, <2>2, <2>3, EmitLast
<1>4. CASE /\ c \in Begins(data) /\ SizeTo(data, n, c) # 0
           /\ NoCode(data, n, c + SizeTo(data, n, c), n + 1)
  <2> DEFINE x == SubSeq(data, c, n)
             before == NalsTo(data, c - 1)
  <2>1. c \in 1..n /\ n \in c..n /\ c - 1 \in 0..n
    BY <1>0, <1>4, BeginsAre
  <2>2. x \in Seq(Nat) /\ Len(x) = n - c + 1
    BY <1>0, SliceIs
  <2>3. r.buffer # <<>>
    <3>1. Len(x) # 0
      BY <1>0, <2>1, <2>2
    <3> HIDE DEF x
    <3>2. x # <<>>
      BY <3>1
    <3> QED BY <1>0, <3>2 DEF x
  <2>4. StartCodeSize(x, 1) # 0
    <3>1. 1 \in Nat \ {0} /\ c + 1 - 1 = c
      BY <1>0
    <3> QED BY <1>0, <1>4, <3>1, SizeInSlice
  <2>5. nals = Append(before, x)
    BY <1>1, <1>4, <2>1, LastNal, OneNal
  <2>6. before \in Seq(Seq(Nat))
    BY <2>1, NalsToType
  <2>7. ReadEnd(r) = EmitCurrent(ProcessNal(r, x))
    BY <1>0, <2>3 DEF ReadEnd
  <2>8. r \in ReaderStates /\ Holds(r, before)
    BY <1>0
  <2> HIDE DEF x, before, nals
  <2>9. ProcessNal(r, x) \in ReaderStates /\ Holds(ProcessNal(r, x), nals)
    BY <2>2, <2>4, <2>5, <2>6, <2>8, HoldsOneMore
  <2> QED BY <1>1, <1>2, <2>7, <2>9, EmitLast
<1> QED BY <1>3, <1>4 DEF Settled

-----------------------------------------------------------------------------
(* However ffmpeg's output is cut into reads, of any number and length, as *)
(* long as none ends within the first start code of the stream, the reader *)
(* thread makes the access units of the stream as a whole (_reader_loop and *)
(* _process_nal, video.py 285-328).                                        *)
THEOREM UnitsComeFromTheStream ==
  ASSUME NEW data \in Seq(Nat), NEW ends, AreEnds(data, ends)
  PROVE  AccessUnits(Reads(data, ends)) = Reference(data)
<1> DEFINE n == Len(ends) + 1
           chunks == Reads(data, ends)
<1>0. n \in Nat /\ n \in 0..n /\ n # 0
  BY DEF AreEnds
<1>1. Len(chunks) = n
  BY <1>0 DEF Reads
<1>2. AccessUnits(chunks) = ReadEnd((CHOOSE f : AfterReads(f, n, chunks))[n]).units
  BY <1>1, AccessUnitsIs
<1>3. PICK h : h = (CHOOSE f : AfterReads(f, n, chunks)) /\ AfterReads(h, n, chunks)
  <2>1. \E f : AfterReads(f, n, chunks)
    BY ReadsExist
  <2> HIDE DEF n, chunks
  <2> QED BY <2>1, Zenon
<1>4. TakesReads(h, n, chunks)
  <2> HIDE DEF n, chunks
  <2>1. \A k \in 0..n : h[k] = IF k = 0 THEN Fresh ELSE ReadChunk(h[k - 1], chunks[k])
    BY <1>3 DEF AfterReads
  <2>2. 0 \in 0..n /\ \A k \in 1..n : k \in 0..n /\ k # 0
    BY <1>0
  <2> QED BY <2>1, <2>2 DEF TakesReads
<1>5. StandsAt(h[n], n, data, ends)
  BY <1>0, <1>4, ReadsProgress
<1>6. EndOf(data, ends, n) = Len(data)
  <2>1. n > Len(ends)
    BY DEF AreEnds
  <2> QED BY <1>0, <2>1 DEF EndOf
<1>7. PICK c : Remains(h[n], data, Len(data), c) /\ Settled(data, Len(data), c)
  BY <1>0, <1>5, <1>6 DEF StandsAt
<1>8. ReadEnd(h[n]).units = Reference(data)
  BY <1>7, EndIsReference
<1> QED BY <1>2, <1>3, <1>8

(* The access units and the pictures of a list of NAL units: the first     *)
(* slices of two pictures are in different units, every unit has a slice   *)
(* before the next begins, and no unit begins among the slices of one.     *)
UnitsArePictures(nals) ==
  /\ \A k \in 1..Len(nals), m \in 1..Len(nals) :
       k < m /\ FirstSlice(nals[k]) /\ FirstSlice(nals[m])
         => \E b \in UnitBegins(nals) : k < b /\ b <= m
  /\ \A b \in UnitBegins(nals), d \in UnitBegins(nals) :
       b < d => \E k \in b..d - 1 : IsVcl(nals[k])
  /\ \A k \in 1..Len(nals), m \in 1..Len(nals) :
       (\A i \in k + 1..m : ~IsAud(nals[i]) /\ ~FirstSlice(nals[i]))
         => \A b \in UnitBegins(nals) : ~(k < b /\ b <= m)

(* What _process_nal makes of any list of NAL units is one access unit for *)
(* a picture: it does not join two, nor split one, nor emit one without a  *)
(* slice before the end (video.py 285-303).                                *)
THEOREM OnePictureInAUnit ==
  ASSUME NEW nals \in Seq(Seq(Nat))
  PROVE  UnitsArePictures(nals)
<1> DEFINE n == Len(nals)
<1>0. n \in Nat
  <2> DEFINE S == Seq(Nat)
  <2>1. nals \in Seq(S)
    OBVIOUS
  <2> HIDE DEF S
  <2> QED BY <2>1
<1>1. UnitBegins(nals)
        = {k \in 1..n : k = 1 \/ ((IsAud(nals[k]) \/ FirstSlice(nals[k])) /\ Open(nals, k))}
  BY DEF UnitBegins
<1> HIDE DEF n
<1>2. ASSUME NEW k \in 1..n, NEW m \in 1..n, k < m, FirstSlice(nals[k]),
             FirstSlice(nals[m])
      PROVE  \E b \in UnitBegins(nals) : k < b /\ b <= m
  <2> DEFINE T == {i \in k + 1..m : IsAud(nals[i]) \/ FirstSlice(nals[i])}
  <2>1. PICK b \in T : \A i \in T : i >= b
    <3>1. T \subseteq Nat /\ m \in T
      BY <1>0, <1>2
    <3> HIDE DEF T
    <3> QED BY <3>1, Least
  <2>2. b \in 1..n /\ k < b /\ b <= m /\ k \in 1..b - 1
    BY <1>0
  <2>3. ASSUME NEW i \in k + 1..b - 1 PROVE ~IsAud(nals[i])
    <3>1. i \in k + 1..m /\ ~(i >= b)
      BY <1>0, <2>2
    <3> QED BY <2>1, <3>1
  <2>4. Open(nals, b)
    BY <1>2, <2>2, <2>3 DEF Open, FirstSlice
  <2> QED BY <1>1, <2>1, <2>2, <2>4
<1>3. ASSUME NEW b \in UnitBegins(nals), NEW d \in UnitBegins(nals), b < d
      PROVE  \E k \in b..d - 1 : IsVcl(nals[k])
  <2>1. b \in 1..n /\ d \in 1..n /\ d # 1
    BY <1>0, <1>1, <1>3
  <2>2. PICK j \in 1..d - 1 : IsVcl(nals[j]) /\ \A m \in j + 1..d - 1 : ~IsAud(nals[m])
    BY <1>1, <2>1 DEF Open
  <2>3. CASE j >= b
    <3>1. j \in b..d - 1
      BY <1>0, <2>1, <2>3
    <3> QED BY <2>2, <3>1
  <2>4. CASE ~(j >= b)
    <3>1. b \in j + 1..d - 1 /\ b \in b..d - 1 /\ b # 1
      BY <1>0, <1>3, <2>1, <2>4
    <3>2. FirstSlice(nals[b])
      BY <1>1, <2>2, <3>1
    <3> QED BY <3>1, <3>2 DEF FirstSlice
  <2> QED BY <2>3, <2>4
<1>4. ASSUME NEW k \in 1..n, NEW m \in 1..n,
             \A i \in k + 1..m : ~IsAud(nals[i]) /\ ~FirstSlice(nals[i]),
             NEW b \in UnitBegins(nals), k < b, b <= m
      PROVE  FALSE
  <2>1. b \in k + 1..m /\ b # 1
    BY <1>0, <1>1, <1>4
  <2> QED BY <1>1, <1>4, <2>1
<1> QED BY <1>2, <1>3, <1>4 DEF UnitsArePictures, n

(* In particular three reads or fewer of the streams of StereoStreamer's run *)
(* (video.py 285-328).                                                     *)
THEOREM ReadsChangeNothing == Spec => []UnitsIgnoreReads
<1>1. \A a \in Seq(Nat), b \in Seq(Nat) : a \o b \in Seq(Nat)
  BY ConcatProperties
<1>2. Blocks \subseteq Seq(Nat)
  BY DEF Blocks, First, Later, Delimiter, Parameters, Empty
<1>3. Streams \subseteq Seq(Nat)
  <2> SUFFICES ASSUME NEW s \in [1..3 -> Blocks]
               PROVE  s[1] \o s[2] \o s[3] \in Seq(Nat)
    BY DEF Streams
  <2>1. s[1] \in Seq(Nat) /\ s[2] \in Seq(Nat) /\ s[3] \in Seq(Nat)
    BY <1>2
  <2> HIDE DEF Blocks
  <2>2. s[1] \o s[2] \in Seq(Nat)
    BY <1>1, <2>1, Zenon
  <2> QED BY <1>1, <2>1, <2>2, Zenon
<1>4. ASSUME NEW data \in Streams, NEW ends \in BoundedSeq(1..Len(data) - 1, 2),
             \A k \in DOMAIN ends : ~CutsFirstCode(data, ends[k]),
             \A k \in 2..Len(ends) : ends[k - 1] < ends[k]
      PROVE  AccessUnits(Reads(data, ends)) = Reference(data)
  <2>1. data \in Seq(Nat) /\ Len(data) \in Nat
    BY <1>3
  <2>2. PICK m \in 0..2 : ends \in [1..m -> 1..Len(data) - 1]
    BY DEF BoundedSeq, SeqOf
  <2>3. ends \in Seq(0..Len(data)) /\ Len(ends) = m
    <3>1. \A k \in 1..m : ends[k] \in 0..Len(data)
      BY <2>1, <2>2
    <3>2. ends = [k \in 1..m |-> ends[k]] /\ m \in Nat
      BY <2>2
    <3> QED BY <3>1, <3>2, IsASeq
  <2>4. ASSUME NEW k \in 2..Len(ends) PROVE ends[k - 1] <= ends[k]
    <3>1. k \in 1..m /\ k - 1 \in 1..m
      BY <2>3
    <3> QED BY <1>4, <2>1, <2>2, <3>1
  <2>5. AreEnds(data, ends)
    BY <1>4, <2>3, <2>4 DEF AreEnds
  <2> QED BY <2>1, <2>5, UnitsComeFromTheStream
<1>5. ChangedByReads = {}
  BY <1>4 DEF ChangedByReads
<1>6. UnitsIgnoreReads
  BY <1>5 DEF UnitsIgnoreReads
<1> QED BY <1>6, PTL

-----------------------------------------------------------------------------
(* The demo's splitter.  Reader(r) is the state of an encoder's thread that *)
(* has the same access units.                                              *)
LoadStates(S, T) == [at : Nat, unit : S, vcl : BOOLEAN, key : BOOLEAN, units : T]
FileUnits == Seq([data : Seq(Nat), key : BOOLEAN])
Loads == LoadStates(Seq(Nat), FileUnits)

DataOf(units) == [k \in DOMAIN units |-> units[k].data]
AsReader(u, v, w) == [buffer |-> <<>>, unit |-> u, vcl |-> v, units |-> w]
Reader(r) == AsReader(r.unit, r.vcl, DataOf(r.units))

LEMMA AsReaderIs ==
  ASSUME NEW u \in Seq(Nat), NEW v \in BOOLEAN, NEW w \in Seq(Seq(Nat))
  PROVE  /\ AsReader(u, v, w) \in ReaderStates /\ AsReader(u, v, w).unit = u
         /\ AsReader(u, v, w).vcl = v /\ AsReader(u, v, w).units = w
<1> DEFINE S == Seq(Nat)
           T == Seq(Seq(Nat))
           e == <<>>
<1>1. e \in S /\ u \in S /\ w \in T
  OBVIOUS
<1> HIDE DEF S, T, e
<1>2. /\ [buffer |-> e, unit |-> u, vcl |-> v, units |-> w] \in States(S, T)
      /\ [buffer |-> e, unit |-> u, vcl |-> v, units |-> w].unit = u
      /\ [buffer |-> e, unit |-> u, vcl |-> v, units |-> w].vcl = v
      /\ [buffer |-> e, unit |-> u, vcl |-> v, units |-> w].units = w
  BY <1>1 DEF States
<1> QED BY <1>2 DEF AsReader, S, T, e, ReaderStates

LEMMA LoadFields ==
  ASSUME NEW r \in Loads
  PROVE  /\ r.at \in Nat /\ r.unit \in Seq(Nat) /\ r.vcl \in BOOLEAN
         /\ r.key \in BOOLEAN /\ r.units \in FileUnits
<1> DEFINE S == Seq(Nat)
           T == FileUnits
<1>1. r \in LoadStates(S, T)
  BY DEF Loads
<1> HIDE DEF S, T
<1>2. r.at \in Nat /\ r.unit \in S /\ r.vcl \in BOOLEAN /\ r.key \in BOOLEAN /\ r.units \in T
  BY <1>1 DEF LoadStates
<1> QED BY <1>2 DEF S, T

LEMMA DataOfType ==
  ASSUME NEW us \in FileUnits
  PROVE  DataOf(us) \in Seq(Seq(Nat)) /\ Len(DataOf(us)) = Len(us)
<1> DEFINE S == Seq(Nat)
           F == [data : S, key : BOOLEAN]
<1> HIDE DEF S
<1>1. us \in Seq(F) /\ \A f \in F : f.data \in S
  BY DEF FileUnits, S
<1> HIDE DEF F
<1>2. Len(us) \in Nat /\ DOMAIN us = 1..Len(us) /\ \A k \in 1..Len(us) : us[k].data \in S
  BY <1>1
<1>3. DataOf(us) \in Seq(S) /\ Len(DataOf(us)) = Len(us)
  BY <1>2 DEF DataOf
<1> QED BY <1>3 DEF S

LEMMA DataOfAppend ==
  ASSUME NEW us \in FileUnits, NEW d \in Seq(Nat), NEW b \in BOOLEAN
  PROVE  /\ Append(us, [data |-> d, key |-> b]) \in FileUnits
         /\ DataOf(Append(us, [data |-> d, key |-> b])) = Append(DataOf(us), d)
<1> DEFINE S == Seq(Nat)
           F == [data : S, key : BOOLEAN]
           x == [data |-> d, key |-> b]
           vs == Append(us, x)
           n == Len(us)
<1> HIDE DEF S
<1>1. us \in Seq(F) /\ x \in F /\ x.data = d /\ d \in S
  BY DEF FileUnits, S
<1>2. DataOf(us) \in Seq(S) /\ Len(DataOf(us)) = n
  BY DataOfType DEF S
<1> HIDE DEF F, x
<1>3. /\ vs \in Seq(F) /\ Len(vs) = n + 1 /\ n \in Nat /\ vs[n + 1] = x
      /\ \A k \in 1..n : vs[k] = us[k]
  BY <1>1, AppendProperties, LenProperties
<1>4. DOMAIN vs = 1..n + 1 /\ DOMAIN us = 1..n
  BY <1>1, <1>3
<1>5. vs \in FileUnits
  BY <1>3 DEF FileUnits, F, S
<1> HIDE DEF vs, n
<1>6. DataOf(vs) \in Seq(S) /\ Len(DataOf(vs)) = n + 1
  BY <1>3, <1>5, DataOfType DEF S
<1>7. /\ Append(DataOf(us), d) \in Seq(S) /\ Len(Append(DataOf(us), d)) = n + 1
      /\ Append(DataOf(us), d)[n + 1] = d
      /\ \A k \in 1..n : Append(DataOf(us), d)[k] = DataOf(us)[k]
  BY <1>1, <1>2, AppendProperties
<1>8. ASSUME NEW k \in 1..n + 1 PROVE DataOf(vs)[k] = Append(DataOf(us), d)[k]
  <2>1. DataOf(vs)[k] = vs[k].data
    BY <1>4 DEF DataOf
  <2>2. k = n + 1 \/ k \in 1..n
    BY <1>3
  <2>3. \A i \in 1..n : DataOf(us)[i] = us[i].data
    BY <1>4 DEF DataOf
  <2> QED BY <1>1, <1>3, <1>7, <2>1, <2>2, <2>3
<1>9. DataOf(vs) = Append(DataOf(us), d)
  BY <1>6, <1>7, <1>8, SeqEqual
<1> QED BY <1>5, <1>9 DEF vs, x

SetAt(r, a) == [r EXCEPT !.at = a]
SetPushed(r, w, u, v, k) ==
  [r EXCEPT !.units = w, !.unit = u, !.vcl = v, !.key = k]
SetNal(r, a, u, v, k) == [r EXCEPT !.at = a, !.unit = u, !.vcl = v, !.key = k]

LEMMA SetAtIs ==
  ASSUME NEW S, NEW T, NEW r \in LoadStates(S, T), NEW a \in Nat
  PROVE  /\ SetAt(r, a) \in LoadStates(S, T) /\ SetAt(r, a).at = a
         /\ SetAt(r, a).unit = r.unit /\ SetAt(r, a).vcl = r.vcl
         /\ SetAt(r, a).units = r.units
BY DEF LoadStates, SetAt

LEMMA SetPushedIs ==
  ASSUME NEW S, NEW T, NEW r \in LoadStates(S, T), NEW w \in T, NEW u \in S,
         NEW v \in BOOLEAN, NEW k \in BOOLEAN
  PROVE  /\ SetPushed(r, w, u, v, k) \in LoadStates(S, T)
         /\ SetPushed(r, w, u, v, k).at = r.at /\ SetPushed(r, w, u, v, k).unit = u
         /\ SetPushed(r, w, u, v, k).vcl = v /\ SetPushed(r, w, u, v, k).units = w
         /\ SetPushed(r, w, u, v, k).key = k
BY DEF LoadStates, SetPushed

LEMMA SetNalIs ==
  ASSUME NEW S, NEW T, NEW r \in LoadStates(S, T), NEW a \in Nat, NEW u \in S,
         NEW v \in BOOLEAN, NEW k \in BOOLEAN
  PROVE  /\ SetNal(r, a, u, v, k) \in LoadStates(S, T)
         /\ SetNal(r, a, u, v, k).at = a /\ SetNal(r, a, u, v, k).unit = u
         /\ SetNal(r, a, u, v, k).vcl = v /\ SetNal(r, a, u, v, k).units = r.units
         /\ SetNal(r, a, u, v, k).key = k
BY DEF LoadStates, SetNal

LEMMA PushUnitIs ==
  ASSUME NEW r \in Loads
  PROVE  /\ PushUnit(r) \in Loads /\ PushUnit(r).unit = <<>> /\ PushUnit(r).vcl = FALSE
         /\ PushUnit(r).key = FALSE
         /\ PushUnit(r).units = Append(r.units, [data |-> r.unit, key |-> r.key])
         /\ DataOf(PushUnit(r).units) = Append(DataOf(r.units), r.unit)
<1> DEFINE S == Seq(Nat)
           T == FileUnits
           w == Append(r.units, [data |-> r.unit, key |-> r.key])
           e == <<>>
           f == FALSE
<1>1. w \in T /\ DataOf(w) = Append(DataOf(r.units), r.unit) /\ e \in S /\ f \in BOOLEAN
  BY LoadFields, DataOfAppend
<1>2. r \in LoadStates(S, T)
  BY DEF Loads
<1>3. PushUnit(r) = SetPushed(r, w, e, f, f)
  BY DEF PushUnit, SetPushed
<1> HIDE DEF S, T, w, e, f
<1>4. /\ SetPushed(r, w, e, f, f) \in LoadStates(S, T)
      /\ SetPushed(r, w, e, f, f).unit = e /\ SetPushed(r, w, e, f, f).vcl = f
      /\ SetPushed(r, w, e, f, f).units = w /\ SetPushed(r, w, e, f, f).key = f
  BY <1>1, <1>2, SetPushedIs
<1> QED BY <1>1, <1>3, <1>4 DEF S, T, w, e, f, Loads

-----------------------------------------------------------------------------
(* What both splitters read the same of one more NAL unit, and a step of   *)
(* the demo's with it, which is a step of the thread's.                    *)
PlainNext(nals, x) ==
  /\ IsVcl(x) => Type(x) \in {1, 5} /\ (FirstOrUnreadable(x) <=> FirstSlice(x))
  /\ IsAud(x) => \/ Open(nals, Len(nals) + 1)
                 \/ \A j \in 1..Len(nals) : Payload(nals[j]) = <<>>

LoadHolds(r, nals) ==
  /\ Holds(Reader(r), nals) /\ (r.vcl => r.unit # <<>>)
  /\ (\A j \in 1..Len(nals) : Payload(nals[j]) = <<>>) => r.unit = <<>>

IsSlice(x) == Type(x) \in {1, 5}

Ends(r, x) ==
  \/ IsSlice(x) /\ r.vcl /\ FirstOrUnreadable(x)
  \/ Type(x) = 9 /\ r.unit # <<>>

Added(q, next, x, v, k) == SetNal(q, next, q.unit \o x, v, k)

LoadWith(r, next, x) ==
  IF Payload(x) = <<>> THEN SetAt(r, next)
  ELSE LET q == IF Ends(r, x) THEN PushUnit(r) ELSE r
       IN Added(q, next, x, q.vcl \/ IsSlice(x), q.key \/ Type(x) = 5)

LEMMA LoadNalIs ==
  ASSUME NEW r, NEW data, r.at # 0, NEW next, NEW x,
         next = FindStartCode(data, r.at + StartCodeSize(data, r.at)),
         x = SubSeq(data, r.at, IF next = 0 THEN Len(data) ELSE next - 1)
  PROVE  LoadNal(r, data) = LoadWith(r, next, x)
BY Zenon DEF LoadNal, LoadWith, Ends, IsSlice, SetAt, SetNal, Added

AreFlags(v, k) == v \in BOOLEAN /\ k \in BOOLEAN

IsAdded(l, q, next, x, v) ==
  /\ l \in Loads /\ l.at = next /\ l.unit = q.unit \o x
  /\ l.vcl = v /\ l.units = q.units

LEMMA AddNal ==
  ASSUME NEW q \in Loads, NEW next \in Nat, NEW x \in Seq(Nat), NEW v, NEW k,
         AreFlags(v, k)
  PROVE  IsAdded(Added(q, next, x, v, k), q, next, x, v) /\ Added(q, next, x, v, k).key = k
<1> DEFINE S == Seq(Nat)
           T == FileUnits
           u == q.unit \o x
<1>1. u \in S
  BY LoadFields, ConcatProperties
<1>2. q \in LoadStates(S, T)
  BY DEF Loads
<1> HIDE DEF S, T, u
<1>3. /\ SetNal(q, next, u, v, k) \in LoadStates(S, T)
      /\ SetNal(q, next, u, v, k).at = next /\ SetNal(q, next, u, v, k).unit = u
      /\ SetNal(q, next, u, v, k).vcl = v /\ SetNal(q, next, u, v, k).units = q.units
      /\ SetNal(q, next, u, v, k).key = k
  BY <1>1, <1>2, SetNalIs DEF AreFlags
<1> QED BY <1>1, <1>3 DEF S, T, u, Loads, Added, IsAdded

LEMMA SkipNal ==
  ASSUME NEW r \in Loads, NEW next \in Nat
  PROVE  /\ SetAt(r, next) \in Loads /\ SetAt(r, next).at = next
         /\ SetAt(r, next).unit = r.unit /\ SetAt(r, next).vcl = r.vcl
         /\ SetAt(r, next).units = r.units
<1> DEFINE S == Seq(Nat)
           T == FileUnits
<1>1. r \in LoadStates(S, T)
  BY DEF Loads
<1> HIDE DEF S, T
<1>2. /\ SetAt(r, next) \in LoadStates(S, T) /\ SetAt(r, next).at = next
      /\ SetAt(r, next).unit = r.unit /\ SetAt(r, next).vcl = r.vcl
      /\ SetAt(r, next).units = r.units
  BY <1>1, SetAtIs
<1> QED BY <1>2 DEF S, T, Loads

LEMMA ReaderIs ==
  ASSUME NEW r \in Loads
  PROVE  /\ Reader(r) \in ReaderStates /\ Reader(r).unit = r.unit
         /\ Reader(r).vcl = r.vcl /\ Reader(r).units = DataOf(r.units)
BY LoadFields, DataOfType, AsReaderIs DEF Reader

LEMMA LoadStep ==
  ASSUME NEW r \in Loads, NEW nals \in Seq(Seq(Nat)), LoadHolds(r, nals),
         NEW x \in Seq(Nat), StartCodeSize(x, 1) # 0, NEW next \in Nat, PlainNext(nals, x)
  PROVE  /\ LoadWith(r, next, x) \in Loads /\ LoadWith(r, next, x).at = next
         /\ LoadHolds(LoadWith(r, next, x), Append(nals, x))
<1> DEFINE l == LoadWith(r, next, x)
           c == Reader(r)
           p == ProcessNal(c, x)
           all == Append(nals, x)
<1>1. c \in ReaderStates /\ c.unit = r.unit /\ c.vcl = r.vcl /\ c.units = DataOf(r.units)
  BY ReaderIs
<1>2. Holds(c, nals) /\ (r.vcl => r.unit # <<>>) /\ (r.vcl <=> Open(nals, Len(nals) + 1))
      /\ ((\A j \in 1..Len(nals) : Payload(nals[j]) = <<>>) => r.unit = <<>>)
  BY <1>1 DEF LoadHolds, Holds
<1>3. r.unit \in Seq(Nat) /\ r.vcl \in BOOLEAN /\ r.key \in BOOLEAN /\ r.units \in FileUnits
  BY LoadFields
<1> HIDE DEF l, c, p, all
<1>4. p \in ReaderStates /\ Holds(p, all)
  BY <1>1, <1>2, HoldsOneMore DEF p, all
<1>5. /\ Len(all) = Len(nals) + 1 /\ Len(nals) \in Nat /\ all[Len(nals) + 1] = x
      /\ \A i \in 1..Len(nals) : all[i] = nals[i]
  BY OneMore DEF all
<1>6. (\A j \in 1..Len(all) : Payload(all[j]) = <<>>)
        => Payload(x) = <<>> /\ \A j \in 1..Len(nals) : Payload(nals[j]) = <<>>
  <2>1. ASSUME \A j \in 1..Len(all) : Payload(all[j]) = <<>>, NEW j \in 1..Len(nals)
        PROVE  Payload(nals[j]) = <<>>
    <3>1. j \in 1..Len(all)
      BY <1>5
    <3> QED BY <1>5, <2>1, <3>1
  <2>2. Len(nals) + 1 \in 1..Len(all)
    BY <1>5
  <2> QED BY <1>5, <2>1, <2>2
<1>7. SUFFICES /\ l \in Loads /\ l.at = next /\ l.unit = p.unit /\ l.vcl = p.vcl
               /\ DataOf(l.units) = p.units /\ (l.vcl => l.unit # <<>>)
               /\ Payload(x) = <<>> => l.unit = r.unit
  <2>1. Reader(l) \in ReaderStates /\ Reader(l).unit = l.unit
        /\ Reader(l).vcl = l.vcl /\ Reader(l).units = DataOf(l.units)
    BY <1>7, ReaderIs
  <2>2. Holds(Reader(l), all)
    BY <1>4, <1>7, <2>1, HoldsSame
  <2> QED BY <1>2, <1>6, <1>7, <2>2 DEF LoadHolds, l, all
<1>8. CASE Payload(x) = <<>>
  <2>1. p = c
    BY <1>8 DEF ProcessNal, p
  <2>2. l = SetAt(r, next)
    BY <1>8 DEF LoadWith, l
  <2>3. l \in Loads /\ l.at = next /\ l.unit = r.unit /\ l.vcl = r.vcl
        /\ l.units = r.units
    BY <2>2, SkipNal, Zenon
  <2> QED BY <1>1, <1>2, <2>1, <2>3
<1>9. CASE Payload(x) # <<>>
  <2> DEFINE q == IF Ends(r, x) THEN PushUnit(r) ELSE r
             v == q.vcl \/ IsSlice(x)
             k == q.key \/ Type(x) = 5
  <2>1. l = Added(q, next, x, v, k)
    BY <1>9 DEF LoadWith, l
  <2>2. IsVcl(x) <=> IsSlice(x)
    BY <1>9 DEF IsVcl, IsSlice, PlainNext
  <2>3. Ends(r, x) <=> Starts(x) /\ r.vcl
    <3>1. Type(x) = 9 <=> IsAud(x)
      BY <1>9 DEF IsAud
    <3>2. IsAud(x) => (r.unit # <<>> <=> r.vcl)
      BY <1>2 DEF PlainNext
    <3>3. IsSlice(x) => (FirstOrUnreadable(x) <=> FirstSlice(x))
      BY <2>2 DEF PlainNext
    <3>4. FirstSlice(x) => IsSlice(x)
      BY <2>2 DEF FirstSlice
    <3> QED BY <1>3, <3>1, <3>2, <3>3, <3>4 DEF Ends, Starts
  <2>4. x # <<>>
    <3>1. Len(x) # 0
      <4>1. StartCodeSize(x, 1) = SizeTo(x, Len(x), 1) /\ Len(x) \in Nat
        BY SizeIs
      <4> QED BY <4>1 DEF SizeTo
    <3> QED BY <3>1
  <2>5. CASE Starts(x) /\ r.vcl
    <3>1. q = PushUnit(r)
      BY <2>3, <2>5
    <3> HIDE DEF q, v, k
    <3>2. q \in Loads /\ q.unit = <<>> /\ q.vcl = FALSE
          /\ DataOf(q.units) = Append(DataOf(r.units), r.unit)
      BY <3>1, PushUnitIs
    <3>3. AreFlags(v, k)
      BY DEF v, k, AreFlags
    <3>4. IsAdded(Added(q, next, x, v, k), q, next, x, v)
      BY <3>2, <3>3, AddNal
    <3>5. p.unit = x /\ p.vcl = IsVcl(x) /\ p.units = Append(c.units, c.unit)
      BY <1>1, <1>9, <2>5, ProcessNalStarts DEF p
    <3>6. q.unit \o x = x
      BY <3>2, ConcatEmptySeq
    <3>7. v = IsVcl(x)
      BY <2>2, <3>2 DEF v, IsVcl, IsSlice
    <3> QED BY <1>1, <1>9, <2>1, <2>4, <3>2, <3>4, <3>5, <3>6, <3>7 DEF IsAdded
  <2>6. CASE ~(Starts(x) /\ r.vcl)
    <3>1. q = r
      BY <2>3, <2>6
    <3> HIDE DEF q, v, k
    <3>2. AreFlags(v, k)
      BY DEF v, k, AreFlags
    <3>3. IsAdded(Added(r, next, x, v, k), r, next, x, v)
      BY <3>2, AddNal
    <3>4. p.unit = c.unit \o x /\ p.vcl = (c.vcl \/ IsVcl(x)) /\ p.units = c.units
      BY <1>1, <1>9, <2>6, ProcessNalGoesOn DEF p
    <3>5. v = (r.vcl \/ IsVcl(x))
      BY <1>3, <2>2, <3>1 DEF v, IsVcl, IsSlice
    <3>6. r.unit \o x # <<>>
      BY <1>3, <2>4, ConcatEqualIffEmpty
    <3> QED BY <1>1, <1>9, <2>1, <3>1, <3>3, <3>4, <3>5, <3>6 DEF IsAdded
  <2> QED BY <2>5, <2>6
<1> QED BY <1>8, <1>9

-----------------------------------------------------------------------------
(* The NAL units before a position where one begins are the first of all.  *)
Within(n, nals, all) ==
  n <= Len(all) /\ \A i \in 1..n : all[i] = nals[i]

LEMMA GrownIs ==
  ASSUME NEW nals \in Seq(Seq(Nat)), nals # <<>>, NEW t \in Seq(Nat)
  PROVE  /\ Grown(nals, t) \in Seq(Seq(Nat)) /\ Len(Grown(nals, t)) = Len(nals)
         /\ \A i \in 1..Len(nals) - 1 : Grown(nals, t)[i] = nals[i]
<1> DEFINE S == Seq(Nat)
           n == Len(nals)
           x == nals[n] \o t
<1>1. nals \in Seq(S) /\ \A a \in S, b \in S : a \o b \in S
  BY ConcatProperties
<1>2. t \in S
  OBVIOUS
<1> HIDE DEF S
<1>3. n \in Nat /\ n \in 1..n
  BY <1>1
<1>4. x \in S
  BY <1>1, <1>2, <1>3, ElementOfSeq
<1> HIDE DEF x, n
<1>5. /\ [nals EXCEPT ![n] = x] \in Seq(S) /\ Len([nals EXCEPT ![n] = x]) = n
      /\ \A j \in 1..n : [nals EXCEPT ![n] = x][j] = IF j = n THEN x ELSE nals[j]
  BY <1>1, <1>3, <1>4, ExceptSeq DEF n
<1>6. Grown(nals, t) = [nals EXCEPT ![n] = x]
  BY DEF Grown, n, x
<1>7. ASSUME NEW i \in 1..n - 1 PROVE i \in 1..n /\ i # n
  BY <1>3
<1> QED BY <1>5, <1>6, <1>7 DEF S, n

LEMMA NalsGrow ==
  ASSUME NEW data \in Seq(Nat), NEW q \in 1..Len(data), NEW n \in Nat, q = n + 1
  PROVE  /\ NalsTo(data, n) \in Seq(Seq(Nat)) /\ NalsTo(data, q) \in Seq(Seq(Nat))
         /\ Len(NalsTo(data, n)) <= Len(NalsTo(data, q))
         /\ Within(IF q \in Begins(data) THEN Len(NalsTo(data, n))
                   ELSE Len(NalsTo(data, n)) - 1, NalsTo(data, n), NalsTo(data, q))
<1> DEFINE nals == NalsTo(data, n)
           t == <<data[q]>>
           m == Len(nals)
<1>1. nals \in Seq(Seq(Nat)) /\ NalsTo(data, q) \in Seq(Seq(Nat)) /\ t \in Seq(Nat)
  <2>1. n \in 0..Len(data) /\ q \in 0..Len(data) /\ data[q] \in Nat
    OBVIOUS
  <2> QED BY <2>1, NalsToType
<1>2. NalsTo(data, q) = IF q \in Begins(data) THEN Append(nals, t)
                        ELSE IF nals = <<>> THEN <<>> ELSE Grown(nals, t)
  BY NalsToNext
<1>3. m \in Nat /\ (nals = <<>> => m = 0)
  BY <1>1, OneMore
<1> HIDE DEF nals, t, m
<1>4. CASE q \in Begins(data)
  <2>1. /\ Len(Append(nals, t)) = m + 1
        /\ \A i \in 1..m : Append(nals, t)[i] = nals[i]
    BY <1>1, OneMore DEF m
  <2>2. NalsTo(data, q) = Append(nals, t)
    BY <1>2, <1>4
  <2>3. Within(m, nals, NalsTo(data, q)) /\ m <= Len(NalsTo(data, q))
    <3> HIDE DEF NalsTo
    <3> QED BY <1>3, <2>1, <2>2 DEF Within
  <2> QED BY <1>1, <1>4, <2>3 DEF nals, m
<1>5. CASE q \notin Begins(data) /\ nals = <<>>
  <2>1. NalsTo(data, q) = nals /\ m = 0 /\ 1..m - 1 = {}
    BY <1>2, <1>3, <1>5
  <2> QED BY <1>1, <1>5, <2>1 DEF Within, nals, m
<1>6. CASE q \notin Begins(data) /\ nals # <<>>
  <2>1. /\ Len(Grown(nals, t)) = m
        /\ \A i \in 1..m - 1 : Grown(nals, t)[i] = nals[i]
    BY <1>1, <1>6, GrownIs DEF m
  <2> QED BY <1>1, <1>2, <1>3, <1>6, <2>1 DEF Within, nals, m
<1> QED BY <1>4, <1>5, <1>6

LEMMA NalsStay ==
  ASSUME NEW data \in Seq(Nat), NEW b \in Begins(data)
  PROVE  Within(Len(NalsTo(data, b - 1)), NalsTo(data, b - 1), Nals(data))
<1> DEFINE nals == NalsTo(data, b - 1)
           m == Len(nals)
           n == Len(data)
           T == {q \in b..n : m < Len(NalsTo(data, q)) /\ Within(m, nals, NalsTo(data, q))}
<1>0. n \in Nat /\ b \in 1..n /\ b \in Nat /\ b - 1 \in Nat /\ (b - 1) + 1 = b /\ n \in b..n
      /\ b - 1 \in 0..n
  <2>1. b \in 1..n
    BY BeginsAre
  <2> QED BY <2>1
<1>1. m \in Nat
  BY <1>0, NalsToType, OneMore
<1>2. b \in T
  <2>1. Within(m, nals, NalsTo(data, b))
    BY <1>0, NalsGrow
  <2>2. Len(NalsTo(data, b)) = m + 1
    <3>1. NalsTo(data, b) = Append(nals, <<data[b]>>)
      BY <1>0, NalsToNext
    <3>2. nals \in Seq(Seq(Nat)) /\ <<data[b]>> \in Seq(Nat)
      <4>1. data[b] \in Nat
        BY <1>0
      <4> QED BY <1>0, <4>1, NalsToType
    <3> QED BY <3>1, <3>2, OneMore
  <2> QED BY <1>0, <1>1, <2>1, <2>2
<1> HIDE DEF nals, m
<1>3. ASSUME NEW q \in b..n - 1, q \in T PROVE q + 1 \in T
  <2> DEFINE old == NalsTo(data, q)
             new == NalsTo(data, q + 1)
  <2>1. q + 1 \in 1..n /\ q \in Nat /\ q + 1 \in b..n
    BY <1>0
  <2>2. /\ old \in Seq(Seq(Nat)) /\ new \in Seq(Seq(Nat)) /\ Len(old) <= Len(new)
        /\ Within(IF q + 1 \in Begins(data) THEN Len(old) ELSE Len(old) - 1, old, new)
    BY <2>1, NalsGrow
  <2>3. m < Len(old) /\ Within(m, nals, old)
    BY <1>3
  <2> HIDE DEF old, new
  <2>4. Len(old) \in Nat /\ Len(new) \in Nat
    BY <2>2, OneMore
  <2>5. ASSUME NEW i \in 1..m PROVE new[i] = nals[i]
    <3>1. i \in 1..Len(old) - 1 /\ i \in 1..Len(old)
      BY <1>1, <2>3, <2>4
    <3> QED BY <2>2, <2>3, <3>1 DEF Within
  <2>6. m < Len(new)
    BY <1>1, <2>2, <2>3, <2>4
  <2> QED BY <1>1, <2>1, <2>4, <2>5, <2>6 DEF Within, new
<1> HIDE DEF T
<1>4. n \in T
  BY <1>0, <1>2, <1>3, UpFrom
<1> QED BY <1>4, NalsAre DEF T, nals, m

(* The NAL unit from f to e. *)
IsNal(data, f, e) ==
  LET x == SubSeq(data, f, e)
  IN /\ x \in Seq(Nat) /\ StartCodeSize(x, 1) # 0
     /\ NalsTo(data, e) = Append(NalsTo(data, f - 1), x)

LEMMA NalFrom ==
  ASSUME NEW data \in Seq(Nat), NEW f \in Begins(data), NEW e \in f..Len(data),
         NoneBetween(data, f, e + 1), CodeEnd(data, f) <= e
  PROVE  IsNal(data, f, e)
<1>1. Len(data) \in Nat /\ f \in 1..Len(data) /\ e \in 0..Len(data) /\ f \in 1..e + 1
      /\ 1 \in Nat \ {0} /\ f + 1 - 1 = f
  <2>1. f \in 1..Len(data)
    BY BeginsAre
  <2> QED BY <2>1
<1>2. SubSeq(data, f, e) \in Seq(Nat)
  BY <1>1, SliceIs
<1>3. StartCodeSize(SubSeq(data, f, e), 1) = SizeTo(data, e, f)
  BY <1>1, SizeInSlice
<1>4. SizeTo(data, e, f) # 0
  <2>1. CodeEnd(data, f) \in f + 2..f + 3
        /\ SizeTo(data, e, f)
             = IF CodeEnd(data, f) <= e THEN CodeEnd(data, f) - f + 1 ELSE 0
    BY <1>1, CodeOfBegin
  <2> QED BY <1>1, <2>1
<1> QED BY <1>2, <1>3, <1>4, OneNal DEF IsNal

(* The demo finds the NAL units one after the other. *)
LEMMA LoadFinds ==
  ASSUME NEW data \in Seq(Nat), NEW f \in Begins(data), NEW next,
         next = FindStartCode(data, f + StartCodeSize(data, f))
  PROVE  \/ next = 0 /\ IsNal(data, f, Len(data))
         \/ next \in Begins(data) /\ next > f /\ IsNal(data, f, next - 1)
<1> DEFINE n == Len(data)
           size == SizeTo(data, n, f)
           end == CodeEnd(data, f)
<1>0. n \in Nat /\ n \in 0..n /\ 1 \in 1..n + 1
  OBVIOUS
<1>1. f \in 1..n /\ end \in f + 2..f + 3 /\ end <= n /\ size = end - f + 1
  BY <1>0, CodeOfBegin
<1>2. next = FindStartCode(SubSeq(data, 1, n), f + size)
  <2>1. f \in Nat \ {0}
    BY <1>1
  <2> QED BY <2>1, SizeIs, SubSeqFull
<1>3. \/ next = 0 /\ NoCode(data, n, 1 + (f + size) - 1, n + 1)
      \/ /\ next \in f + size..n - 1 + 1 /\ SizeTo(data, n, 1 + next - 1) # 0
         /\ NoCode(data, n, 1 + (f + size) - 1, 1 + next - 1)
  <2>1. f + size \in Nat \ {0}
    BY <1>1
  <2> QED BY <1>0, <1>2, <2>1, FindInSlice
<1>4. 1 + (f + size) - 1 = f + size /\ n - 1 + 1 = n /\ size # 0 /\ n \in f..n
  BY <1>0, <1>1
<1>5. CASE next = 0 /\ NoCode(data, n, f + size, n + 1)
  <2>1. NoneBetween(data, f, n + 1)
    BY <1>5, LastNal
  <2> QED BY <1>1, <1>4, <1>5, <2>1, NalFrom
<1>6. CASE next # 0 \/ ~NoCode(data, n, f + size, n + 1)
  <2>1. next \in f + size..n /\ SizeTo(data, n, 1 + next - 1) # 0
        /\ NoCode(data, n, f + size, 1 + next - 1)
    BY <1>3, <1>4, <1>6
  <2>2. 1 + next - 1 = next /\ next > f /\ next - 1 \in f..n /\ (next - 1) + 1 = next
        /\ end <= next - 1
    <3>1. f \in Nat /\ size \in Nat /\ end \in Nat /\ f + size = end + 1 /\ end >= f
      BY <1>0, <1>1
    <3>2. next \in Nat /\ f + size <= next /\ next <= n
      BY <1>0, <2>1, <3>1
    <3> HIDE DEF n, size, end
    <3> QED BY <1>0, <3>1, <3>2
  <2>3. next \in Begins(data) /\ NoneBetween(data, f, next)
    BY <1>0, <1>4, <2>1, <2>2, SecondBegin
  <2>4. IsNal(data, f, next - 1)
    BY <2>2, <2>3, NalFrom
  <2> QED BY <2>2, <2>3, <2>4
<1> QED BY <1>5, <1>6

-----------------------------------------------------------------------------
(* The demo's loop: the NAL units before `at', or all, are processed.      *)
LoadStands(r, data) ==
  /\ r \in Loads
  /\ \/ r.at = 0 /\ LoadHolds(r, Nals(data))
     \/ r.at \in Begins(data) /\ LoadHolds(r, NalsTo(data, r.at - 1))

LEMMA FreshHolds ==
  ASSUME NEW r \in Loads, r.unit = <<>>, r.vcl = FALSE, r.units = <<>>
  PROVE  LoadHolds(r, <<>>)
<1>1. Reader(r).unit = <<>> /\ Reader(r).vcl = FALSE /\ Reader(r).units = DataOf(r.units)
  BY ReaderIs
<1>2. DataOf(r.units) = <<>>
  <2>1. DataOf(r.units) \in Seq(Seq(Nat)) /\ Len(DataOf(r.units)) = Len(r.units)
    BY LoadFields, DataOfType
  <2> DEFINE S == Seq(Nat)
  <2> HIDE DEF S
  <2>2. DataOf(r.units) \in Seq(S) /\ Len(DataOf(r.units)) = 0
    BY <2>1 DEF S
  <2> QED BY <2>2, EmptySeq
<1>3. ~Open(<<>>, Len(<<>>) + 1)
  BY DEF Open
<1> QED BY <1>1, <1>2, <1>3 DEF LoadHolds, Holds

LEMMA LoadBegins ==
  ASSUME NEW data \in Seq(Nat)
  PROVE  LoadStands(LoadFresh(data), data)
<1> DEFINE n == Len(data)
           at == FindStartCode(data, 1)
           r == LoadFresh(data)
           S == Seq(Nat)
           T == FileUnits
           e == <<>>
<1>0. n \in Nat /\ n \in 0..n /\ 1 \in 1..n + 1 /\ 1 \in Nat \ {0} /\ 1 + 1 - 1 = 1
      /\ n + 1 \in 1..n + 1 /\ (n + 1) - 1 = n
  OBVIOUS
<1>1. \/ at = 0 /\ NoCode(data, n, 1 + 1 - 1, n + 1)
      \/ /\ at \in 1..n - 1 + 1 /\ SizeTo(data, n, 1 + at - 1) # 0
         /\ NoCode(data, n, 1 + 1 - 1, 1 + at - 1)
  <2>1. SubSeq(data, 1, n) = data
    BY SubSeqFull
  <2> QED BY <1>0, <2>1, FindInSlice
<1> HIDE DEF at
<1>2. NoneBefore(data, 1)
  BY BeginsAre DEF NoneBefore
<1>3. \/ at = 0 /\ Nals(data) = <<>>
      \/ at \in Begins(data) /\ at \in Nat /\ NalsTo(data, at - 1) = <<>>
  <2>1. CASE at = 0 /\ NoCode(data, n, 1, n + 1)
    <3>1. NoneBefore(data, n + 1)
      BY <1>0, <1>2, <2>1, EndCutsNothing, NoBegin
    <3> QED BY <1>0, <2>1, <3>1, NothingBegun, NalsAre
  <2>2. CASE at \in 1..n /\ SizeTo(data, n, at) # 0 /\ NoCode(data, n, 1, at)
    <3>1. at \in Begins(data) /\ NoneBefore(data, at)
      BY <1>0, <1>2, <2>2, FirstBegin
    <3>2. at \in 1..n + 1 /\ at \in Nat
      BY <1>0, <2>2
    <3> QED BY <3>1, <3>2, NothingBegun
  <2>3. at \in 1..n - 1 + 1 => at \in 1..n /\ 1 + at - 1 = at
    BY <1>0
  <2> QED BY <1>0, <1>1, <2>1, <2>2, <2>3
<1>4. at \in Nat
  BY <1>3
<1>5. r = [at |-> at, unit |-> e, vcl |-> FALSE, key |-> FALSE, units |-> e]
  BY DEF LoadFresh, at
<1>6. e \in S /\ e \in T
  BY DEF FileUnits
<1> HIDE DEF r, S, T, e
<1>7. /\ r \in LoadStates(S, T) /\ r.at = at /\ r.unit = e /\ r.vcl = FALSE
      /\ r.units = e
  BY <1>4, <1>5, <1>6 DEF LoadStates
<1>8. r \in Loads
  BY <1>7 DEF Loads, S, T
<1>9. LoadHolds(r, <<>>)
  BY <1>7, <1>8, FreshHolds DEF e
<1> QED BY <1>3, <1>7, <1>8, <1>9 DEF LoadStands, r

LEMMA NalIsThere ==
  ASSUME NEW data \in Seq(Nat), NEW f \in Begins(data),
         NEW e \in f..Len(data), IsNal(data, f, e), e = Len(data) \/ e + 1 \in Begins(data)
  PROVE  LET n == Len(NalsTo(data, f - 1))
         IN /\ n \in Nat /\ n + 1 \in DOMAIN Nals(data)
            /\ Nals(data)[n + 1] = SubSeq(data, f, e)
            /\ \A i \in 1..n : Nals(data)[i] = NalsTo(data, f - 1)[i]
<1> DEFINE all == Nals(data)
           before == NalsTo(data, f - 1)
           x == SubSeq(data, f, e)
           n == Len(before)
<1>0. /\ Len(data) \in Nat /\ f \in 1..Len(data) /\ f - 1 \in 0..Len(data)
      /\ Len(data) \in 0..Len(data) /\ (e + 1) - 1 = e
  <2>1. f \in 1..Len(data)
    BY BeginsAre
  <2> QED BY <2>1
<1>1. before \in Seq(Seq(Nat)) /\ all \in Seq(Seq(Nat)) /\ x \in Seq(Nat)
      /\ NalsTo(data, e) = Append(before, x)
  BY <1>0, NalsToType, NalsAre DEF IsNal
<1>2. Within(Len(NalsTo(data, e)), NalsTo(data, e), all)
  <2>1. CASE e = Len(data)
    <3>1. NalsTo(data, e) = all /\ Len(all) \in Nat
      BY <1>1, <2>1, NalsAre, OneMore
    <3> QED BY <3>1 DEF Within
  <2>2. CASE e + 1 \in Begins(data)
    <3> DEFINE b == e + 1
    <3>1. b \in Begins(data) /\ b - 1 = e
      BY <1>0, <2>2
    <3> HIDE DEF b
    <3> QED BY <3>1, NalsStay
  <2> QED BY <2>1, <2>2
<1> HIDE DEF all, before, x
<1>3. /\ n \in Nat /\ Len(Append(before, x)) = n + 1 /\ Append(before, x)[n + 1] = x
      /\ \A i \in 1..n : Append(before, x)[i] = before[i]
  BY <1>1, OneMore
<1> HIDE DEF n
<1>4. n + 1 <= Len(all) /\ \A i \in 1..n + 1 : all[i] = Append(before, x)[i]
  BY <1>1, <1>2, <1>3 DEF Within
<1>5. all[n + 1] = x /\ \A i \in 1..n : all[i] = before[i]
  <2>1. n + 1 \in 1..n + 1 /\ \A i \in 1..n : i \in 1..n + 1
    BY <1>3
  <2> QED BY <1>3, <1>4, <2>1
<1>6. n + 1 \in DOMAIN all
  <2> DEFINE S == Seq(Nat)
  <2>1. all \in Seq(S)
    BY <1>1
  <2> HIDE DEF S
  <2>2. DOMAIN all = 1..Len(all) /\ Len(all) \in Nat
    BY <2>1
  <2> QED BY <1>3, <1>4, <2>2
<1> QED BY <1>3, <1>5, <1>6 DEF all, before, x, n

LEMMA PlainHere ==
  ASSUME NEW data \in Seq(Nat), Plain(Nals(data)), NEW f \in Begins(data),
         NEW e \in f..Len(data), IsNal(data, f, e), e = Len(data) \/ e + 1 \in Begins(data)
  PROVE  PlainNext(NalsTo(data, f - 1), SubSeq(data, f, e))
<1> DEFINE all == Nals(data)
           before == NalsTo(data, f - 1)
           x == SubSeq(data, f, e)
           n == Len(before)
<1>1. /\ n \in Nat /\ n + 1 \in DOMAIN all /\ all[n + 1] = x
      /\ \A i \in 1..n : all[i] = before[i]
  BY NalIsThere
<1> HIDE DEF all, before, x, n
<1>2. (n + 1) - 1 = n
  BY <1>1
<1>3. Open(all, n + 1) <=> Open(before, n + 1)
  <2>1. ASSUME NEW j \in 1..n, NEW m \in j + 1..n PROVE m \in 1..n
    BY <1>1
  <2> QED BY <1>1, <1>2, <2>1 DEF Open
<1>4. Plain(all)
  BY DEF all
<1>5. IsVcl(x) => Type(x) \in {1, 5} /\ (FirstOrUnreadable(x) <=> FirstSlice(x))
  BY <1>1, <1>4 DEF Plain
<1>6. IsAud(x) => Open(before, n + 1) \/ \A j \in 1..n : Payload(before[j]) = <<>>
  BY <1>1, <1>2, <1>3, <1>4 DEF Plain
<1> QED BY <1>5, <1>6 DEF PlainNext, before, x, n

(* A round takes the NAL unit x from `at' to e. *)
LoadTakes(r, data, next, e) ==
  LET x == SubSeq(data, r.at, e)
  IN /\ next \in Nat /\ e \in r.at..Len(data) /\ IsNal(data, r.at, e)
     /\ LoadNal(r, data) = LoadWith(r, next, x)
     /\ \/ next = 0 /\ e = Len(data)
        \/ next \in Begins(data) /\ next > r.at /\ e + 1 = next /\ next # 0

LEMMA LoadTakesNal ==
  ASSUME NEW data \in Seq(Nat), NEW r, r.at \in Begins(data)
  PROVE  \E next, e : LoadTakes(r, data, next, e)
<1> DEFINE f == r.at
           next == FindStartCode(data, f + StartCodeSize(data, f))
           e == IF next = 0 THEN Len(data) ELSE next - 1
           x == SubSeq(data, f, e)
<1>1. /\ Len(data) \in Nat /\ f \in 1..Len(data) /\ f # 0
      /\ Begins(data) \subseteq 1..Len(data)
  <2>1. f \in 1..Len(data) /\ Begins(data) \subseteq 1..Len(data)
    BY BeginsAre
  <2> QED BY <2>1
<1> HIDE DEF next
<1>2. \/ next = 0 /\ IsNal(data, f, Len(data))
      \/ next \in Begins(data) /\ next > f /\ IsNal(data, f, next - 1)
  BY LoadFinds DEF next
<1>3. LoadNal(r, data) = LoadWith(r, next, x)
  BY <1>1, LoadNalIs DEF next
<1>4. CASE next = 0
  <2>1. next \notin Begins(data) /\ e = Len(data) /\ e \in f..Len(data)
    BY <1>1, <1>4
  <2> QED BY <1>2, <1>3, <1>4, <2>1 DEF LoadTakes
<1>5. CASE next # 0
  <2>1. next \in Begins(data) /\ next > f /\ IsNal(data, f, e)
    BY <1>2, <1>5
  <2>2. next \in Nat /\ e \in f..Len(data) /\ e + 1 = next
    BY <1>1, <1>5, <2>1
  <2> QED BY <1>3, <1>5, <2>1, <2>2 DEF LoadTakes
<1> QED BY <1>4, <1>5

LEMMA LoadRound ==
  ASSUME NEW data \in Seq(Nat), Plain(Nals(data)), NEW r, LoadStands(r, data)
  PROVE  /\ LoadStands(LoadNal(r, data), data)
         /\ LoadNal(r, data).at = 0 \/ (r.at # 0 /\ LoadNal(r, data).at > r.at)
<1>1. CASE r.at = 0
  <2>1. LoadNal(r, data) = r
    BY <1>1 DEF LoadNal
  <2> QED BY <1>1, <2>1
<1>2. CASE r.at \in Begins(data) /\ LoadHolds(r, NalsTo(data, r.at - 1))
  <2> DEFINE f == r.at
             before == NalsTo(data, f - 1)
  <2>1. PICK next, e : LoadTakes(r, data, next, e)
    BY <1>2, LoadTakesNal
  <2> DEFINE x == SubSeq(data, f, e)
             l == LoadWith(r, next, x)
  <2>2. f \in Begins(data) /\ f # 0 /\ f - 1 \in 0..Len(data) /\ r \in Loads
    <3>1. f \in 1..Len(data) /\ Len(data) \in Nat
      BY <1>2, BeginsAre
    <3> QED BY <1>2, <3>1 DEF LoadStands
  <2>3. /\ next \in Nat /\ e \in f..Len(data) /\ IsNal(data, f, e)
        /\ LoadNal(r, data) = l
        /\ \/ next = 0 /\ e = Len(data)
           \/ next \in Begins(data) /\ next > f /\ e + 1 = next /\ next # 0
    BY <2>1 DEF LoadTakes
  <2>4. x \in Seq(Nat) /\ StartCodeSize(x, 1) # 0 /\ NalsTo(data, e) = Append(before, x)
    BY <2>3 DEF IsNal
  <2>5. PlainNext(before, x)
    BY <2>2, <2>3, PlainHere
  <2>6. before \in Seq(Seq(Nat)) /\ LoadHolds(r, before)
    BY <1>2, <2>2, NalsToType
  <2> HIDE DEF x, before, l, f
  <2>7. l \in Loads /\ l.at = next /\ LoadHolds(l, Append(before, x))
    BY <2>2, <2>3, <2>4, <2>5, <2>6, LoadStep DEF l
  <2>8. LoadHolds(l, NalsTo(data, e))
    BY <2>4, <2>7
  <2>9. LoadStands(l, data)
    <3>1. CASE next = 0
      BY <2>3, <2>7, <2>8, <3>1, NalsAre DEF LoadStands
    <3>2. CASE next # 0
      <4>1. next - 1 = e
        <5>1. f \in Nat
          BY <1>2, BeginsAre DEF f
        <5> QED BY <2>3, <3>2, <5>1
      <4> QED BY <2>3, <2>7, <2>8, <3>2, <4>1 DEF LoadStands
    <3> QED BY <3>1, <3>2
  <2> QED BY <2>2, <2>3, <2>7, <2>9 DEF f
<1> QED BY <1>1, <1>2 DEF LoadStands

AfterLoads(f, n, data) ==
  f = [k \in 0..n |-> IF k = 0 THEN LoadFresh(data) ELSE LoadNal(f[k - 1], data)]

LoadLast(data) == (CHOOSE f : AfterLoads(f, Len(data), data))[Len(data)]

LEMMA LoadTestStreamIs ==
  ASSUME NEW data
  PROVE  LET last == LoadLast(data)
             units == (IF last.unit = <<>> THEN last ELSE PushUnit(last)).units
         IN LoadTestStream(data)
              = IF units = <<>> THEN <<[data |-> data, key |-> TRUE]>> ELSE units
BY DEF LoadTestStream, LoadLast, AfterLoads

(* The states h after each round. *)
LoadsAre(h, data) ==
  /\ LoadLast(data) = h[Len(data)] /\ h[0] = LoadFresh(data)
  /\ \A k \in 1..Len(data) : h[k] = LoadNal(h[k - 1], data)
  /\ \A k \in 0..Len(data) : LoadStands(h[k], data)

LEMMA LoadsExist ==
  ASSUME NEW data \in Seq(Nat), Plain(Nals(data))
  PROVE  \E h : LoadsAre(h, data)
<1> DEFINE S == {r \in Loads : LoadStands(r, data)}
           n == Len(data)
           x == LoadFresh(data)
           step == [k \in 1..n |-> [r \in S |-> LoadNal(r, data)]]
<1>0. n \in Nat /\ n \in 0..n /\ 0 \in 0..n
  OBVIOUS
<1>1. x \in S
  BY LoadBegins DEF LoadStands
<1>2. step \in [1..n -> [S -> S]]
  BY LoadRound DEF LoadStands
<1> HIDE DEF x
<1>3. PICK g \in [0..n -> S] : Runs(g, n, x, step)
  <2> HIDE DEF S, step, n
  <2> QED BY <1>0, <1>1, <1>2, RunExists
<1>4. \A k \in 1..n : g[k] = LoadNal(g[k - 1], data)
  <2> TAKE k \in 1..n
  <2>1. k - 1 \in 0..n /\ g[k - 1] \in S
    <3>1. k - 1 \in 0..n
      BY <1>0
    <3>2. g \in [0..n -> S]
      BY <1>3, Zenon
    <3> HIDE DEF S, n
    <3> QED BY <3>1, <3>2, Zenon
  <2> QED BY <1>3, <2>1 DEF Runs
<1>5. AfterLoads(g, n, data)
  <2>1. g = [k \in 0..n |-> g[k]]
    BY <1>3
  <2>2. \A k \in 0..n : g[k] = IF k = 0 THEN LoadFresh(data) ELSE LoadNal(g[k - 1], data)
    BY <1>3, <1>4 DEF Runs, x
  <2> QED BY <2>1, <2>2, Zenon DEF AfterLoads
<1>6. PICK h : h = (CHOOSE f : AfterLoads(f, n, data)) /\ AfterLoads(h, n, data)
  BY <1>5, Zenon
<1>7. h[0] = x /\ \A k \in 1..n : h[k] = LoadNal(h[k - 1], data)
  <2>1. \A k \in 0..n : h[k] = IF k = 0 THEN LoadFresh(data) ELSE LoadNal(h[k - 1], data)
    BY <1>6 DEF AfterLoads
  <2>2. \A k \in 1..n : k \in 0..n /\ k # 0
    BY <1>0
  <2> QED BY <1>0, <2>1, <2>2 DEF x
<1>8. RunsIn(h, n, S, x, step)
  BY <1>7 DEF RunsIn
<1>9. \A k \in 0..n : h[k] \in S
  <2> HIDE DEF S, step, n
  <2> QED BY <1>0, <1>1, <1>2, <1>8, RunStays
<1> QED BY <1>6, <1>7, <1>9 DEF LoadLast, LoadsAre, x

LEMMA LoadEnds ==
  ASSUME NEW data \in Seq(Nat), Plain(Nals(data))
  PROVE  LoadStands(LoadLast(data), data) /\ LoadLast(data).at = 0
<1> DEFINE n == Len(data)
<1>0. n \in Nat /\ n \in 0..n /\ 0 \in 0..n
  OBVIOUS
<1>1. PICK h : LoadsAre(h, data)
  BY LoadsExist
<1>2. /\ LoadLast(data) = h[n] /\ \A k \in 0..n : LoadStands(h[k], data)
      /\ \A k \in 1..n : h[k] = LoadNal(h[k - 1], data)
  BY <1>1 DEF LoadsAre
<1>3. h[n].at = 0
  <2> DEFINE T == {k \in 0..n : h[k].at = 0 \/ h[k].at > k}
  <2>1. ASSUME NEW k \in 0..n PROVE h[k].at \in 0..n
    <3>1. LoadStands(h[k], data)
      BY <1>2
    <3> QED BY <1>0, <3>1, BeginsAre DEF LoadStands
  <2>2. 0 \in T
    BY <1>0, <2>1
  <2>3. ASSUME NEW k \in 0..n - 1, k \in T PROVE k + 1 \in T
    <3>1. k \in 0..n /\ k + 1 \in 0..n /\ k + 1 \in 1..n /\ (k + 1) - 1 = k
      BY <1>0
    <3>2. h[k + 1] = LoadNal(h[k], data)
      BY <1>2, <3>1
    <3>3. h[k + 1].at = 0 \/ (h[k].at # 0 /\ h[k + 1].at > h[k].at)
      BY <1>2, <3>1, <3>2, LoadRound
    <3>4. h[k].at \in 0..n /\ h[k + 1].at \in 0..n
      BY <2>1, <3>1
    <3>5. \A a \in 0..n, b \in 0..n : a > k /\ b > a => b > k + 1
      BY <1>0
    <3> QED BY <2>3, <3>1, <3>3, <3>4, <3>5
  <2> HIDE DEF T
  <2>4. n \in T
    BY <1>0, <2>2, <2>3, UpFrom
  <2> QED BY <1>0, <2>1, <2>4 DEF T
<1> QED BY <1>0, <1>2, <1>3

LEMMA LoadTestStreamGives ==
  ASSUME NEW data \in Seq(Nat), Plain(Nals(data))
  PROVE  /\ LoadLast(data) \in Loads
         /\ LoadTestStream(data) = PushUnit(LoadLast(data)).units
         /\ DataOf(LoadTestStream(data)) = UnitsOf(Nals(data))
<1> DEFINE last == LoadLast(data)
           nals == Nals(data)
           pushed == PushUnit(last)
<1>1. last \in Loads /\ LoadHolds(last, nals)
  <2>1. Len(data) \in Nat /\ 0 \notin Begins(data)
    BY BeginsAre
  <2> QED BY <2>1, LoadEnds DEF LoadStands
<1>2. Open(nals, Len(nals) + 1) /\ nals # <<>>
  <2>1. Open(nals, Len(nals) + 1)
    BY DEF Plain
  <2>2. ~Open(<<>>, Len(<<>>) + 1)
    BY DEF Open
  <2> QED BY <2>1, <2>2
<1>3. Reader(last).unit = last.unit /\ Reader(last).vcl = last.vcl
      /\ Reader(last).units = DataOf(last.units)
  BY <1>1, ReaderIs
<1>4. last.unit # <<>> /\ UnitsOf(nals) = Append(DataOf(last.units), last.unit)
  BY <1>1, <1>2, <1>3 DEF LoadHolds, Holds
<1>5. pushed \in Loads /\ DataOf(pushed.units) = UnitsOf(nals)
  BY <1>1, <1>4, PushUnitIs
<1> HIDE DEF last, pushed
<1>6. pushed.units # <<>>
  <2>1. ASSUME pushed.units = <<>> PROVE FALSE
    <3>1. DataOf(<<>>) = <<>>
      BY DEF DataOf
    <3>2. Append(DataOf(last.units), last.unit) # <<>>
      BY <1>1, LoadFields, DataOfType, OneMore
    <3> QED BY <1>4, <1>5, <2>1, <3>1, <3>2
  <2> QED BY <2>1
<1>7. LoadTestStream(data) = pushed.units
  BY <1>4, <1>6, LoadTestStreamIs DEF last, pushed
<1> QED BY <1>1, <1>5, <1>7 DEF last, pushed

(* The demo's splitter (loadH264TestStream, host_bridge_demo.cpp 284-330)  *)
(* makes of a stream the same access units as an encoder's reader thread   *)
(* (_process_nal, _reader_loop, _emit_current, video.py 285-328), however   *)
(* that one reads it, where what differs between them does not occur:      *)
(* slices of types 2 to 4, a slice whose first_mb_in_slice cannot be read, *)
(* NAL units of which none is a slice in front of a delimiter, and a last  *)
(* access unit without a slice.                                            *)
THEOREM SplittersAgree ==
  ASSUME NEW data \in Seq(Nat), Plain(Nals(data)), NEW ends, AreEnds(data, ends)
  PROVE  DataOf(LoadTestStream(data)) = AccessUnits(Reads(data, ends))
<1>1. Reference(data) = UnitsOf(Nals(data))
  BY DEF Plain, Reference
<1> QED BY <1>1, LoadTestStreamGives, UnitsComeFromTheStream

-----------------------------------------------------------------------------
(* Whole NAL units one after the other.  A stream is clean when its last   *)
(* byte cannot be taken for the beginning of a start code.                 *)
Clean(d) == d \in Seq(Nat) /\ (d = <<>> \/ d[Len(d)] # 0)

NalUnits ==
  {x \in Seq(Nat) : Begins(x) = {1} /\ x[Len(x)] # 0 /\ Payload(x) # <<>>}

LEMMA JoinIs ==
  ASSUME NEW S, NEW d \in Seq(S), NEW x \in Seq(S)
  PROVE  /\ d \o x \in Seq(S) /\ Len(d) \in Nat /\ Len(x) \in Nat
         /\ Len(d \o x) = Len(d) + Len(x)
         /\ \A i \in 1..Len(d) : (d \o x)[i] = d[i]
         /\ \A i \in 1..Len(x) : (d \o x)[Len(d) + i] = x[i]
BY ConcatProperties

LEMMA NalUnitIs ==
  ASSUME NEW x \in NalUnits
  PROVE  /\ x \in Seq(Nat) /\ Len(x) \in Nat /\ Len(x) >= 3 /\ x # <<>> /\ Clean(x)
         /\ \A b : b \in Begins(x) <=> b = 1
<1>1. x \in Seq(Nat) /\ Begins(x) = {1} /\ x[Len(x)] # 0
  BY DEF NalUnits
<1>2. 1 \in Begins(x)
  BY <1>1
<1>3. Len(x) >= 3 /\ Len(x) \in Nat
  <2>1. Len(x) \in Nat
    BY <1>1
  <2>2. 1 + 3 <= Len(x) \/ 1 + 2 <= Len(x)
    BY <1>1, <1>2, BeginsAre
  <2> QED BY <2>1, <2>2
<1>4. x # <<>>
  BY <1>3
<1> QED BY <1>1, <1>3, <1>4 DEF Clean

(* The bytes of d and then those of x, from the i-th on. *)
LEMMA BytesOfJoin ==
  ASSUME NEW d \in Seq(Nat), NEW x \in Seq(Nat)
  PROVE  /\ \A i \in 1..Len(d) : (d \o x)[i] = d[i]
         /\ \A i \in Nat : i > Len(d) /\ i <= Len(d) + Len(x) => (d \o x)[i] = x[i - Len(d)]
<1>1. /\ Len(d) \in Nat /\ Len(x) \in Nat
      /\ \A i \in 1..Len(d) : (d \o x)[i] = d[i]
      /\ \A i \in 1..Len(x) : (d \o x)[Len(d) + i] = x[i]
  BY JoinIs
<1>2. ASSUME NEW i \in Nat, i > Len(d), i <= Len(d) + Len(x)
      PROVE  (d \o x)[i] = x[i - Len(d)]
  <2>1. i - Len(d) \in 1..Len(x) /\ Len(d) + (i - Len(d)) = i
    BY <1>1, <1>2
  <2> QED BY <1>1, <2>1
<1> QED BY <1>1, <1>2

(* A NAL unit begins at b of a stream of n bytes; what data says of b is in *)
(* three and four, and before tells whether a 0 is in front of it.         *)
BeginsAt(n, b, three, four, before) ==
  b \in 1..n /\ ((four /\ b + 3 <= n) \/ (three /\ b + 2 <= n /\ ~before))

LEMMA BeginsAtIs ==
  ASSUME NEW data \in Seq(Nat), NEW b
  PROVE  b \in Begins(data) <=>
           BeginsAt(Len(data), b, Three(data, b), Four(data, b), b > 1 /\ data[b - 1] = 0)
BY BeginsAre DEF BeginsAt

LEMMA BeginsBefore ==
  ASSUME NEW d, Clean(d), NEW x \in Seq(Nat), NEW b \in 1..Len(d)
  PROVE  b \in Begins(d \o x) <=> b \in Begins(d)
<1> DEFINE e == d \o x
           n == Len(d)
           m == Len(x)
<1>1. /\ d \in Seq(Nat) /\ e \in Seq(Nat) /\ n \in Nat /\ m \in Nat /\ Len(e) = n + m
      /\ \A i \in 1..n : e[i] = d[i]
  BY JoinIs DEF Clean
<1>2. n >= 1 /\ d[n] # 0 /\ e[n] # 0
  <2>1. n >= 1 /\ n \in 1..n /\ d # <<>>
    BY <1>1
  <2> QED BY <1>1, <2>1 DEF Clean
<1>3. b > 1 => e[b - 1] = d[b - 1]
  <2>1. b > 1 => b - 1 \in 1..n
    BY <1>1
  <2> QED BY <1>1, <2>1
<1> HIDE DEF e, n, m
<1>0. n \in Nat /\ m \in Nat
  BY <1>1
<1>4. b \in 1..n /\ b \in 1..n + m /\ b \in Nat
  BY <1>0 DEF n
<1>5. Three(e, b) => b + 2 <= n
  <2>1. Three(e, b) => n # b /\ n # b + 1
    BY <1>2 DEF Three
  <2> QED BY <1>1, <1>4, <2>1
<1>6. Four(e, b) => b + 3 <= n
  <2>1. Four(e, b) => n # b /\ n # b + 1 /\ n # b + 2
    BY <1>2 DEF Four
  <2> QED BY <1>1, <1>4, <2>1
<1>7. b + 2 <= n => (Three(e, b) <=> Three(d, b))
  <2>1. b + 2 <= n => b \in 1..n /\ b + 1 \in 1..n /\ b + 2 \in 1..n
    BY <1>0, <1>4
  <2> QED BY <1>1, <2>1 DEF Three
<1>8. b + 3 <= n => (Four(e, b) <=> Four(d, b))
  <2>1. b + 3 <= n => b \in 1..n /\ b + 1 \in 1..n /\ b + 2 \in 1..n /\ b + 3 \in 1..n
    BY <1>0, <1>4
  <2> QED BY <1>1, <2>1 DEF Four
<1>9. b \in Begins(d) <=> BeginsAt(n, b, Three(d, b), Four(d, b), b > 1 /\ d[b - 1] = 0)
  BY <1>1, BeginsAtIs DEF n
<1>10. b \in Begins(e) <=> BeginsAt(n + m, b, Three(e, b), Four(e, b), b > 1 /\ e[b - 1] = 0)
  BY <1>1, BeginsAtIs
<1>11. b + 3 <= n => b + 3 <= n + m
  BY <1>1, <1>4
<1>12. b + 2 <= n => b + 2 <= n + m
  BY <1>1, <1>4
<1> QED BY <1>3, <1>4, <1>5, <1>6, <1>7, <1>8, <1>9, <1>10, <1>11, <1>12 DEF BeginsAt, e

LEMMA BeginsBehind ==
  ASSUME NEW d, Clean(d), NEW x \in NalUnits, NEW b \in Nat, b > Len(d),
         b <= Len(d) + Len(x)
  PROVE  b \in Begins(d \o x) <=> b = Len(d) + 1
<1> DEFINE e == d \o x
           n == Len(d)
           m == Len(x)
           c == b - n
<1>0. x \in Seq(Nat) /\ \A i : i \in Begins(x) <=> i = 1
  BY NalUnitIs
<1>1. /\ d \in Seq(Nat) /\ e \in Seq(Nat) /\ Len(e) = n + m
      /\ \A i \in Nat : i > n /\ i <= n + m => e[i] = x[i - n]
  BY <1>0, JoinIs, BytesOfJoin DEF Clean
<1>2. n \in Nat /\ m \in Nat /\ n + m \in Nat
  BY <1>0, <1>1
<1>3. n # 0 => e[n] # 0
  <2>1. n # 0 => d # <<>> /\ n \in 1..n
    BY <1>1, <1>2
  <2>2. n # 0 => e[n] = d[n]
    BY <1>0, <1>1, <2>1, BytesOfJoin
  <2> QED BY <2>1, <2>2 DEF Clean
<1> HIDE DEF e, n, m
<1>4. b \in Nat /\ b > n /\ b <= n + m
  BY DEF n, m
<1>5. c \in 1..m /\ b \in 1..n + m /\ (b = n + 1 <=> c = 1) /\ b > 1 - 1
  BY <1>2, <1>4
<1>6. /\ e[b] = x[c] /\ (b + 1 <= n + m => e[b + 1] = x[c + 1])
      /\ (b + 2 <= n + m => e[b + 2] = x[c + 2])
      /\ (b + 3 <= n + m => e[b + 3] = x[c + 3])
  <2>1. ASSUME NEW k \in Nat, NEW i, i = b + k, i <= n + m PROVE e[i] = x[c + k]
    <3>1. i \in Nat /\ i > n /\ i - n = c + k
      BY <1>2, <1>4, <2>1
    <3> HIDE DEF c
    <3> QED BY <1>1, <2>1, <3>1
  <2> HIDE DEF c
  <2>2. b = b + 0 /\ c = c + 0
    BY <1>4, <1>5
  <2> QED BY <1>4, <2>1, <2>2
<1>7. /\ b + 2 <= n + m <=> c + 2 <= m
      /\ b + 3 <= n + m <=> c + 3 <= m
      /\ b + 3 <= n + m => b + 2 <= n + m
      /\ b + 2 <= n + m => b + 1 <= n + m
  BY <1>2, <1>4
<1>8. c # 1 => b > 1 /\ c > 1 /\ e[b - 1] = x[c - 1]
  <2>1. c # 1 => b - 1 \in Nat /\ b - 1 > n /\ b - 1 <= n + m /\ b - 1 - n = c - 1
                 /\ b > 1 /\ c > 1
    BY <1>2, <1>4
  <2> QED BY <1>1, <2>1
<1>9. c = 1 => ~(b > 1 /\ e[b - 1] = 0)
  <2>1. c = 1 => b - 1 = n /\ (b > 1 => n # 0)
    BY <1>2, <1>4
  <2> QED BY <1>3, <2>1
<1>10. b \in Begins(e) <=> BeginsAt(n + m, b, Three(e, b), Four(e, b), b > 1 /\ e[b - 1] = 0)
  BY <1>1, BeginsAtIs
<1>11. c = 1 <=> BeginsAt(m, c, Three(x, c), Four(x, c), c > 1 /\ x[c - 1] = 0)
  BY <1>0, BeginsAtIs DEF m
<1> HIDE DEF c
<1>12. c = 1 => ~(c > 1 /\ x[c - 1] = 0)
  BY <1>5
<1>13. (b + 2 <= n + m => (Three(e, b) <=> Three(x, c)))
       /\ (b + 3 <= n + m => (Four(e, b) <=> Four(x, c)))
  BY <1>6, <1>7 DEF Three, Four
<1>14. BeginsAt(n + m, b, Three(e, b), Four(e, b), b > 1 /\ e[b - 1] = 0) <=> c = 1
  BY <1>5, <1>7, <1>8, <1>9, <1>11, <1>12, <1>13 DEF BeginsAt
<1> QED BY <1>5, <1>10, <1>14 DEF e, n

(* A NAL unit behind a clean stream is one more of its NAL units. *)
LEMMA JoinNals ==
  ASSUME NEW d, Clean(d), NEW x \in NalUnits
  PROVE  /\ Clean(d \o x) /\ d \o x # <<>> /\ Nals(d) \in Seq(Seq(Nat))
         /\ Nals(d \o x) = Append(Nals(d), x)
<1> DEFINE e == d \o x
           n == Len(d)
           m == Len(x)
           f == n + 1
<1>0. x \in Seq(Nat) /\ d \in Seq(Nat) /\ m >= 3 /\ x[m] # 0
  BY NalUnitIs DEF Clean, NalUnits
<1>1. /\ e \in Seq(Nat) /\ n \in Nat /\ m \in Nat /\ Len(e) = n + m
      /\ \A i \in 1..n : e[i] = d[i]
      /\ \A i \in 1..m : e[n + i] = x[i]
  BY <1>0, JoinIs
<1>2. \A b \in 1..n : b \in Begins(e) <=> b \in Begins(d)
  BY <1>0, BeginsBefore
<1>3. \A b \in Nat : b > n /\ b <= n + m => (b \in Begins(e) <=> b = n + 1)
  BY <1>0, BeginsBehind
<1>4. \A b : b \in Begins(e) => b \in 1..Len(e)
  BY <1>1, BeginsAre
<1>5. \A b \in Begins(d) : b \in 1..n
  BY <1>0, BeginsAre
<1>6. Clean(e) /\ e # <<>>
  <2>1. m \in 1..m /\ n + m # 0
    BY <1>0, <1>1
  <2>2. e[Len(e)] = x[m]
    BY <1>1, <2>1
  <2>3. e # <<>>
    BY <1>1, <2>1
  <2> QED BY <1>0, <1>1, <2>2, <2>3 DEF Clean
<1>7. SubSeq(e, f, n + m) = x
  <2> DEFINE y == SubSeq(e, f, n + m)
  <2>1. n + m \in 0..Len(e) /\ f \in 1..n + m + 1 /\ n + m - f + 1 = m
    BY <1>1
  <2>2. y \in Seq(Nat) /\ Len(y) = m /\ \A i \in 1..m : y[i] = e[f + i - 1]
    <3> HIDE DEF e, n, m, f
    <3>1. /\ y \in Seq(Nat) /\ Len(y) = n + m - f + 1
          /\ \A i \in 1..n + m - f + 1 : y[i] = e[f + i - 1]
      BY <1>1, <2>1, SliceIs
    <3> QED BY <2>1, <3>1
  <2>3. \A i \in 1..m : f + i - 1 = n + i
    BY <1>1
  <2>4. \A i \in 1..m : y[i] = x[i]
    BY <1>1, <2>2, <2>3
  <2>5. Len(x) = m
    OBVIOUS
  <2> HIDE DEF y, m
  <2>6. y = x
    BY <1>0, <2>2, <2>4, <2>5, SeqEqual
  <2> QED BY <2>6 DEF y
<1> HIDE DEF e, n, m, f
<1>8. f \in 1..n + m /\ f = n + 1 /\ f - 1 = n /\ f \in Nat /\ f > n /\ f <= n + m
      /\ n + m \in f..n + m /\ n \in 0..n /\ n + m \in Nat
  BY <1>0, <1>1 DEF f
<1>9. f \in Begins(e)
  BY <1>3, <1>8
<1>10. NoneBetween(e, f, n + m + 1)
  <2>1. \A b \in 1..n + m : f < b => b \in Nat /\ b > n /\ b <= n + m /\ b # n + 1
    BY <1>1, <1>8
  <2>2. \A b \in Begins(e) : ~(f < b)
    BY <1>1, <1>3, <1>4, <2>1
  <2> QED BY <2>2 DEF NoneBetween
<1>11. NalsTo(e, n + m) = Append(NalsTo(e, n), x)
  BY <1>1, <1>7, <1>8, <1>9, <1>10, OneNal
<1>12. NalsTo(e, n) = NalsTo(d, n)
  <2>1. Agree(n, Singles(d), Begins(d), Singles(e), Begins(e))
    <3>1. \A i \in 1..n : i \in DOMAIN d /\ i \in DOMAIN e
      BY <1>0, <1>1 DEF n
    <3>2. \A i \in 1..n : Singles(d)[i] = <<d[i]>> /\ Singles(e)[i] = <<e[i]>>
      BY <3>1 DEF Singles
    <3> QED BY <1>1, <1>2, <3>2 DEF Agree
  <2>2. AreParts(n, Singles(d), Nat)
    BY <1>0, <1>8, SinglesAreParts DEF n
  <2>3. n \in Nat
    BY <1>1
  <2>4. PiecesTo(n, Singles(d), Begins(d)) = PiecesTo(n, Singles(e), Begins(e))
    BY <2>1, <2>2, <2>3, PiecesToSame
  <2> QED BY <2>4 DEF NalsTo
<1>13. Nals(e) = NalsTo(e, n + m) /\ Nals(d) = NalsTo(d, n) /\ Nals(d) \in Seq(Seq(Nat))
  BY <1>0, <1>1, <1>8, NalsAre, NalsToType DEF n
<1> QED BY <1>6, <1>11, <1>12, <1>13 DEF e

LEMMA NothingIsClean == Clean(<<>>) /\ Nals(<<>>) = <<>>
<1>1. <<>> \in Seq(Nat) /\ Len(<<>>) = 0
  OBVIOUS
<1>2. Nals(<<>>) = NalsTo(<<>>, 0)
  BY <1>1, NalsAre
<1> QED BY <1>1, <1>2, PiecesToNothing DEF Clean, NalsTo

-----------------------------------------------------------------------------
(* FlattenSeq satisfies its equation: Append joins one more. *)
Flattens(f, s) ==
  f = [i \in 1..Len(s) |-> IF i = 1 THEN s[i] ELSE f[i - 1] \o s[i]]

Joined(g, n, s) == g[0] = <<>> /\ \A k \in 1..n : g[k] = g[k - 1] \o s[k]

LEMMA FlattenIs ==
  ASSUME NEW s
  PROVE  FlattenSeq(s) = IF Len(s) = 0 THEN s ELSE (CHOOSE f : Flattens(f, s))[Len(s)]
BY DEF FlattenSeq, Flattens

LEMMA JoinedExists ==
  ASSUME NEW S, NEW s \in Seq(Seq(S))
  PROVE  \E g \in [0..Len(s) -> Seq(S)] : Joined(g, Len(s), s)
<1> DEFINE n == Len(s)
           T == Seq(S)
           e == <<>>
           step == [k \in 1..n |-> [r \in T |-> r \o s[k]]]
<1>1. n \in Nat /\ e \in T /\ \A k \in 1..n : s[k] \in T
  OBVIOUS
<1>2. \A r \in T, k \in 1..n : r \o s[k] \in T
  BY <1>1, ConcatProperties
<1>3. step \in [1..n -> [T -> T]]
  BY <1>2
<1> HIDE DEF n, T, e
<1>4. PICK g \in [0..n -> T] : Runs(g, n, e, step)
  <2> HIDE DEF step
  <2> QED BY <1>1, <1>3, RunExists
<1>5. ASSUME NEW k \in 1..n PROVE g[k] = g[k - 1] \o s[k]
  <2>1. k - 1 \in 0..n
    BY <1>1
  <2>2. g[k - 1] \in T
    BY <2>1
  <2> QED BY <1>4, <2>2 DEF Runs
<1>6. Joined(g, n, s)
  BY <1>4, <1>5 DEF Joined, Runs, e
<1> QED BY <1>6 DEF n, T

LEMMA FlattenIsJoined ==
  ASSUME NEW S, NEW s \in Seq(Seq(S)), NEW g \in [0..Len(s) -> Seq(S)],
         Joined(g, Len(s), s)
  PROVE  FlattenSeq(s) = g[Len(s)]
<1> DEFINE n == Len(s)
           T == Seq(S)
<1>1. n \in Nat /\ g[0] = <<>> /\ \A k \in 1..n : s[k] \in T
  BY DEF Joined
<1>2. g \in [0..n -> T] /\ \A k \in 1..n : g[k] = g[k - 1] \o s[k]
  BY DEF Joined
<1>3. CASE n = 0
  <2>1. s = <<>>
    BY <1>3
  <2> QED BY <1>1, <1>3, <2>1, FlattenIs
<1>4. CASE n # 0
  <2> DEFINE t == [i \in 1..n |-> g[i]]
  <2>1. 1 \in 1..n /\ g[1] = s[1]
    <3>1. 1 \in 1..n /\ 1 - 1 = 0
      BY <1>1, <1>4
    <3>2. g[1] = <<>> \o s[1] /\ s[1] \in T
      BY <1>1, <1>2, <3>1
    <3> QED BY <3>1, <3>2
  <2>2. \A i \in 1..n : t[i] = IF i = 1 THEN s[i] ELSE t[i - 1] \o s[i]
    <3> TAKE i \in 1..n
    <3>1. CASE i = 1
      BY <2>1, <3>1
    <3>2. CASE i # 1
      <4>1. i - 1 \in 1..n
        BY <1>1, <3>2
      <4>2. t[i - 1] = g[i - 1]
        BY <4>1
      <4> QED BY <1>2, <3>2, <4>2
    <3> QED BY <3>1, <3>2
  <2>3. Flattens(t, s)
    <3>1. t = [i \in 1..n |-> t[i]]
      OBVIOUS
    <3> HIDE DEF t
    <3> QED BY <2>2, <3>1 DEF Flattens
  <2> HIDE DEF t
  <2>4. PICK h : h = (CHOOSE f : Flattens(f, s)) /\ Flattens(h, s)
    BY <2>3, Zenon
  <2>5. \A i \in 1..n : h[i] = IF i = 1 THEN s[i] ELSE h[i - 1] \o s[i]
    BY <2>4 DEF Flattens
  <2> DEFINE A == {k \in 1..n : h[k] = g[k]}
  <2>6. 1 \in A
    BY <2>1, <2>5
  <2>7. ASSUME NEW k \in 1..n - 1, k \in A PROVE k + 1 \in A
    <3>1. k + 1 \in 1..n /\ k + 1 # 1 /\ (k + 1) - 1 = k
      BY <1>1
    <3>2. h[k + 1] = h[k] \o s[k + 1] /\ g[k + 1] = g[k] \o s[k + 1]
      BY <1>2, <2>5, <3>1
    <3> QED BY <2>7, <3>1, <3>2
  <2>8. n \in A
    <3>1. n \in 1..n
      BY <1>1, <1>4
    <3> HIDE DEF A, n
    <3> QED BY <1>1, <2>6, <2>7, <3>1, UpFrom
  <2>9. FlattenSeq(s) = h[n]
    BY <1>4, <2>4, FlattenIs
  <2> QED BY <2>8, <2>9
<1> QED BY <1>3, <1>4

LEMMA FlattenType ==
  ASSUME NEW S, NEW s \in Seq(Seq(S))
  PROVE  FlattenSeq(s) \in Seq(S)
<1>1. PICK g \in [0..Len(s) -> Seq(S)] : Joined(g, Len(s), s)
  BY JoinedExists
<1>2. Len(s) \in 0..Len(s)
  OBVIOUS
<1> QED BY <1>1, <1>2, FlattenIsJoined

LEMMA FlattenNext ==
  ASSUME NEW S, NEW s \in Seq(Seq(S)), NEW x \in Seq(S)
  PROVE  FlattenSeq(Append(s, x)) = FlattenSeq(s) \o x
<1> DEFINE T == Seq(S)
           t == Append(s, x)
           n == Len(s)
<1>1. /\ s \in Seq(T) /\ x \in T /\ t \in Seq(T) /\ n \in Nat /\ Len(t) = n + 1
      /\ \A i \in 1..n : t[i] = s[i]
      /\ t[n + 1] = x
  OBVIOUS
<1>2. PICK g \in [0..Len(t) -> T] : Joined(g, Len(t), t)
  BY <1>1, JoinedExists
<1> DEFINE h == [k \in 0..n |-> g[k]]
<1>3. h \in [0..n -> T] /\ \A k \in 0..n : h[k] = g[k]
  <2>1. \A k \in 0..n : k \in 0..Len(t)
    BY <1>1
  <2> HIDE DEF T, t, n
  <2> QED BY <2>1
<1> HIDE DEF T, t, n, h
<1>4. Joined(h, n, s)
  <2>1. \A k \in 1..n : k \in 0..n /\ k - 1 \in 0..n /\ k \in 1..Len(t)
    BY <1>1
  <2>2. 0 \in 0..n
    BY <1>1
  <2> QED BY <1>1, <1>2, <1>3, <2>1, <2>2 DEF Joined
<1>5. FlattenSeq(s) = h[n] /\ FlattenSeq(t) = g[n + 1]
  BY <1>1, <1>2, <1>3, <1>4, FlattenIsJoined DEF T, n
<1>6. g[n + 1] = g[n] \o x
  <2>1. n + 1 \in 1..Len(t) /\ (n + 1) - 1 = n
    BY <1>1
  <2> QED BY <1>1, <1>2, <2>1 DEF Joined
<1>7. h[n] = g[n]
  BY <1>1, <1>3
<1> QED BY <1>5, <1>6, <1>7 DEF t

LEMMA FlattenNothing == FlattenSeq(<<>>) = <<>>
BY FlattenIs

-----------------------------------------------------------------------------
(* The slices of a clean stream and of one with a NAL unit behind it. *)
Picked(x) == IF IsVcl(x) THEN <<x>> ELSE <<>>

PickedOf(nals) == [k \in DOMAIN nals |-> Picked(nals[k])]

LEMMA PickedType ==
  ASSUME NEW x \in Seq(Nat)
  PROVE  Picked(x) \in Seq(Seq(Nat))
BY DEF Picked

LEMMA PickedNext ==
  ASSUME NEW nals \in Seq(Seq(Nat)), NEW x \in Seq(Nat)
  PROVE  /\ PickedOf(nals) \in Seq(Seq(Seq(Nat)))
         /\ PickedOf(Append(nals, x)) = Append(PickedOf(nals), Picked(x))
<1> DEFINE S == Seq(Nat)
           T == Seq(Seq(Nat))
           all == Append(nals, x)
           n == Len(nals)
<1>1. /\ nals \in Seq(S) /\ all \in Seq(S) /\ n \in Nat /\ Len(all) = n + 1
      /\ (\A i \in 1..n : all[i] = nals[i]) /\ all[n + 1] = x
  BY OneMore
<1>2. \A y \in S : Picked(y) \in T
  BY PickedType
<1> HIDE DEF S, T, all, n
<1>3. PickedOf(nals) \in Seq(T) /\ Len(PickedOf(nals)) = n
      /\ \A i \in 1..n : PickedOf(nals)[i] = Picked(nals[i])
  <2>1. DOMAIN nals = 1..n /\ \A i \in 1..n : Picked(nals[i]) \in T
    BY <1>1, <1>2 DEF n
  <2>2. PickedOf(nals) = [i \in 1..n |-> Picked(nals[i])]
    BY <2>1 DEF PickedOf
  <2> QED BY <1>1, <2>1, <2>2
<1>4. PickedOf(all) \in Seq(T) /\ Len(PickedOf(all)) = n + 1
      /\ \A i \in 1..n + 1 : PickedOf(all)[i] = Picked(all[i])
  BY <1>1, <1>2 DEF PickedOf
<1>5. Picked(x) \in T
  BY <1>2 DEF S
<1> DEFINE p == PickedOf(nals)
           q == PickedOf(all)
<1> HIDE DEF p, q
<1>6. Append(p, Picked(x)) \in Seq(T) /\ Len(Append(p, Picked(x))) = n + 1
      /\ (\A i \in 1..n : Append(p, Picked(x))[i] = p[i])
      /\ Append(p, Picked(x))[n + 1] = Picked(x)
  <2>1. p \in Seq(T) /\ Len(p) = n
    BY <1>3 DEF p
  <2> QED BY <1>1, <1>5, <2>1
<1>7. \A i \in 1..n + 1 : q[i] = Append(p, Picked(x))[i]
  <2>1. \A i \in 1..n + 1 : i \in 1..n \/ i = n + 1
    BY <1>1
  <2>2. n + 1 \in 1..n + 1 /\ \A i \in 1..n : i \in 1..n + 1
    BY <1>1
  <2> QED BY <1>1, <1>3, <1>4, <1>6, <2>1, <2>2 DEF p, q
<1>8. q = Append(p, Picked(x))
  BY <1>4, <1>6, <1>7, SeqEqual DEF q
<1> QED BY <1>3, <1>8 DEF p, q, T, all

LEMMA SlicesAre ==
  ASSUME NEW data
  PROVE  Slices(data) = FlattenSeq(PickedOf(Nals(data)))
BY DEF Slices, PickedOf, Picked

LEMMA SlicesType ==
  ASSUME NEW data \in Seq(Nat)
  PROVE  Slices(data) \in Seq(Seq(Nat))
<1>1. Nals(data) \in Seq(Seq(Nat)) /\ <<>> \in Seq(Nat)
  BY NalsAre, NalsToType
<1> QED BY <1>1, PickedNext, SlicesAre, FlattenType

LEMMA JoinSlices ==
  ASSUME NEW d, Clean(d), NEW x \in NalUnits
  PROVE  Slices(d \o x) = Slices(d) \o Picked(x) /\ Slices(d) \in Seq(Seq(Nat))
<1>1. x \in Seq(Nat) /\ d \in Seq(Nat)
  BY NalUnitIs DEF Clean
<1>2. Nals(d) \in Seq(Seq(Nat)) /\ Nals(d \o x) = Append(Nals(d), x)
  BY JoinNals
<1> QED BY <1>1, <1>2, PickedNext, PickedType, SlicesAre, SlicesType, FlattenNext

LEMMA NoSlices == Slices(<<>>) = <<>>
<1>1. PickedOf(<<>>) = <<>>
  BY DEF PickedOf
<1> QED BY <1>1, NothingIsClean, SlicesAre, FlattenNothing

LEMMA JoinIdr ==
  ASSUME NEW d, Clean(d), NEW x \in NalUnits
  PROVE  HasIdr(d \o x) <=> HasIdr(d) \/ Type(x) = 5
<1> DEFINE S == Seq(Nat)
           s == Slices(d)
           t == Slices(d \o x)
<1>1. s \in Seq(S) /\ t = s \o Picked(x) /\ x \in S /\ Picked(x) \in Seq(S)
  BY JoinSlices, NalUnitIs, PickedType
<1>2. IsVcl(x) <=> Type(x) \in 1..5
  BY DEF IsVcl, NalUnits
<1>3. HasIdr(d) <=> \E i \in DOMAIN s : Type(s[i]) = 5
  BY DEF HasIdr, Range
<1>4. HasIdr(d \o x) <=> \E i \in DOMAIN t : Type(t[i]) = 5
  BY DEF HasIdr, Range
<1> HIDE DEF s, t, S
<1>5. CASE IsVcl(x)
  <2>1. t = Append(s, x)
    BY <1>1, <1>5 DEF Picked
  <2>2. /\ Len(s) \in Nat /\ DOMAIN s = 1..Len(s) /\ DOMAIN t = 1..Len(s) + 1
        /\ \A i \in 1..Len(s) : t[i] = s[i]
        /\ t[Len(s) + 1] = x
    BY <1>1, <2>1
  <2>3. \A i : i \in 1..Len(s) + 1 <=> i \in 1..Len(s) \/ i = Len(s) + 1
    BY <2>2
  <2> QED BY <1>3, <1>4, <2>2, <2>3
<1>6. CASE ~IsVcl(x)
  <2>1. t = s /\ Type(x) # 5
    BY <1>1, <1>2, <1>6 DEF Picked
  <2> QED BY <1>3, <1>4, <2>1
<1> QED BY <1>5, <1>6

-----------------------------------------------------------------------------
(* A stream of whole NAL units that both splitters read the same, and the  *)
(* slices of each of its access units.                                     *)
PlainAt(nals, k) ==
  /\ IsVcl(nals[k]) => /\ Type(nals[k]) \in {1, 5}
                       /\ FirstOrUnreadable(nals[k]) <=> FirstSlice(nals[k])
  /\ IsAud(nals[k]) =>
       Open(nals, k) \/ \A j \in 1..k - 1 : Payload(nals[j]) = <<>>

IsOpen(d) == Open(Nals(d), Len(Nals(d)) + 1)

AreWhole(nals) ==
  \A k \in 1..Len(nals) : nals[k] \in NalUnits /\ PlainAt(nals, k)

HaveSlices(units, ss) ==
  /\ Len(units) = Len(ss)
  /\ \A k \in 1..Len(ss) : Clean(units[k]) /\ Slices(units[k]) = ss[k]

CutInto(d, ss) ==
  /\ Clean(d) /\ AreWhole(Nals(d))
  /\ HaveSlices(UnitsOf(Nals(d)), ss)
  /\ Nals(d) = <<>> \/ ss # <<>>

LEMMA WholeNext ==
  ASSUME NEW nals \in Seq(Seq(Nat)), AreWhole(nals), NEW x \in NalUnits,
         PlainNext(nals, x)
  PROVE  AreWhole(Append(nals, x))
<1> DEFINE n == Len(nals)
           all == Append(nals, x)
<1>1. x \in Seq(Nat)
  BY NalUnitIs
<1>2. /\ n \in Nat /\ Len(all) = n + 1 /\ (\A i \in 1..n : all[i] = nals[i])
      /\ all[n + 1] = x
  BY <1>1, OneMore
<1>3. \A k \in 1..n + 1 : Open(all, k) <=> Open(nals, k)
  BY <1>1, OpenBefore
<1> HIDE DEF n, all
<1>4. ASSUME NEW k \in 1..n PROVE all[k] \in NalUnits /\ PlainAt(all, k)
  <2>1. nals[k] \in NalUnits /\ PlainAt(nals, k) /\ all[k] = nals[k]
    BY <1>2 DEF AreWhole, n
  <2>2. k \in 1..n + 1 /\ \A j \in 1..k - 1 : j \in 1..n
    BY <1>2
  <2>3. \A j \in 1..k - 1 : all[j] = nals[j]
    BY <1>2, <2>2
  <2>4. Open(all, k) <=> Open(nals, k)
    BY <1>3, <2>2
  <2> QED BY <2>1, <2>3, <2>4 DEF PlainAt
<1>5. PlainAt(all, n + 1)
  <2>1. n + 1 \in 1..n + 1 /\ (n + 1) - 1 = n
    BY <1>2
  <2>2. Open(all, n + 1) <=> Open(nals, n + 1)
    BY <1>3, <2>1
  <2>3. (\A j \in 1..n : Payload(nals[j]) = <<>>) => \A j \in 1..n : Payload(all[j]) = <<>>
    BY <1>2
  <2> QED BY <1>2, <2>1, <2>2, <2>3 DEF PlainAt, PlainNext, n
<1>6. \A k \in 1..n + 1 : k \in 1..n \/ k = n + 1
  BY <1>2
<1> QED BY <1>2, <1>4, <1>5, <1>6 DEF AreWhole, all

LEMMA OpenJoin ==
  ASSUME NEW d, Clean(d), NEW x \in NalUnits
  PROVE  IsOpen(d \o x) <=> IsVcl(x) \/ (~IsAud(x) /\ IsOpen(d))
<1> DEFINE nals == Nals(d)
           all == Append(nals, x)
<1>1. x \in Seq(Nat) /\ nals \in Seq(Seq(Nat)) /\ Nals(d \o x) = all
  BY JoinNals, NalUnitIs
<1>2. Len(nals) \in Nat /\ Len(all) = Len(nals) + 1
  BY <1>1, OneMore
<1> HIDE DEF nals, all
<1>3. Len(all) + 1 = Len(nals) + 2
  BY <1>2
<1>4. Open(all, Len(nals) + 2) <=> IsVcl(x) \/ (~IsAud(x) /\ Open(nals, Len(nals) + 1))
  BY <1>1, OpenNext DEF all
<1> QED BY <1>1, <1>3, <1>4 DEF IsOpen, nals

LEMMA UnitsFollow ==
  ASSUME NEW d, Clean(d), NEW x \in NalUnits
  PROVE  UnitsOf(Nals(d \o x))
           = IF Nals(d) = <<>> \/ (Starts(x) /\ IsOpen(d)) THEN Append(UnitsOf(Nals(d)), x)
             ELSE IF UnitsOf(Nals(d)) = <<>> THEN <<>> ELSE Grown(UnitsOf(Nals(d)), x)
<1>1. x \in Seq(Nat) /\ Nals(d) \in Seq(Seq(Nat)) /\ Nals(d \o x) = Append(Nals(d), x)
  BY JoinNals, NalUnitIs
<1>2. Kept(x) = x
  BY DEF Kept, NalUnits
<1> QED BY <1>1, <1>2, UnitsNext DEF IsOpen

(* One more access unit ... *)
LEMMA CutStarts ==
  ASSUME NEW d, NEW ss \in Seq(Seq(Seq(Nat))), CutInto(d, ss), NEW x \in NalUnits,
         PlainNext(Nals(d), x), Nals(d) = <<>> \/ (Starts(x) /\ IsOpen(d))
  PROVE  CutInto(d \o x, Append(ss, Picked(x)))
<1> DEFINE S == Seq(Nat)
           T == Seq(Seq(Nat))
           nals == Nals(d)
           units == UnitsOf(nals)
           n == Len(ss)
           tt == Append(ss, Picked(x))
           more == Append(units, x)
<1>1. x \in S /\ Clean(x) /\ Clean(d) /\ nals \in Seq(S) /\ units \in Seq(S)
  BY JoinNals, NalUnitIs, UnitsAre DEF CutInto
<1>2. Clean(d \o x) /\ Nals(d \o x) = Append(nals, x) /\ AreWhole(Nals(d \o x))
  BY <1>1, JoinNals, WholeNext DEF CutInto
<1>3. UnitsOf(Nals(d \o x)) = more
  BY <1>1, UnitsFollow
<1>4. Picked(x) \in T
  BY <1>1, PickedType
<1>5. Slices(x) = Picked(x)
  <2>1. Slices(<<>> \o x) = Slices(<<>>) \o Picked(x)
    BY NothingIsClean, JoinSlices
  <2>2. <<>> \o x = x /\ <<>> \o Picked(x) = Picked(x)
    BY <1>1, <1>4
  <2> QED BY <2>1, <2>2, NoSlices
<1>6. Len(units) = n /\ \A k \in 1..n : Clean(units[k]) /\ Slices(units[k]) = ss[k]
  BY DEF CutInto, HaveSlices
<1>0. ss \in Seq(T)
  OBVIOUS
<1> HIDE DEF S, T, nals, units, n
<1>7. /\ n \in Nat /\ Len(tt) = n + 1 /\ (\A k \in 1..n : tt[k] = ss[k])
      /\ tt[n + 1] = Picked(x) /\ tt # <<>>
  <2>1. /\ Len(ss) \in Nat /\ Len(tt) = Len(ss) + 1 /\ tt[Len(ss) + 1] = Picked(x)
        /\ \A k \in 1..Len(ss) : tt[k] = ss[k]
    BY <1>0, <1>4
  <2>2. tt # <<>>
    BY <1>0, <1>4
  <2> QED BY <2>1, <2>2 DEF n
<1>8. /\ Len(more) = n + 1 /\ (\A k \in 1..n : more[k] = units[k]) /\ more[n + 1] = x
  BY <1>1, <1>6, <1>7
<1>9. \A k \in 1..n + 1 : k \in 1..n \/ k = n + 1
  BY <1>7
<1> HIDE DEF tt, more
<1>10. HaveSlices(more, tt)
  BY <1>1, <1>5, <1>6, <1>7, <1>8, <1>9 DEF HaveSlices
<1> QED BY <1>2, <1>3, <1>7, <1>10 DEF CutInto, tt

(* ... or more of the last. *)
IsGrown(tt, ss, t) ==
  /\ Len(tt) = Len(ss)
  /\ \A k \in 1..Len(ss) : tt[k] = IF k = Len(ss) THEN ss[k] \o t ELSE ss[k]

LEMMA GrownLast ==
  ASSUME NEW p \in Seq(Seq(Nat)), NEW t \in Seq(Nat), p # <<>>
  PROVE  IsGrown(Grown(p, t), p, t)
<1> DEFINE S == Seq(Nat)
<1>1. p \in Seq(S) /\ DOMAIN p = 1..Len(p) /\ Len(p) \in Nat
  OBVIOUS
<1>2. Len(Grown(p, t)) = Len(p)
  BY GrownIs
<1> HIDE DEF S
<1>3. \A k \in 1..Len(p) : Grown(p, t)[k] = IF k = Len(p) THEN p[k] \o t ELSE p[k]
  BY <1>1 DEF Grown
<1> QED BY <1>2, <1>3 DEF IsGrown

LEMMA CutGoesOn ==
  ASSUME NEW d, NEW ss \in Seq(Seq(Seq(Nat))), CutInto(d, ss), NEW x \in NalUnits,
         PlainNext(Nals(d), x), Nals(d) # <<>>, ~(Starts(x) /\ IsOpen(d)),
         NEW tt \in Seq(Seq(Seq(Nat))), IsGrown(tt, ss, Picked(x))
  PROVE  CutInto(d \o x, tt)
<1> DEFINE S == Seq(Nat)
           nals == Nals(d)
           units == UnitsOf(nals)
           n == Len(ss)
           more == Grown(units, x)
<1>1. x \in S /\ Clean(d) /\ nals \in Seq(S) /\ units \in Seq(S)
  BY JoinNals, NalUnitIs, UnitsAre DEF CutInto
<1>2. Clean(d \o x) /\ Nals(d \o x) = Append(nals, x) /\ AreWhole(Nals(d \o x))
  BY <1>1, JoinNals, WholeNext DEF CutInto
<1>3. Len(units) = n /\ \A k \in 1..n : Clean(units[k]) /\ Slices(units[k]) = ss[k]
  BY DEF CutInto, HaveSlices
<1>4. ss # <<>> /\ n \in Nat /\ n # 0
  BY DEF CutInto
<1> HIDE DEF S, nals, units, n
<1>5. units # <<>>
  BY <1>3, <1>4
<1>6. UnitsOf(Nals(d \o x)) = more
  BY <1>1, <1>5, UnitsFollow DEF units, nals
<1>7. IsGrown(more, units, x)
  BY <1>1, <1>5, GrownLast DEF S
<1>8. /\ Len(more) = n
      /\ \A k \in 1..n : more[k] = IF k = n THEN units[k] \o x ELSE units[k]
  BY <1>3, <1>7 DEF IsGrown
<1>9. /\ Len(tt) = n
      /\ \A k \in 1..n : tt[k] = IF k = n THEN ss[k] \o Picked(x) ELSE ss[k]
  BY DEF IsGrown, n
<1> HIDE DEF more
<1>10. ASSUME NEW k \in 1..n PROVE Clean(more[k]) /\ Slices(more[k]) = tt[k]
  <2>1. CASE k = n
    <3>1. more[k] = units[k] \o x /\ tt[k] = ss[k] \o Picked(x)
      BY <1>8, <1>9, <2>1
    <3>2. Clean(units[k]) /\ Slices(units[k]) = ss[k]
      BY <1>3
    <3>3. Clean(units[k] \o x) /\ Slices(units[k] \o x) = Slices(units[k]) \o Picked(x)
      BY <3>2, JoinNals, JoinSlices
    <3> QED BY <3>1, <3>2, <3>3
  <2>2. CASE k # n
    BY <1>3, <1>8, <1>9, <2>2
  <2> QED BY <2>1, <2>2
<1>11. tt # <<>>
  BY <1>4, <1>9
<1> QED BY <1>2, <1>6, <1>8, <1>9, <1>10, <1>11 DEF CutInto, HaveSlices

-----------------------------------------------------------------------------
(* A picture: what is not a slice, a delimiter at most in front, then its  *)
(* first slice and what may follow.                                        *)
PlainSlice(x) ==
  IsVcl(x) => Type(x) \in {1, 5} /\ (FirstOrUnreadable(x) <=> FirstSlice(x))

FirstOf(q, f) ==
  /\ FirstSlice(q[f])
  /\ \A k \in DOMAIN q : (k < f => ~IsVcl(q[k])) /\ (k > f => ~FirstSlice(q[k]))

OnePicture(q) ==
  /\ \A k \in DOMAIN q : PlainSlice(q[k]) /\ (IsAud(q[k]) => k = 1)
  /\ \E f \in DOMAIN q : FirstOf(q, f)

WholePictures == {FlattenSeq(q) : q \in {r \in Seq(NalUnits) : OnePicture(r)}}

(* Behind the stream and the part g of the next picture: without a slice   *)
(* of it, and with one.                                                    *)
CanBegin(d) == IsOpen(d) \/ Nals(d) = <<>>

Waits(d, g, ss) ==
  /\ Clean(g) /\ Slices(g) = <<>>
  /\ \/ CutInto(d, ss) /\ CanBegin(d)
     \/ CutInto(d, Append(ss, <<>>)) /\ ~CanBegin(d)

Started(d, g, ss) ==
  Clean(g) /\ CutInto(d, Append(ss, Slices(g))) /\ IsOpen(d)

LEMMA NothingOpen ==
  ASSUME NEW d, Nals(d) = <<>>
  PROVE  ~IsOpen(d)
BY DEF IsOpen, Open

LEMMA AudIsNoSlice ==
  ASSUME NEW x, IsAud(x)
  PROVE  ~IsVcl(x) /\ ~FirstSlice(x)
BY DEF IsAud, IsVcl, FirstSlice

LEMMA GrownByNothing ==
  ASSUME NEW ss \in Seq(Seq(Seq(Nat)))
  PROVE  IsGrown(ss, ss, <<>>)
<1> DEFINE T == Seq(Seq(Nat))
<1>1. ss \in Seq(T) /\ \A t \in T : t \o <<>> = t
  OBVIOUS
<1> HIDE DEF T
<1>2. \A k \in 1..Len(ss) : ss[k] \in T
  BY <1>1
<1> QED BY <1>1, <1>2 DEF IsGrown

LEMMA GrownAtEnd ==
  ASSUME NEW ss \in Seq(Seq(Seq(Nat))), NEW s \in Seq(Seq(Nat)), NEW t \in Seq(Seq(Nat))
  PROVE  /\ Append(ss, s) \in Seq(Seq(Seq(Nat))) /\ Append(ss, s \o t) \in Seq(Seq(Seq(Nat)))
         /\ IsGrown(Append(ss, s \o t), Append(ss, s), t)
<1> DEFINE T == Seq(Seq(Nat))
           u == s \o t
           n == Len(ss)
<1>1. ss \in Seq(T) /\ s \in T /\ u \in T
  OBVIOUS
<1>2. u = s \o t
  OBVIOUS
<1> HIDE DEF T, u
<1>3. /\ Append(ss, s) \in Seq(T) /\ Append(ss, u) \in Seq(T) /\ n \in Nat
      /\ Len(Append(ss, s)) = n + 1 /\ Len(Append(ss, u)) = n + 1
      /\ Append(ss, s)[n + 1] = s /\ Append(ss, u)[n + 1] = u
      /\ \A k \in 1..n : Append(ss, s)[k] = ss[k] /\ Append(ss, u)[k] = ss[k]
  BY <1>1
<1> DEFINE a == Append(ss, s)
           b == Append(ss, u)
<1> HIDE DEF a, b, n
<1>4. \A k \in 1..n + 1 : (k \in 1..n /\ k # n + 1) \/ k = n + 1
  BY <1>3
<1>5. IsGrown(b, a, t)
  BY <1>2, <1>3, <1>4 DEF IsGrown, a, b
<1> QED BY <1>3, <1>5 DEF T, u, a, b

LEMMA PlainHereToo ==
  ASSUME NEW d, NEW x, PlainSlice(x), IsAud(x) => CanBegin(d)
  PROVE  PlainNext(Nals(d), x)
BY DEF PlainSlice, CanBegin, PlainNext, IsOpen

LEMMA StillWaits ==
  ASSUME NEW d, NEW g, NEW ss \in Seq(Seq(Seq(Nat))), Waits(d, g, ss),
         NEW x \in NalUnits, PlainSlice(x), ~IsVcl(x), IsAud(x) => CanBegin(d)
  PROVE  Waits(d \o x, g \o x, ss)
<1> DEFINE e == <<>>
           T == Seq(Seq(Nat))
<1>1. ss \in Seq(T) /\ e \in T /\ Append(ss, e) \in Seq(T) /\ e \o e = e
  OBVIOUS
<1>2. Picked(x) = e
  BY DEF Picked
<1>3. Clean(d) /\ Clean(g) /\ Slices(g) = e
  BY DEF Waits, CutInto
<1>4. Clean(g \o x) /\ Slices(g \o x) = e
  BY <1>1, <1>2, <1>3, JoinNals, JoinSlices
<1>5. IsOpen(d \o x) <=> ~IsAud(x) /\ IsOpen(d)
  BY <1>3, OpenJoin
<1>6. Nals(d \o x) # <<>>
  <2>1. Nals(d) \in Seq(Seq(Nat)) /\ Nals(d \o x) = Append(Nals(d), x) /\ x \in Seq(Nat)
    BY <1>3, JoinNals, NalUnitIs
  <2> QED BY <2>1, OneMore
<1>7. PlainNext(Nals(d), x)
  BY PlainHereToo
<1>8. ~FirstSlice(x)
  BY DEF FirstSlice
<1>9. IsGrown(ss, ss, e) /\ IsGrown(Append(ss, e), Append(ss, e), e)
  BY <1>1, GrownByNothing
<1> HIDE DEF e, T
<1>10. CASE CutInto(d, ss) /\ (Nals(d) = <<>> \/ (IsAud(x) /\ IsOpen(d)))
  <2>1. CutInto(d \o x, Append(ss, e))
    BY <1>1, <1>2, <1>7, <1>10, CutStarts DEF Starts, T
  <2>2. ~IsOpen(d \o x)
    BY <1>5, <1>10, NothingOpen
  <2> QED BY <1>4, <1>6, <2>1, <2>2 DEF Waits, CanBegin, e
<1>11. CASE CutInto(d, ss) /\ Nals(d) # <<>> /\ IsOpen(d) /\ ~IsAud(x)
  <2>1. CutInto(d \o x, ss)
    BY <1>1, <1>2, <1>7, <1>8, <1>9, <1>11, CutGoesOn DEF Starts, T
  <2> QED BY <1>4, <1>5, <1>11, <2>1 DEF Waits, CanBegin, e
<1>12. CASE CutInto(d, Append(ss, e)) /\ ~CanBegin(d)
  <2>1. Nals(d) # <<>> /\ ~IsOpen(d)
    BY <1>12 DEF CanBegin
  <2>2. CutInto(d \o x, Append(ss, e))
    BY <1>1, <1>2, <1>7, <1>9, <1>12, <2>1, CutGoesOn DEF T
  <2> QED BY <1>4, <1>5, <1>6, <2>1, <2>2 DEF Waits, CanBegin, e
<1> QED BY <1>10, <1>11, <1>12 DEF Waits, CanBegin, e

LEMMA NowStarts ==
  ASSUME NEW d, NEW g, NEW ss \in Seq(Seq(Seq(Nat))), Waits(d, g, ss),
         NEW x \in NalUnits, PlainSlice(x), FirstSlice(x)
  PROVE  Started(d \o x, g \o x, ss)
<1> DEFINE e == <<>>
           s == Picked(x)
           T == Seq(Seq(Nat))
<1>1. ss \in Seq(T) /\ e \in T /\ Append(ss, e) \in Seq(T)
  OBVIOUS
<1>2. s \in T /\ e \o s = s /\ IsVcl(x)
  BY NalUnitIs, PickedType DEF FirstSlice
<1>3. Clean(d) /\ Clean(g) /\ Slices(g) = e
  BY DEF Waits, CutInto
<1>4. Clean(g \o x) /\ Slices(g \o x) = s
  BY <1>2, <1>3, JoinNals, JoinSlices
<1>5. IsOpen(d \o x) /\ ~IsAud(x) /\ Starts(x)
  BY <1>2, <1>3, OpenJoin, AudIsNoSlice DEF Starts
<1>6. PlainNext(Nals(d), x)
  BY <1>5, PlainHereToo
<1>7. IsGrown(Append(ss, s), Append(ss, e), s) /\ Append(ss, s) \in Seq(T)
  BY <1>1, <1>2, GrownAtEnd
<1> HIDE DEF e, s, T
<1>8. CASE CutInto(d, ss) /\ CanBegin(d)
  <2>1. Nals(d) = <<>> \/ (Starts(x) /\ IsOpen(d))
    BY <1>5, <1>8 DEF CanBegin
  <2>2. CutInto(d \o x, Append(ss, s))
    BY <1>1, <1>6, <1>8, <2>1, CutStarts DEF s, T
  <2> QED BY <1>4, <1>5, <2>2 DEF Started
<1>9. CASE CutInto(d, Append(ss, e)) /\ ~CanBegin(d)
  <2>1. Nals(d) # <<>> /\ ~IsOpen(d)
    BY <1>9 DEF CanBegin
  <2>2. CutInto(d \o x, Append(ss, s))
    BY <1>1, <1>6, <1>7, <1>9, <2>1, CutGoesOn DEF s, T
  <2> QED BY <1>4, <1>5, <2>2 DEF Started
<1> QED BY <1>8, <1>9 DEF Waits, e

LEMMA GoesOnStarted ==
  ASSUME NEW d, NEW g, NEW ss \in Seq(Seq(Seq(Nat))), Started(d, g, ss),
         NEW x \in NalUnits, PlainSlice(x), ~FirstSlice(x), ~IsAud(x)
  PROVE  Started(d \o x, g \o x, ss)
<1> DEFINE s == Picked(x)
           c == Slices(g)
           T == Seq(Seq(Nat))
<1>1. Clean(d) /\ Clean(g)
  BY DEF Started, CutInto
<1>2. ss \in Seq(T) /\ c \in T /\ s \in T
  BY <1>1, JoinSlices, NalUnitIs, PickedType
<1>3. Clean(g \o x) /\ Slices(g \o x) = c \o s
  BY <1>1, JoinNals, JoinSlices
<1>4. IsOpen(d \o x) /\ IsOpen(d)
  BY <1>1, OpenJoin DEF Started
<1>5. PlainNext(Nals(d), x) /\ Nals(d) # <<>>
  BY <1>4, PlainHereToo, NothingOpen
<1>6. IsGrown(Append(ss, c \o s), Append(ss, c), s) /\ Append(ss, c \o s) \in Seq(T)
      /\ Append(ss, c) \in Seq(T)
  BY <1>2, GrownAtEnd
<1>7. CutInto(d, Append(ss, c))
  BY DEF Started
<1> HIDE DEF s, c, T
<1>8. CutInto(d \o x, Append(ss, c \o s))
  BY <1>5, <1>6, <1>7, CutGoesOn DEF Starts, s, T
<1> QED BY <1>3, <1>4, <1>8 DEF Started

LEMMA NalUnitLists ==
  ASSUME NEW q \in Seq(NalUnits)
  PROVE  q \in Seq(Seq(Nat)) /\ \A k \in DOMAIN q : q[k] \in NalUnits
<1>1. NalUnits \subseteq Seq(Nat)
  BY DEF NalUnits
<1> DEFINE S == Seq(Nat)
<1> HIDE DEF S
<1>2. q \in Seq(S)
  BY <1>1 DEF S
<1> QED BY <1>2 DEF S

LEMMA JoinThree ==
  ASSUME NEW c \in Seq(Nat), NEW d \in Seq(Nat), NEW e \in Seq(Nat)
  PROVE  (c \o d) \o e = c \o (d \o e)
<1> DEFINE S == Nat
           l == (c \o d) \o e
           r == c \o (d \o e)
<1>1. c \in Seq(S) /\ d \in Seq(S) /\ e \in Seq(S)
  OBVIOUS
<1> HIDE DEF S
<1>2. l \in Seq(S) /\ r \in Seq(S) /\ Len(l) = Len(r)
      /\ \A i \in 1..Len(l) : l[i] = r[i]
  BY <1>1
<1> HIDE DEF l, r
<1>3. l = r
  BY <1>2, SeqEqual
<1> QED BY <1>3 DEF l, r

(* Behind a stream that is cut into pictures, one more picture. *)
LEMMA PictureFollows ==
  ASSUME NEW d, NEW ss \in Seq(Seq(Seq(Nat))), CutInto(d, ss), CanBegin(d),
         NEW q \in Seq(NalUnits), OnePicture(q)
  PROVE  Started(d \o FlattenSeq(q), FlattenSeq(q), ss)
<1> DEFINE n == Len(q)
           S == Seq(Nat)
<1>1. q \in Seq(S) /\ n \in Nat /\ DOMAIN q = 1..n /\ \A k \in 1..n : q[k] \in NalUnits
  BY NalUnitLists
<1>2. PICK f \in 1..n : FirstOf(q, f)
  BY <1>1 DEF OnePicture
<1>3. PICK g \in [0..n -> S] : Joined(g, n, q)
  BY <1>1, JoinedExists
<1>4. FlattenSeq(q) = g[n]
  BY <1>1, <1>3, FlattenIsJoined
<1>5. g[0] = <<>> /\ \A k \in 1..n : g[k] = g[k - 1] \o q[k]
  BY <1>3 DEF Joined
<1>6. d \in S /\ d \o <<>> = d
  BY DEF CutInto, Clean
<1>7. \A k \in 1..n : q[k] \in S
  BY <1>1, NalUnitIs
<1> HIDE DEF S, n
<1> DEFINE A == {k \in 0..n : IF k < f THEN /\ Waits(d \o g[k], g[k], ss)
                                            /\ k = 0 => CanBegin(d \o g[k])
                              ELSE Started(d \o g[k], g[k], ss)}
<1>8. 0 \in A
  <2>1. 0 \in 0..n /\ 0 < f
    BY <1>1, <1>2
  <2>2. Waits(d, <<>>, ss)
    BY NothingIsClean, NoSlices DEF Waits
  <2> QED BY <1>5, <1>6, <2>1, <2>2
<1>9. ASSUME NEW k \in 0..n - 1, k \in A PROVE k + 1 \in A
  <2> DEFINE x == q[k + 1]
             i == k + 1
  <2>1. i \in 1..n /\ i \in 0..n /\ i - 1 = k /\ k \in 0..n /\ (i = 1 => k = 0) /\ i # 0
        /\ (i < f => k < f) /\ (i = f => k < f) /\ (i > f => ~(k < f) /\ i # 1)
    BY <1>1, <1>2
  <2>2. x \in NalUnits /\ PlainSlice(x) /\ (IsAud(x) => i = 1) /\ x \in S /\ g[k] \in S
    <3>1. x \in NalUnits /\ x \in S /\ g[k] \in S
      BY <1>1, <1>3, <1>7, <2>1
    <3>2. PlainSlice(x) /\ (IsAud(x) => i = 1)
      BY <1>1, <2>1 DEF OnePicture
    <3> QED BY <3>1, <3>2
  <2>3. (i < f => ~IsVcl(x)) /\ (i = f => FirstSlice(x)) /\ (i > f => ~FirstSlice(x))
    BY <1>1, <1>2, <2>1 DEF FirstOf
  <2>4. g[i] = g[k] \o x /\ d \o g[i] = (d \o g[k]) \o x
    <3>1. g[i] = g[k] \o x
      BY <1>5, <2>1
    <3>2. (d \o g[k]) \o x = d \o (g[k] \o x)
      <4> HIDE DEF x
      <4> HIDE DEF x, A
      <4>1. d \in Seq(Nat) /\ g[k] \in Seq(Nat) /\ x \in Seq(Nat)
        BY <1>6, <2>2 DEF S
      <4> QED BY <4>1, JoinThree
    <3> QED BY <3>1, <3>2
  <2>5. CASE i < f
    <3>1. Waits(d \o g[k], g[k], ss) /\ (IsAud(x) => CanBegin(d \o g[k]))
      BY <1>9, <2>1, <2>2, <2>5
    <3> HIDE DEF x, i
    <3>2. Waits((d \o g[k]) \o x, g[k] \o x, ss)
      BY <2>2, <2>3, <2>5, <3>1, StillWaits
    <3> QED BY <2>1, <2>4, <2>5, <3>2 DEF i
  <2>6. CASE i = f
    <3>1. Waits(d \o g[k], g[k], ss)
      BY <1>9, <2>1, <2>6
    <3> HIDE DEF x
    <3>2. Started((d \o g[k]) \o x, g[k] \o x, ss)
      BY <2>2, <2>3, <2>6, <3>1, NowStarts
    <3>3. ~(i < f)
      BY <1>2, <2>1, <2>6
    <3> QED BY <2>1, <2>4, <3>2, <3>3
  <2>7. CASE i > f
    <3>1. Started(d \o g[k], g[k], ss) /\ ~IsAud(x)
      BY <1>9, <2>1, <2>2, <2>7
    <3> HIDE DEF x
    <3>2. Started((d \o g[k]) \o x, g[k] \o x, ss)
      BY <2>2, <2>3, <2>7, <3>1, GoesOnStarted
    <3>3. ~(i < f)
      BY <1>1, <1>2, <2>1, <2>7
    <3> QED BY <2>1, <2>4, <3>2, <3>3
  <2> QED BY <1>1, <1>2, <2>5, <2>6, <2>7
<1>10. n \in 0..n /\ 0 \in Nat /\ ~(n < f)
  BY <1>1, <1>2
<1> HIDE DEF A
<1>11. n \in A
  BY <1>1, <1>8, <1>9, <1>10, UpFrom
<1> QED BY <1>4, <1>10, <1>11 DEF A

LEMMA PictureIs ==
  ASSUME NEW p \in WholePictures
  PROVE  p \in Seq(Nat) /\ \E q \in Seq(NalUnits) : OnePicture(q) /\ p = FlattenSeq(q)
<1>1. PICK q \in Seq(NalUnits) : OnePicture(q) /\ p = FlattenSeq(q)
  BY DEF WholePictures
<1> QED BY <1>1, NalUnitLists, FlattenType

LEMMA NothingIsCut == CutInto(<<>>, <<>>) /\ CanBegin(<<>>)
<1>1. <<>> \in Seq(Seq(Nat)) /\ Len(<<>>) = 0 /\ 1..0 = {}
  OBVIOUS
<1>2. UnitsOf(<<>>) = <<>>
  BY <1>1, UnitsAre, PiecesToNothing
<1> QED BY <1>1, <1>2, NothingIsClean
        DEF CutInto, CanBegin, AreWhole, HaveSlices

LEMMA StreamIsCut ==
  ASSUME NEW pictures \in Seq(WholePictures), pictures # <<>>
  PROVE  /\ FlattenSeq(pictures) \in Seq(Nat)
         /\ \E ss \in Seq(Seq(Seq(Nat))) :
              /\ CutInto(FlattenSeq(pictures), ss) /\ Len(ss) = Len(pictures)
              /\ \A k \in 1..Len(pictures) : ss[k] = Slices(pictures[k])
         /\ IsOpen(FlattenSeq(pictures))
<1> DEFINE n == Len(pictures)
           S == Seq(Nat)
           T == Seq(Seq(Nat))
<1>1. n \in Nat /\ n # 0 /\ \A k \in 1..n : pictures[k] \in WholePictures
  OBVIOUS
<1>2. pictures \in Seq(S)
  <2>1. WholePictures \subseteq S
    BY PictureIs
  <2> HIDE DEF S
  <2> QED BY <2>1
<1>3. PICK g \in [0..n -> S] : Joined(g, n, pictures)
  BY <1>2, JoinedExists
<1>4. FlattenSeq(pictures) = g[n]
  BY <1>2, <1>3, FlattenIsJoined
<1>5. g[0] = <<>> /\ \A k \in 1..n : g[k] = g[k - 1] \o pictures[k]
  BY <1>3 DEF Joined
<1> HIDE DEF n, S
<1> DEFINE Done(k, ss) ==
             /\ CutInto(g[k], ss) /\ Len(ss) = k
             /\ \A i \in 1..k : ss[i] = Slices(pictures[i])
           A == {k \in 0..n : /\ \E ss \in Seq(T) : Done(k, ss)
                              /\ CanBegin(g[k]) /\ (k # 0 => IsOpen(g[k]))}
<1>6. 0 \in A
  <2>1. <<>> \in Seq(T) /\ Len(<<>>) = 0 /\ 0 \in 0..n /\ 1..0 = {}
    BY <1>1
  <2>2. Done(0, <<>>)
    BY <1>5, <2>1, NothingIsCut
  <2> QED BY <1>5, <2>1, <2>2, NothingIsCut
<1>7. ASSUME NEW k \in 0..n - 1, k \in A PROVE k + 1 \in A
  <2> DEFINE i == k + 1
             p == pictures[i]
  <2>1. i \in 1..n /\ i \in 0..n /\ i - 1 = k /\ k \in 0..n /\ k \in Nat
    BY <1>1
  <2>2. PICK ss \in Seq(T) : Done(k, ss)
    BY <1>7
  <2>3. PICK q \in Seq(NalUnits) : OnePicture(q) /\ p = FlattenSeq(q)
    BY <1>1, <2>1, PictureIs
  <2>4. g[i] = g[k] \o p
    BY <1>5, <2>1
  <2>5. Started(g[i], p, ss)
    <3>1. CutInto(g[k], ss) /\ CanBegin(g[k])
      BY <1>7, <2>2
    <3> HIDE DEF p
    <3> QED BY <2>3, <2>4, <3>1, PictureFollows
  <2> DEFINE s == Slices(p)
             tt == Append(ss, s)
  <2>6. CutInto(g[i], tt) /\ IsOpen(g[i]) /\ CanBegin(g[i]) /\ s \in T
    <3>1. Clean(p)
      BY <2>5 DEF Started
    <3> HIDE DEF p
    <3>2. p \in Seq(Nat) /\ Slices(p) \in T
      BY <3>1, SlicesType DEF Clean
    <3> QED BY <2>5, <3>2 DEF Started, CanBegin
  <2>7. tt \in Seq(T) /\ Len(tt) = i /\ tt[i] = s /\ \A j \in 1..k : tt[j] = ss[j]
    <3> HIDE DEF T, s
    <3>1. Len(ss) = k
      BY <2>2
    <3> QED BY <2>6, <3>1
  <2>8. \A j \in 1..i : tt[j] = Slices(pictures[j])
    <3>1. \A j \in 1..i : j \in 1..k \/ j = i
      BY <2>1
    <3>2. \A j \in 1..k : ss[j] = Slices(pictures[j])
      BY <2>2
    <3> HIDE DEF tt
    <3> QED BY <2>7, <3>1, <3>2
  <2>9. Done(i, tt)
    BY <2>6, <2>7, <2>8
  <2> HIDE DEF Done, tt
  <2> QED BY <2>1, <2>6, <2>7, <2>9
<1>8. n \in 0..n
  BY <1>1
<1> HIDE DEF A
<1>9. n \in A
  BY <1>1, <1>6, <1>7, <1>8, UpFrom
<1>10. PICK ss \in Seq(T) : Done(n, ss)
  BY <1>9 DEF A
<1>11. IsOpen(g[n])
  BY <1>1, <1>9 DEF A
<1>12. g[n] \in S
  BY <1>3, <1>8
<1> QED BY <1>4, <1>10, <1>11, <1>12 DEF n, S, T

-----------------------------------------------------------------------------
(* The flags of the demo: an access unit with an IDR slice is a keyframe.  *)
KeysRight(r) ==
  /\ Clean(r.unit) /\ (r.key <=> HasIdr(r.unit))
  /\ \A k \in 1..Len(r.units) : r.units[k].key <=> HasIdr(r.units[k].data)

LEMMA NoIdr == ~HasIdr(<<>>)
BY NoSlices DEF HasIdr, Range

LEMMA KeysPushed ==
  ASSUME NEW r \in Loads, KeysRight(r)
  PROVE  KeysRight(PushUnit(r))
<1> DEFINE F == [data : Seq(Nat), key : BOOLEAN]
           u == [data |-> r.unit, key |-> r.key]
           w == Append(r.units, u)
           n == Len(r.units)
<1>1. r.units \in Seq(F) /\ u \in F /\ u.data = r.unit /\ u.key = r.key
  BY LoadFields DEF FileUnits
<1> HIDE DEF F, u
<1>2. /\ n \in Nat /\ Len(w) = n + 1 /\ w[n + 1] = u
      /\ \A k \in 1..n : w[k] = r.units[k]
  BY <1>1
<1>3. \A k \in 1..n + 1 : k \in 1..n \/ k = n + 1
  BY <1>2
<1>4. u.key <=> HasIdr(u.data)
  BY <1>1 DEF KeysRight
<1>5. PushUnit(r).unit = <<>> /\ PushUnit(r).key = FALSE /\ PushUnit(r).units = w
  BY PushUnitIs DEF u
<1> HIDE DEF w, n
<1>6. \A k \in 1..Len(w) : w[k].key <=> HasIdr(w[k].data)
  BY <1>2, <1>3, <1>4 DEF KeysRight, n
<1> QED BY <1>5, <1>6, NothingIsClean, NoIdr DEF KeysRight

LEMMA KeysStep ==
  ASSUME NEW r \in Loads, KeysRight(r), NEW x \in NalUnits, NEW next \in Nat
  PROVE  KeysRight(LoadWith(r, next, x))
<1> DEFINE q == IF Ends(r, x) THEN PushUnit(r) ELSE r
           v == (q.vcl \/ IsSlice(x))
           k == (q.key \/ Type(x) = 5)
           l == Added(q, next, x, v, k)
<1>1. LoadWith(r, next, x) = l
  BY DEF LoadWith, NalUnits
<1>2. q \in Loads /\ KeysRight(q)
  BY KeysPushed, PushUnitIs
<1> HIDE DEF q
<1>3. AreFlags(v, k) /\ x \in Seq(Nat)
  BY <1>2, LoadFields, NalUnitIs DEF AreFlags
<1> HIDE DEF v, k
<1>4. l.unit = q.unit \o x /\ l.units = q.units /\ l.key = k
  BY <1>2, <1>3, AddNal DEF IsAdded
<1> HIDE DEF l
<1>5. Clean(q.unit) /\ (q.key <=> HasIdr(q.unit))
  BY <1>2 DEF KeysRight
<1>6. Clean(q.unit \o x) /\ (HasIdr(q.unit \o x) <=> HasIdr(q.unit) \/ Type(x) = 5)
  BY <1>5, JoinNals, JoinIdr
<1>7. k <=> HasIdr(q.unit \o x)
  BY <1>5, <1>6 DEF k
<1> QED BY <1>1, <1>2, <1>4, <1>6, <1>7 DEF KeysRight

LEMMA KeysRound ==
  ASSUME NEW data \in Seq(Nat), AreWhole(Nals(data)), NEW r, LoadStands(r, data),
         KeysRight(r)
  PROVE  KeysRight(LoadNal(r, data))
<1>1. CASE r.at = 0
  <2>1. LoadNal(r, data) = r
    BY <1>1 DEF LoadNal
  <2> QED BY <2>1
<1>2. CASE r.at \in Begins(data)
  <2>1. PICK next, e : LoadTakes(r, data, next, e)
    BY <1>2, LoadTakesNal
  <2> DEFINE x == SubSeq(data, r.at, e)
  <2>2. /\ next \in Nat /\ e \in r.at..Len(data) /\ IsNal(data, r.at, e)
        /\ LoadNal(r, data) = LoadWith(r, next, x)
        /\ e = Len(data) \/ e + 1 \in Begins(data)
    BY <2>1 DEF LoadTakes
  <2>3. x \in NalUnits
    <3> DEFINE n == Len(NalsTo(data, r.at - 1))
    <3>1. n + 1 \in DOMAIN Nals(data) /\ Nals(data)[n + 1] = x
      BY <1>2, <2>2, NalIsThere
    <3>2. DOMAIN Nals(data) = 1..Len(Nals(data))
      <4> DEFINE S == Seq(Nat)
      <4>1. Nals(data) \in Seq(S)
        BY NalsAre, NalsToType
      <4> HIDE DEF S
      <4> QED BY <4>1
    <3> HIDE DEF n, x
    <3> QED BY <3>1, <3>2 DEF AreWhole
  <2> HIDE DEF x
  <2>4. r \in Loads
    BY DEF LoadStands
  <2> QED BY <2>2, <2>3, <2>4, KeysStep
<1> QED BY <1>1, <1>2 DEF LoadStands

LEMMA KeysEnd ==
  ASSUME NEW data \in Seq(Nat), AreWhole(Nals(data)), Plain(Nals(data))
  PROVE  KeysRight(PushUnit(LoadLast(data)))
<1> DEFINE n == Len(data)
<1>0. n \in Nat /\ n \in 0..n /\ 0 \in 0..n /\ 0 \in Nat
  OBVIOUS
<1>1. PICK h : LoadsAre(h, data)
  BY LoadsExist
<1>2. /\ LoadLast(data) = h[n] /\ h[0] = LoadFresh(data)
      /\ \A k \in 1..n : h[k] = LoadNal(h[k - 1], data)
      /\ \A k \in 0..n : LoadStands(h[k], data)
  BY <1>1 DEF LoadsAre
<1> HIDE DEF n
<1> DEFINE A == {k \in 0..n : KeysRight(h[k])}
<1>3. 0 \in A
  <2>1. LoadFresh(data).unit = <<>> /\ LoadFresh(data).key = FALSE
        /\ LoadFresh(data).units = <<>>
    BY DEF LoadFresh
  <2>2. 1..Len(<<>>) = {}
    OBVIOUS
  <2> QED BY <1>0, <1>2, <2>1, <2>2, NothingIsClean, NoIdr DEF KeysRight
<1>4. ASSUME NEW k \in 0..n - 1, k \in A PROVE k + 1 \in A
  <2>1. k + 1 \in 1..n /\ k + 1 \in 0..n /\ (k + 1) - 1 = k /\ k \in 0..n
    BY <1>0
  <2>2. h[k + 1] = LoadNal(h[k], data) /\ LoadStands(h[k], data)
    BY <1>2, <2>1
  <2> QED BY <1>4, <2>1, <2>2, KeysRound
<1> HIDE DEF A
<1>5. n \in A
  BY <1>0, <1>3, <1>4, UpFrom
<1>6. KeysRight(LoadLast(data)) /\ LoadLast(data) \in Loads
  BY <1>0, <1>2, <1>5 DEF A, LoadStands
<1> QED BY <1>6, KeysPushed

-----------------------------------------------------------------------------
(* Every picture comes out as one access unit, whole and in order, however *)
(* the stream is read: pictures of any number, of any whole NAL units of   *)
(* any bytes, with a delimiter in front or none, and any slices behind the *)
(* first.  The demo cuts a file of them the same way and flags those with  *)
(* an IDR slice (video.py 285-328, host_bridge_demo.cpp 284-330).          *)
THEOREM PicturesStayWhole ==
  ASSUME NEW pictures \in Seq(WholePictures), pictures # <<>>,
         NEW ends, AreEnds(FlattenSeq(pictures), ends)
  PROVE  LET data == FlattenSeq(pictures)
             loaded == LoadTestStream(data)
         IN /\ Plain(Nals(data)) /\ Whole(AccessUnits(Reads(data, ends)), pictures)
            /\ Whole(DataOf(loaded), pictures)
            /\ \A k \in DOMAIN loaded : loaded[k].key = HasIdr(pictures[k])
<1> DEFINE data == FlattenSeq(pictures)
           nals == Nals(data)
           units == UnitsOf(nals)
           last == LoadLast(data)
           loaded == LoadTestStream(data)
           n == Len(pictures)
<1>1. data \in Seq(Nat) /\ IsOpen(data)
  BY StreamIsCut
<1>2. PICK ss \in Seq(Seq(Seq(Nat))) :
        CutInto(data, ss) /\ Len(ss) = n /\ \A k \in 1..n : ss[k] = Slices(pictures[k])
  BY StreamIsCut
<1>3. AreEnds(data, ends) /\ n \in Nat
  OBVIOUS
<1> HIDE DEF data
<1>4. nals \in Seq(Seq(Nat)) /\ units \in Seq(Seq(Nat)) /\ DOMAIN nals = 1..Len(nals)
  <2>1. nals \in Seq(Seq(Nat))
    BY <1>1, NalsAre, NalsToType
  <2> DEFINE S == Seq(Nat)
  <2>2. nals \in Seq(S)
    BY <2>1
  <2> HIDE DEF S, nals
  <2>3. DOMAIN nals = 1..Len(nals)
    BY <2>2
  <2> QED BY <2>1, <2>3, UnitsAre
<1>5. AreWhole(nals) /\ Open(nals, Len(nals) + 1)
  BY <1>1, <1>2 DEF CutInto, IsOpen
<1> HIDE DEF nals
<1>6. Plain(nals)
  BY <1>4, <1>5 DEF Plain, AreWhole, PlainAt
<1>7. Len(units) = n /\ \A k \in 1..n : Slices(units[k]) = Slices(pictures[k])
  BY <1>2 DEF CutInto, HaveSlices, nals
<1> HIDE DEF n, units
<1>8. Whole(units, pictures)
  <2> DEFINE S == Seq(Nat)
  <2>1. units \in Seq(S)
    BY <1>4
  <2> HIDE DEF S
  <2>2. DOMAIN units = 1..Len(units)
    BY <2>1
  <2> QED BY <1>7, <2>2 DEF Whole, n
<1>9. AccessUnits(Reads(data, ends)) = units
  BY <1>1, <1>3, <1>5, UnitsComeFromTheStream DEF Reference, units, nals
<1>10. /\ last \in Loads /\ loaded = PushUnit(last).units
       /\ DataOf(loaded) = units
  BY <1>1, <1>6, LoadTestStreamGives DEF units, nals
<1>11. KeysRight(PushUnit(last))
  BY <1>1, <1>5, <1>6, KeysEnd DEF nals
<1> HIDE DEF last, loaded
<1>12. loaded \in FileUnits /\ Len(loaded) = n /\ DOMAIN loaded = 1..n
  <2> DEFINE F == [data : Seq(Nat), key : BOOLEAN]
  <2>1. loaded \in Seq(F)
    BY <1>10, PushUnitIs, LoadFields DEF FileUnits
  <2>2. Len(loaded) = n
    BY <1>7, <1>10, <2>1, DataOfType DEF FileUnits
  <2> HIDE DEF F
  <2>3. DOMAIN loaded = 1..Len(loaded)
    BY <2>1
  <2> QED BY <2>1, <2>2, <2>3 DEF FileUnits, F
<1>13. ASSUME NEW k \in DOMAIN loaded PROVE loaded[k].key = HasIdr(pictures[k])
  <2>1. k \in 1..n /\ DataOf(loaded)[k] = loaded[k].data
    BY <1>12 DEF DataOf
  <2>2. loaded[k].key <=> HasIdr(units[k])
    BY <1>10, <1>11, <1>12, <2>1 DEF KeysRight
  <2>3. HasIdr(units[k]) <=> HasIdr(pictures[k])
    BY <1>7, <2>1 DEF HasIdr
  <2>4. loaded[k].key \in BOOLEAN
    <3> DEFINE F == [data : Seq(Nat), key : BOOLEAN]
    <3>1. loaded \in Seq(F)
      BY <1>12 DEF FileUnits
    <3> HIDE DEF F
    <3>2. loaded[k] \in F
      BY <3>1
    <3> QED BY <3>2 DEF F
  <2>5. HasIdr(pictures[k]) \in BOOLEAN
    BY DEF HasIdr
  <2> QED BY <2>2, <2>3, <2>4, <2>5
<1> QED BY <1>6, <1>8, <1>9, <1>10, <1>13 DEF data, nals, loaded

-----------------------------------------------------------------------------
(* The pictures of StereoStreamer's run are such pictures. *)
LEMMA FlattenOne ==
  ASSUME NEW S, NEW x \in Seq(S)
  PROVE  FlattenSeq(<<x>>) = x
<1> DEFINE T == Seq(S)
           e == <<>>
<1>1. e \in Seq(Seq(S)) /\ Append(e, x) = <<x>> /\ e \o x = x
  OBVIOUS
<1>2. FlattenSeq(Append(e, x)) = FlattenSeq(e) \o x
  BY <1>1, FlattenNext
<1> QED BY <1>1, <1>2, FlattenNothing

LEMMA FlattenTwo ==
  ASSUME NEW a \in Seq(Nat), NEW b \in Seq(Nat)
  PROVE  FlattenSeq(<<a, b>>) = a \o b
<1> DEFINE S == Seq(Nat)
           one == <<a>>
<1>1. one \in Seq(S) /\ <<a, b>> = Append(one, b) /\ FlattenSeq(one) = a
  BY FlattenOne
<1> HIDE DEF one
<1> QED BY <1>1, FlattenNext

IsFlat(a, b, c, d) == FlattenSeq(<<a, b, c, d>>) = a \o b \o c \o d

LEMMA FlattenFour ==
  ASSUME NEW a \in Seq(Nat), NEW b \in Seq(Nat), NEW c \in Seq(Nat), NEW d \in Seq(Nat)
  PROVE  IsFlat(a, b, c, d)
<1> DEFINE S == Seq(Nat)
           two == <<a, b>>
           three == <<a, b, c>>
           four == <<a, b, c, d>>
<1>1. /\ two \in Seq(S) /\ three \in Seq(S)
      /\ three = Append(two, c) /\ four = Append(three, d)
  OBVIOUS
<1>2. FlattenSeq(two) = a \o b
  BY FlattenTwo
<1> HIDE DEF two, three, four
<1>3. FlattenSeq(three) = FlattenSeq(two) \o c
  BY <1>1, FlattenNext
<1>4. FlattenSeq(four) = FlattenSeq(three) \o d
  BY <1>1, FlattenNext
<1> QED BY <1>2, <1>3, <1>4 DEF four, IsFlat

(* The bits of a slice header of one byte. *)
LEMMA OneByte ==
  ASSUME NEW b \in 1..255
  PROVE  /\ Rbsp(<<b>>) = <<b>>
         /\ Bits(<<b>>) = [k \in 1..8 |-> (b \div 2^(8 - k)) % 2]
<1> DEFINE bytes == <<b>>
           kept == {i \in DOMAIN bytes :
                      ~(i > 2 /\ bytes[i] = 3 /\ bytes[i - 1] = 0 /\ bytes[i - 2] = 0)}
           bits == [k \in 1..8 |-> (b \div 2^(8 - k)) % 2]
<1>1. DOMAIN bytes = {1} /\ bytes[1] = b /\ ~(1 > 2)
  OBVIOUS
<1>2. [i \in DOMAIN bytes |-> IF i \in kept THEN <<bytes[i]>> ELSE <<>>] = <<bytes>>
  <2>1. 1 \in kept
    BY <1>1
  <2> HIDE DEF kept
  <2> QED BY <1>1, <2>1
<1>3. FlattenSeq(<<bytes>>) = bytes
  <2>1. bytes \in Seq(Nat)
    OBVIOUS
  <2> HIDE DEF bytes
  <2> QED BY <2>1, FlattenOne
<1>4. [i \in DOMAIN bytes |-> [k \in 1..8 |-> (bytes[i] \div 2^(8 - k)) % 2]] = <<bits>>
  BY <1>1
<1>5. FlattenSeq(<<bits>>) = bits
  <2> DEFINE S == {bits[k] : k \in 1..8}
  <2>1. bits \in Seq(S)
    <3> HIDE DEF bits
    <3>1. bits = [k \in 1..8 |-> bits[k]]
      BY DEF bits
    <3>2. \A k \in 1..8 : bits[k] \in S
      OBVIOUS
    <3> HIDE DEF S
    <3> QED BY <3>1, <3>2
  <2> HIDE DEF bits, S
  <2> QED BY <2>1, FlattenOne
<1> QED BY <1>2, <1>3, <1>4, <1>5 DEF Rbsp, Bits

LEMMA HeaderBits ==
  /\ LET bits == [k \in 1..8 |-> (136 \div 2^(8 - k)) % 2] IN bits[1] = 1 /\ Len(bits) = 8
  /\ LET bits == [k \in 1..8 |-> (64 \div 2^(8 - k)) % 2]
     IN bits[1] = 0 /\ bits[2] = 1 /\ Len(bits) = 8
OBVIOUS

LEMMA UnitAfterThree ==
  ASSUME NEW t \in Nat, NEW b \in Nat, b # 0, NEW x, x = <<0, 0, 1, t, b>>
  PROVE  x \in NalUnits /\ Payload(x) = <<t, b>>
<1>1. /\ x \in Seq(Nat) /\ Len(x) = 5 /\ x[1] = 0 /\ x[2] = 0 /\ x[3] = 1 /\ x[4] = t
      /\ x[5] = b
  OBVIOUS
<1>2. StartCodeSize(x, 1) = 3
  <2>1. StartCodeSize(x, 1) = SizeTo(x, 5, 1)
    BY <1>1, SizeIs
  <2> QED BY <1>1, <2>1 DEF SizeTo, Three
<1>3. Payload(x) = <<t, b>>
  <2>1. Payload(x) = SubSeq(x, 4, 5)
    BY <1>1, <1>2 DEF Payload
  <2>2. SubSeq(x, 4, 5) = <<x[4], x[5]>>
    <3>1. /\ SubSeq(x, 4, 5) \in Seq(Nat) /\ Len(SubSeq(x, 4, 5)) = 5 - 4 + 1
          /\ \A i \in 1..5 - 4 + 1 : SubSeq(x, 4, 5)[i] = x[4 + i - 1]
      BY <1>1, SliceIs
    <3> DEFINE y == SubSeq(x, 4, 5)
    <3>2. y \in Seq(Nat) /\ Len(y) = 2 /\ y[1] = x[4] /\ y[2] = x[5]
      BY <3>1
    <3> HIDE DEF y
    <3>3. y = <<x[4], x[5]>>
      BY <3>2
    <3> QED BY <3>3 DEF y
  <2> QED BY <1>1, <2>1, <2>2
<1>4. ASSUME NEW c PROVE c \in Begins(x) <=> c = 1
  <2>1. c \in Begins(x) <=>
          /\ c \in 1..5
          /\ \/ Four(x, c) /\ c + 3 <= 5
             \/ Three(x, c) /\ c + 2 <= 5 /\ (c > 1 => x[c - 1] # 0)
    BY <1>1, BeginsAre
  <2>2. c \in 1..5 /\ c + 2 <= 5 => c = 1 \/ c = 2 \/ c = 3
    OBVIOUS
  <2>3. ~Four(x, 1) /\ ~Four(x, 2) /\ ~Three(x, 2) /\ ~Three(x, 3) /\ Three(x, 1)
    BY <1>1 DEF Four, Three
  <2>4. c \in 1..5 /\ c + 3 <= 5 => c = 1 \/ c = 2
    OBVIOUS
  <2>5. 1 \in 1..5 /\ 1 + 2 <= 5 /\ ~(1 > 1)
    OBVIOUS
  <2> QED BY <2>1, <2>2, <2>3, <2>4, <2>5
<1>5. Begins(x) = {1}
  BY <1>4
<1>6. Payload(x) # <<>>
  <2> DEFINE y == <<t, b>>
  <2>1. Len(y) = 2 /\ Len(<<>>) = 0
    OBVIOUS
  <2>2. Payload(x) = y
    BY <1>3
  <2> HIDE DEF y
  <2> QED BY <2>1, <2>2
<1> QED BY <1>1, <1>3, <1>5, <1>6 DEF NalUnits

LEMMA SliceUnit ==
  ASSUME NEW t \in {1, 5}, NEW b \in {136, 64}, NEW x, x = <<0, 0, 1, t, b>>
  PROVE  /\ x \in NalUnits /\ PlainSlice(x) /\ IsVcl(x) /\ ~IsAud(x)
         /\ FirstSlice(x) <=> b = 136
<1>1. x \in NalUnits /\ Payload(x) = <<t, b>>
  BY UnitAfterThree
<1>2. /\ Payload(x) # <<>> /\ Len(Payload(x)) = 2 /\ Payload(x)[1] = t
      /\ Payload(x)[2] = b /\ Tail(Payload(x)) = <<b>>
  <2> DEFINE y == <<t, b>>
  <2>1. /\ Len(y) = 2 /\ y[1] = t /\ y[2] = b /\ Tail(y) = <<b>> /\ Len(<<>>) = 0
    OBVIOUS
  <2>2. Payload(x) = y
    BY <1>1
  <2> HIDE DEF y
  <2> QED BY <2>1, <2>2
<1>3. Type(x) = t
  BY <1>2 DEF Type
<1>4. IsVcl(x) /\ ~IsAud(x)
  BY <1>2, <1>3 DEF IsVcl, IsAud
<1>5. FirstSlice(x) <=> b = 136
  BY <1>2, <1>4 DEF FirstSlice
<1> DEFINE bits == [k \in 1..8 |-> (b \div 2^(8 - k)) % 2]
           ones == {k \in DOMAIN bits : bits[k] = 1}
           zeros == IF ones = {} THEN Len(bits) ELSE Min(ones) - 1
<1>6. Bits(Rbsp(Tail(Payload(x)))) = bits
  <2>1. b \in 1..255
    OBVIOUS
  <2> QED BY <1>2, <2>1, OneByte
<1>7. DOMAIN bits = 1..8 /\ Len(bits) = 8
  <2> HIDE DEF bits
  <2>1. bits = [k \in 1..8 |-> bits[k]]
    BY DEF bits
  <2> QED BY <2>1
<1>8. (b = 136 => bits[1] = 1) /\ (b = 64 => bits[1] = 0 /\ bits[2] = 1)
  BY HeaderBits
<1> HIDE DEF bits
<1>9. FirstOrUnreadable(x) <=> zeros = 0 \/ zeros > 31 \/ 8 < 2 * zeros + 1
  BY <1>6, <1>7 DEF FirstOrUnreadable
<1>10. \A k : k \in ones <=> k \in 1..8 /\ bits[k] = 1
  BY <1>7
<1> HIDE DEF ones
<1>11. ASSUME NEW m \in ones, \A k \in ones : m <= k
       PROVE  zeros = m - 1
  <2>1. ones # {} /\ ones \subseteq Nat
    BY <1>10
  <2>2. PICK z : z = Min(ones) /\ z \in ones /\ \A k \in ones : z <= k
    BY <1>11, Zenon DEF Min
  <2>3. z = m
    BY <1>11, <2>1, <2>2
  <2> QED BY <2>1, <2>2, <2>3
<1> HIDE DEF zeros
<1>12. CASE b = 136
  <2>1. 1 \in ones /\ \A k \in ones : 1 <= k
    BY <1>8, <1>10, <1>12
  <2>2. zeros = 1 - 1
    BY <1>11, <2>1
  <2>3. FirstOrUnreadable(x)
    BY <1>9, <2>2
  <2> QED BY <1>1, <1>3, <1>4, <1>5, <1>12, <2>3 DEF PlainSlice
<1>13. CASE b = 64
  <2>1. 2 \in ones /\ 1 \notin ones
    BY <1>8, <1>10, <1>13
  <2>2. \A k \in ones : 2 <= k
    BY <1>10, <2>1
  <2>3. zeros = 2 - 1
    BY <1>11, <2>1, <2>2
  <2>4. ~FirstOrUnreadable(x)
    BY <1>9, <2>3
  <2> QED BY <1>1, <1>3, <1>4, <1>5, <1>13, <2>4 DEF PlainSlice
<1> QED BY <1>12, <1>13

(* NAL units that are no slices, behind a start code of four bytes. *)
LEMMA OtherUnit ==
  ASSUME NEW x, x = Delimiter \/ x = Parameters
  PROVE  /\ x \in NalUnits /\ PlainSlice(x) /\ ~IsVcl(x) /\ ~FirstSlice(x)
         /\ IsAud(x) <=> x = Delimiter
<1> DEFINE n == Len(x)
<1>1. /\ x \in Seq(Nat) /\ x[1] = 0 /\ x[2] = 0 /\ x[3] = 0 /\ x[4] = 1
      /\ (x = Delimiter => n = 5 /\ x[5] = 9)
      /\ (x = Parameters => n = 6 /\ x[5] = 8 /\ x[6] = 1)
  <2> DEFINE y == <<0, 0, 0, 1, 9>>
             z == <<0, 0, 0, 1, 8, 1>>
  <2>1. /\ y \in Seq(Nat) /\ y[1] = 0 /\ y[2] = 0 /\ y[3] = 0 /\ y[4] = 1 /\ y[5] = 9
        /\ Len(y) = 5
    OBVIOUS
  <2>2. /\ z \in Seq(Nat) /\ z[1] = 0 /\ z[2] = 0 /\ z[3] = 0 /\ z[4] = 1 /\ z[5] = 8
        /\ z[6] = 1 /\ Len(z) = 6
    OBVIOUS
  <2>3. Delimiter = y /\ Parameters = z
    BY DEF Delimiter, Parameters
  <2> HIDE DEF y, z
  <2>4. y # z
    BY <2>1, <2>2
  <2> QED BY <2>1, <2>2, <2>3, <2>4
<1>2. n \in {5, 6} /\ n \in Nat /\ x[5] \in {8, 9} /\ x[n] # 0 /\ (n = 6 => x[6] = 1)
  BY <1>1
<1>3. StartCodeSize(x, 1) = 4
  <2>1. StartCodeSize(x, 1) = SizeTo(x, n, 1)
    BY <1>1, SizeIs
  <2> QED BY <1>1, <1>2, <2>1 DEF SizeTo, Three, Four
<1>4. Payload(x) # <<>> /\ Payload(x)[1] = x[5]
  <2>1. Payload(x) = SubSeq(x, 5, n)
    BY <1>3 DEF Payload
  <2>2. n \in 0..Len(x) /\ 5 \in 1..n + 1
    BY <1>2
  <2>3. /\ SubSeq(x, 5, n) \in Seq(Nat) /\ Len(SubSeq(x, 5, n)) = n - 5 + 1
        /\ \A i \in 1..n - 5 + 1 : SubSeq(x, 5, n)[i] = x[5 + i - 1]
    BY <1>1, <2>2, SliceIs
  <2> DEFINE y == SubSeq(x, 5, n)
  <2>4. 1 \in 1..n - 5 + 1 /\ 5 + 1 - 1 = 5 /\ n - 5 + 1 # 0
    BY <1>2
  <2>5. y \in Seq(Nat) /\ Len(y) # 0 /\ y[1] = x[5]
    <3> HIDE DEF n
    <3> QED BY <2>3, <2>4
  <2> HIDE DEF y
  <2>6. y # <<>>
    BY <2>5
  <2> QED BY <2>1, <2>5, <2>6 DEF y
<1> HIDE DEF n
<1>5. ASSUME NEW c PROVE c \in Begins(x) <=> c = 1
  <2>1. c \in Begins(x) <=>
          /\ c \in 1..n
          /\ \/ Four(x, c) /\ c + 3 <= n
             \/ Three(x, c) /\ c + 2 <= n /\ (c > 1 => x[c - 1] # 0)
    BY <1>1, BeginsAre DEF n
  <2>2. c \in 1..n /\ c + 2 <= n => c = 1 \/ c = 2 \/ c = 3 \/ (c = 4 /\ n = 6)
    BY <1>2
  <2>3. c \in 1..n /\ c + 3 <= n => c = 1 \/ c = 2 \/ c = 3
    BY <1>2
  <2>4. /\ Four(x, 1) /\ ~Four(x, 2) /\ ~Four(x, 3) /\ ~Three(x, 1) /\ ~Three(x, 3)
        /\ ~Three(x, 4)
    BY <1>1 DEF Four, Three
  <2>5. 1 \in 1..n /\ 1 + 3 <= n /\ 2 > 1 /\ x[2 - 1] = 0
    BY <1>1, <1>2
  <2> QED BY <2>1, <2>2, <2>3, <2>4, <2>5
<1>6. Begins(x) = {1}
  BY <1>5
<1>7. x \in NalUnits
  BY <1>1, <1>2, <1>4, <1>6 DEF NalUnits, n
<1>8. Type(x) = x[5]
  BY <1>2, <1>4 DEF Type
<1>9. ~IsVcl(x) /\ ~FirstSlice(x) /\ PlainSlice(x)
  BY <1>2, <1>8 DEF IsVcl, FirstSlice, PlainSlice
<1>10. x[5] = 9 <=> x = Delimiter
  BY <1>1
<1>11. IsAud(x) <=> x = Delimiter
  BY <1>4, <1>8, <1>10 DEF IsAud
<1> QED BY <1>7, <1>9, <1>11

LEMMA NalUnitsAre ==
  /\ First \in NalUnits /\ PlainSlice(First) /\ FirstSlice(First) /\ ~IsAud(First)
  /\ Idr \in NalUnits /\ PlainSlice(Idr) /\ FirstSlice(Idr) /\ ~IsAud(Idr)
  /\ Later \in NalUnits /\ PlainSlice(Later) /\ ~FirstSlice(Later) /\ ~IsAud(Later)
  /\ Delimiter \in NalUnits /\ PlainSlice(Delimiter) /\ ~IsVcl(Delimiter)
  /\ Parameters \in NalUnits /\ PlainSlice(Parameters) /\ ~IsVcl(Parameters)
  /\ ~IsAud(Parameters)
<1>1. First \in NalUnits /\ PlainSlice(First) /\ FirstSlice(First) /\ ~IsAud(First)
  BY SliceUnit DEF First
<1>2. Later \in NalUnits /\ PlainSlice(Later) /\ ~FirstSlice(Later) /\ ~IsAud(Later)
  BY SliceUnit DEF Later
<1>3. Idr \in NalUnits /\ PlainSlice(Idr) /\ FirstSlice(Idr) /\ ~IsAud(Idr)
  BY SliceUnit DEF Idr
<1>4. Delimiter # Parameters
  <2> DEFINE y == <<0, 0, 0, 1, 9>>
             z == <<0, 0, 0, 1, 8, 1>>
  <2>1. Len(y) = 5 /\ Len(z) = 6
    OBVIOUS
  <2>2. Delimiter = y /\ Parameters = z
    BY DEF Delimiter, Parameters
  <2> HIDE DEF y, z
  <2> QED BY <2>1, <2>2
<1>5. Delimiter \in NalUnits /\ PlainSlice(Delimiter) /\ ~IsVcl(Delimiter)
  BY OtherUnit, Zenon
<1>6. Parameters \in NalUnits /\ PlainSlice(Parameters) /\ ~IsVcl(Parameters)
      /\ ~IsAud(Parameters)
  BY <1>4, OtherUnit, Zenon
<1> QED BY <1>1, <1>2, <1>3, <1>5, <1>6

LEMMA PictureOfOne ==
  ASSUME NEW a \in NalUnits, PlainSlice(a), FirstSlice(a), ~IsAud(a)
  PROVE  a \in WholePictures
<1> DEFINE q == <<a>>
<1>1. q \in Seq(NalUnits) /\ DOMAIN q = {1} /\ q[1] = a
  OBVIOUS
<1>2. FlattenSeq(q) = a
  BY NalUnitIs, FlattenOne
<1> HIDE DEF q
<1>3. FirstOf(q, 1)
  BY <1>1 DEF FirstOf
<1>4. OnePicture(q)
  BY <1>1, <1>3 DEF OnePicture
<1> QED BY <1>1, <1>2, <1>4 DEF WholePictures

LEMMA PictureOfTwo ==
  ASSUME NEW a \in NalUnits, NEW b \in NalUnits, PlainSlice(a), PlainSlice(b),
         ~IsAud(b),
         (FirstSlice(a) /\ ~FirstSlice(b)) \/ (~IsVcl(a) /\ FirstSlice(b))
  PROVE  a \o b \in WholePictures
<1> DEFINE q == <<a, b>>
<1>1. q \in Seq(NalUnits) /\ DOMAIN q = {1, 2} /\ q[1] = a /\ q[2] = b
  OBVIOUS
<1>2. FlattenSeq(q) = a \o b
  BY NalUnitIs, FlattenTwo
<1> HIDE DEF q
<1>3. FirstOf(q, 1) \/ FirstOf(q, 2)
  BY <1>1 DEF FirstOf
<1>4. OnePicture(q)
  BY <1>1, <1>3 DEF OnePicture
<1> QED BY <1>1, <1>2, <1>4 DEF WholePictures

LEMMA PictureOfFour ==
  ASSUME NEW a \in NalUnits, NEW b \in NalUnits, NEW c \in NalUnits, NEW d \in NalUnits,
         PlainSlice(a), PlainSlice(b), PlainSlice(c), PlainSlice(d),
         ~IsVcl(a), ~IsVcl(b), ~IsAud(b), FirstSlice(c), ~IsAud(c),
         ~FirstSlice(d), ~IsAud(d)
  PROVE  a \o b \o c \o d \in WholePictures
<1> DEFINE q == <<a, b, c, d>>
<1>1. /\ q \in Seq(NalUnits) /\ DOMAIN q = {1, 2, 3, 4} /\ q[1] = a /\ q[2] = b
      /\ q[3] = c /\ q[4] = d
  OBVIOUS
<1>2. FlattenSeq(q) = a \o b \o c \o d
  <2>1. a \in Seq(Nat) /\ b \in Seq(Nat) /\ c \in Seq(Nat) /\ d \in Seq(Nat)
    BY NalUnitIs
  <2>2. IsFlat(a, b, c, d)
    BY <2>1, FlattenFour
  <2> QED BY <2>2 DEF IsFlat
<1> HIDE DEF q
<1>3. FirstOf(q, 3)
  BY <1>1 DEF FirstOf
<1>4. OnePicture(q)
  BY <1>1, <1>3 DEF OnePicture
<1> QED BY <1>1, <1>2, <1>4 DEF WholePictures

LEMMA PicturesAreWhole == Pictures \subseteq WholePictures
<1>1. First \in WholePictures
  BY NalUnitsAre, PictureOfOne, Zenon
<1>2. First \o Later \in WholePictures
  BY NalUnitsAre, PictureOfTwo, Zenon
<1>3. Parameters \o Idr \in WholePictures
  BY NalUnitsAre, PictureOfTwo, Zenon
<1>4. Delimiter \o First \in WholePictures
  BY NalUnitsAre, PictureOfTwo, Zenon
<1>5. Delimiter \o Parameters \o Idr \o Later \in WholePictures
  BY NalUnitsAre, PictureOfFour, Zenon
<1> QED BY <1>1, <1>2, <1>3, <1>4, <1>5 DEF Pictures

(* In particular of up to four pictures that StereoStreamer's run makes    *)
(* (video.py 285-303, 463-480; host_bridge_demo.cpp 284-330).              *)
THEOREM PicturesAreUnits == Spec => []OneUnitPerPicture
<1>1. ASSUME NEW pictures \in BoundedSeq(Pictures, 4) \ {<<>>}
      PROVE  LET data == FlattenSeq(pictures)
                 loaded == LoadTestStream(data)
             IN /\ Plain(Nals(data)) /\ Whole(AccessUnits(<<data>>), pictures)
                /\ Whole([k \in DOMAIN loaded |-> loaded[k].data], pictures)
                /\ \A k \in DOMAIN loaded : loaded[k].key = HasIdr(pictures[k])
  <2> DEFINE data == FlattenSeq(pictures)
             loaded == LoadTestStream(data)
             ends == <<>>
  <2>1. pictures \in Seq(WholePictures) /\ pictures # <<>>
    <3>1. PICK m \in 0..4 : pictures \in [1..m -> Pictures]
      BY DEF BoundedSeq, SeqOf
    <3>2. \A k \in 1..m : pictures[k] \in WholePictures
      BY <3>1, PicturesAreWhole
    <3> HIDE DEF data, loaded
    <3>3. pictures = [k \in 1..m |-> pictures[k]] /\ m \in Nat
      BY <3>1
    <3> QED BY <3>2, <3>3, IsASeq
  <2>2. data \in Seq(Nat)
    BY <2>1, StreamIsCut
  <2>3. AreEnds(data, ends)
    BY DEF AreEnds
  <2>4. Reads(data, ends) = <<data>>
    <3> HIDE DEF data
    <3>1. SubSeq(data, 1, Len(data)) = data
      BY <2>2
    <3>2. Reads(data, ends) = [k \in 1..1 |-> SubSeq(data, 1, Len(data))]
      <4>1. Len(ends) + 1 = 1 /\ Len(ends) = 0 /\ \A k \in 1..1 : k = 1 /\ k > 0
        OBVIOUS
      <4> HIDE DEF ends
      <4> QED BY <4>1 DEF Reads
    <3> QED BY <3>1, <3>2
  <2>5. /\ Plain(Nals(data)) /\ Whole(AccessUnits(Reads(data, ends)), pictures)
        /\ Whole(DataOf(loaded), pictures)
        /\ \A k \in DOMAIN loaded : loaded[k].key = HasIdr(pictures[k])
    <3> HIDE DEF ends
    <3> QED BY <2>1, <2>3, PicturesStayWhole
  <2> QED BY <2>4, <2>5 DEF DataOf
<1>2. Damaged = {}
  BY <1>1, Zenon DEF Damaged
<1>3. OneUnitPerPicture
  BY <1>2 DEF OneUnitPerPicture
<1> QED BY <1>3, PTL

=============================================================================
