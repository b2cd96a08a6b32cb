---------------------------- MODULE TeleopProofs ----------------------------
(***************************************************************************)
(* CommandsFollowHand of Teleop, for any grips, deadband, clip and number   *)
(* of packets: what the robot was commanded is what the history of samples  *)
(* amounts to.                                                             *)
(*                                                                         *)
(* The state of QuestArmTeleop and of the camera is what the last sample of *)
(* its mailbox left (HandInv, HeadInv); a sample seen again is that last    *)
(* one (Ordered) and changes nothing; and what the history amounts to does  *)
(* not change when packets and samples are appended (Earlier).             *)
(***************************************************************************)
EXTENDS Teleop, FiniteSetTheorems, WellFoundedInduction, TLAPS

-----------------------------------------------------------------------------
(* Numbers: a least element, and a greatest of a bounded set. *)
Less == {q \in Nat \X Nat : q[1] < q[2]}

LEMMA Least ==
  ASSUME NEW T, T \subseteq Nat, T # {}
  PROVE  \E m \in T : \A y \in T : y >= m
<1>1. Less = OpToRel(<, Nat)
  BY DEF Less, OpToRel
<1>2. IsWellFoundedOn(Less, Nat)
  BY <1>1, NatLessThanWellFounded
<1>3. PICK m \in T : \A y \in T : ~(<<y, m>> \in Less)
  BY <1>2, WFMin
<1>4. ASSUME NEW y \in T PROVE y >= m
  <2>1. ~(<<y, m>> \in Less) /\ y \in Nat /\ m \in Nat
    BY <1>3
  <2> QED BY <2>1 DEF Less
<1> QED BY <1>4

LEMMA MaxIn ==
  ASSUME NEW n \in Nat, NEW S, S \subseteq 1..n, S # {}
  PROVE  Max(S) \in S /\ \A y \in S : Max(S) >= y
<1> DEFINE T == {n - x : x \in S}
<1>1. T \subseteq Nat /\ T # {}
  <2>1. ASSUME NEW x \in S PROVE n - x \in Nat
    <3>1. x \in 1..n
      OBVIOUS
    <3> QED BY <3>1
  <2> QED BY <2>1
<1>2. PICK x \in S : \A y \in T : y >= n - x
  BY <1>1, Least
<1>3. ASSUME NEW y \in S PROVE x >= y
  <2>1. n - y >= n - x /\ x \in 1..n /\ y \in 1..n
    BY <1>2
  <2> QED BY <2>1
<1>4. \E m \in S : \A y \in S : m >= y
  BY <1>3
<1> QED BY <1>4 DEF Max

(* The greatest element is the only one, and is kept apart from smaller ones. *)
LEMMA MaxUnique ==
  ASSUME NEW n \in Nat, NEW S, S \subseteq 1..n, NEW m \in S, \A y \in S : m >= y
  PROVE  Max(S) = m
<1>1. Max(S) \in S /\ \A y \in S : Max(S) >= y
  <2>1. S # {}
    OBVIOUS
  <2> QED BY <2>1, MaxIn
<1> DEFINE top == Max(S)
<1> HIDE DEF top
<1>2. top >= m /\ m >= top /\ m \in 1..n /\ top \in 1..n
  BY <1>1 DEF top
<1> QED BY <1>2 DEF top

-----------------------------------------------------------------------------
(* Total: s runs along moves up to n. *)
Running(s, moves, n) ==
  s[0] = 0 /\ \A k \in 1..n : s[k] = s[k - 1] + moves[k]

Adds(sum, moves) ==
  sum = [k \in 0..Len(moves) |-> IF k = 0 THEN 0 ELSE sum[k - 1] + moves[k]]

LEMMA TotalIs ==
  ASSUME NEW moves
  PROVE  Total(moves) = (CHOOSE sum : Adds(sum, moves))[Len(moves)]
BY DEF Total, Adds

LEMMA RunningExists ==
  ASSUME NEW moves \in Seq(Int), NEW n \in 0..Len(moves)
  PROVE  \E s \in [0..n -> Int] : Running(s, moves, n)
<1> DEFINE T == {k \in 0..Len(moves) :
                   ~ \E s \in [0..k -> Int] : Running(s, moves, k)}
<1>1. ASSUME T # {} PROVE FALSE
  <2>1. PICK k \in T : \A y \in T : y >= k
    <3>1. T \subseteq Nat
      OBVIOUS
    <3> QED BY <1>1, <3>1, Least
  <2>2. k # 0
    <3>1. ASSUME k = 0 PROVE FALSE
      <4>1. [i \in 0..0 |-> 0] \in [0..0 -> Int] /\ Running([i \in 0..0 |-> 0], moves, 0)
        BY DEF Running
      <4> QED BY <3>1, <4>1
    <3> QED BY <3>1
  <2>3. k - 1 \in 0..Len(moves) /\ k - 1 \notin T
    <3>1. k \in 0..Len(moves) /\ ~(k - 1 >= k)
      OBVIOUS
    <3>2. k - 1 \in 0..Len(moves)
      BY <2>2, <3>1
    <3> QED BY <2>1, <3>1, <3>2
  <2>4. PICK s \in [0..k - 1 -> Int] : Running(s, moves, k - 1)
    BY <2>3
  <2> DEFINE t == [i \in 0..k |-> IF i = k THEN s[k - 1] + moves[k] ELSE s[i]]
  <2>5. k \in 1..Len(moves) /\ moves[k] \in Int /\ s[k - 1] \in Int
    BY <2>2
  <2>6. t \in [0..k -> Int]
    BY <2>5
  <2>7. \A i \in 0..k - 1 : t[i] = s[i]
    BY <2>5
  <2>8. t[k] = s[k - 1] + moves[k]
    BY <2>5
  <2> HIDE DEF t
  <2>9. t[0] = 0
    BY <2>4, <2>5, <2>7 DEF Running
  <2>10. ASSUME NEW i \in 1..k PROVE t[i] = t[i - 1] + moves[i]
    <3>1. CASE i = k
      BY <2>5, <2>7, <2>8, <3>1
    <3>2. CASE i # k
      <4>1. i \in 1..k - 1 /\ i \in 0..k - 1 /\ i - 1 \in 0..k - 1
        BY <2>5, <3>2
      <4> QED BY <2>4, <2>7, <4>1 DEF Running
    <3> QED BY <3>1, <3>2
  <2>11. Running(t, moves, k)
    BY <2>9, <2>10 DEF Running
  <2> QED BY <2>6, <2>11
<1> QED BY <1>1

LEMMA RunningUnique ==
  ASSUME NEW a, NEW b, NEW n \in Nat, NEW s, NEW t,
         Running(s, a, n), Running(t, b, n), \A k \in 1..n : a[k] = b[k]
  PROVE  \A k \in 0..n : s[k] = t[k]
<1> DEFINE T == {k \in 0..n : s[k] # t[k]}
<1>1. ASSUME T # {} PROVE FALSE
  <2>1. PICK k \in T : \A y \in T : y >= k
    <3>1. T \subseteq Nat
      OBVIOUS
    <3> QED BY <1>1, <3>1, Least
  <2>2. k \in 0..n /\ s[k] # t[k] /\ k # 0
    BY DEF Running
  <2>3. k - 1 \in 0..n /\ k \in 1..n
    BY <2>2
  <2>4. s[k - 1] = t[k - 1]
    <3>1. ~(k - 1 >= k)
      BY <2>2
    <3> QED BY <2>1, <2>3, <3>1
  <2>5. s[k] = s[k - 1] + a[k] /\ t[k] = t[k - 1] + b[k] /\ a[k] = b[k]
    BY <2>3 DEF Running
  <2> QED BY <2>2, <2>4, <2>5
<1> QED BY <1>1

LEMMA TotalRuns ==
  ASSUME NEW moves \in Seq(Int)
  PROVE  \E s \in [0..Len(moves) -> Int] :
           Running(s, moves, Len(moves)) /\ Total(moves) = s[Len(moves)]
<1> DEFINE n == Len(moves)
<1>1. PICK s \in [0..n -> Int] : Running(s, moves, n)
  BY RunningExists
<1>2. Adds(s, moves)
  <2> DEFINE u == [k \in 0..n |-> IF k = 0 THEN 0 ELSE s[k - 1] + moves[k]]
  <2>1. \A k \in 0..n : s[k] = u[k]
    BY <1>1 DEF Running
  <2>2. s = u
    BY <2>1
  <2> QED BY <2>2 DEF Adds
<1>3. PICK t : t = (CHOOSE sum : Adds(sum, moves)) /\ Adds(t, moves)
  BY <1>2
<1>4. Running(t, moves, n)
  <2>1. n \in Nat /\ 0 \in 0..n /\ \A k \in 1..n : k \in 0..n /\ k # 0
    OBVIOUS
  <2>2. \A k \in 0..n : t[k] = IF k = 0 THEN 0 ELSE t[k - 1] + moves[k]
    BY <1>3, Zenon DEF Adds
  <2> QED BY <2>1, <2>2 DEF Running
<1>5. t[n] = s[n]
  BY <1>1, <1>4, RunningUnique
<1> QED BY <1>1, <1>3, <1>5, TotalIs

LEMMA TotalEmpty == Total(<<>>) = 0
<1>1. PICK s : Running(s, <<>>, Len(<<>>)) /\ Total(<<>>) = s[Len(<<>>)]
  <2>1. <<>> \in Seq(Int)
    OBVIOUS
  <2> QED BY <2>1, TotalRuns
<1>2. Len(<<>>) = 0
  OBVIOUS
<1> QED BY <1>1, <1>2 DEF Running

LEMMA TotalAppend ==
  ASSUME NEW moves \in Seq(Int), NEW x \in Int
  PROVE  Total(moves) \in Int /\ Total(Append(moves, x)) = Total(moves) + x
<1> DEFINE n == Len(moves)
           more == Append(moves, x)
<1>1. /\ more \in Seq(Int) /\ Len(more) = n + 1 /\ more[n + 1] = x
      /\ \A k \in 1..n : more[k] = moves[k]
      /\ n \in Nat
  OBVIOUS
<1>2. PICK s \in [0..n -> Int] : Running(s, moves, n) /\ Total(moves) = s[n]
  BY TotalRuns
<1> HIDE DEF more
<1>3. PICK t : Running(t, more, n + 1) /\ Total(more) = t[n + 1]
  BY <1>1, TotalRuns
<1>4. Running(t, more, n)
  BY <1>3 DEF Running
<1>5. t[n] = s[n]
  <2>1. n \in Nat /\ n \in 0..n /\ \A k \in 1..n : moves[k] = more[k]
    BY <1>1
  <2>2. \A k \in 0..n : s[k] = t[k]
    BY <1>2, <1>4, <2>1, RunningUnique
  <2> QED BY <2>1, <2>2
<1>6. t[n + 1] = t[n] + x
  <2>1. n + 1 \in 1..n + 1 /\ (n + 1) - 1 = n
    OBVIOUS
  <2> QED BY <1>1, <1>3, <2>1 DEF Running
<1>7. s[n] \in Int
  OBVIOUS
<1> QED BY <1>2, <1>3, <1>5, <1>6, <1>7 DEF more

-----------------------------------------------------------------------------
(* The inductive invariant: the mailboxes are numbers of packets, a sample   *)
(* was in its mailbox when it was seen, and later ones have later numbers.  *)
Kinds == {"input", "head"}
Mailbox(which) == IF which = "input" THEN questInput ELSE headPose

Typed ==
  /\ packets \in Seq(Samples)
  /\ questInput \in 0..Len(packets) /\ headPose \in 0..Len(packets)
  /\ arm \in Int /\ axes \in {1, -1}
  /\ gripperClosed \in BOOLEAN /\ wasClutched \in BOOLEAN
  /\ seen \in Seq(Kinds \X (Nat \ {0}))

Ordered ==
  /\ \A k \in DOMAIN seen : seen[k][2] <= Mailbox(seen[k][1])
  /\ \A i, j \in DOMAIN seen :
       i < j /\ seen[i][1] = seen[j][1] => seen[i][2] < seen[j][2]

(* The last sample seen of a kind; there may be none. *)
Latest(which) == IF SeenAs(which) = {} THEN {} ELSE {Max(SeenAs(which))}

HandInv ==
  /\ Latest("input") = {} => grip = None /\ ~wasClutched /\ ~triggerWasPressed
  /\ \A k \in Latest("input") :
       /\ triggerWasPressed = Sample(k).trigger
       /\ wasClutched <=> Clutched(Sample(k))
       /\ grip = IF Clutched(Sample(k)) THEN <<Sample(k).grip>> ELSE None

HeadInv ==
  /\ Latest("head") = {} => neutralHead = 0
  /\ \A k \in Latest("head") :
       neutralHead # 0 /\ resetButtonWasDown = Sample(k).recenter
  /\ axes = IF Recenters = {} THEN 1 ELSE Sample(Max(Recenters)).facing

IInv == Typed /\ Ordered /\ HandInv /\ HeadInv /\ CommandsFollowHand

-----------------------------------------------------------------------------
(* What the history is, element by element. *)
LEMMA SeenType ==
  ASSUME Typed, Ordered, NEW k \in DOMAIN seen
  PROVE  /\ DOMAIN seen = 1..Len(seen) /\ Len(seen) \in Nat
         /\ seen[k][1] \in Kinds
         /\ seen[k][2] \in 1..Len(packets)
         /\ Sample(k) \in Samples
<1>1. /\ DOMAIN seen = 1..Len(seen) /\ Len(seen) \in Nat
      /\ seen[k] \in Kinds \X (Nat \ {0}) /\ Len(packets) \in Nat
  BY DEF Typed
<1>2. seen[k][1] \in Kinds /\ seen[k][2] \in Nat \ {0}
  BY <1>1
<1>3. seen[k][2] <= Mailbox(seen[k][1]) /\ Mailbox(seen[k][1]) \in 0..Len(packets)
  BY DEF Typed, Ordered, Mailbox
<1>4. seen[k][2] \in 1..Len(packets)
  BY <1>1, <1>2, <1>3
<1> QED BY <1>1, <1>2, <1>4 DEF Typed, Sample

LEMMA PreviousIn ==
  ASSUME Typed, NEW k \in DOMAIN seen
  PROVE  /\ Previous(k) \subseteq Before(k, SeenAs(seen[k][1]))
         /\ Previous(k) # {} => Max(Previous(k)) \in Previous(k)
<1> DEFINE S == Before(k, SeenAs(seen[k][1]))
<1>1. S \subseteq 1..Len(seen) /\ Len(seen) \in Nat
  BY DEF Before, SeenAs, Typed
<1>2. S # {} => Max(S) \in S
  BY <1>1, MaxIn
<1>3. Previous(k) = IF S = {} THEN {} ELSE {Max(S)}
  BY DEF Previous
<1>4. ASSUME Previous(k) # {} PROVE Max(Previous(k)) \in Previous(k)
  <2>1. Previous(k) \subseteq 1..Len(seen)
    BY <1>1, <1>2, <1>3
  <2> QED BY <1>1, <1>4, <2>1, MaxIn
<1> QED BY <1>2, <1>3, <1>4

LEMMA FrameIs ==
  ASSUME Typed, Ordered, NEW k, NEW S, S = Before(k, Recenters), S # {}
  PROVE  Max(S) \in S /\ Max(S) \in DOMAIN seen /\ Sample(Max(S)).facing \in {1, -1}
<1>1. S \subseteq 1..Len(seen) /\ Len(seen) \in Nat /\ DOMAIN seen = 1..Len(seen)
  BY DEF Before, Recenters, SeenAs, Typed
<1>2. Max(S) \in S /\ Max(S) \in DOMAIN seen
  BY <1>1, MaxIn
<1>3. Sample(Max(S)) \in Samples
  BY <1>2, SeenType
<1> QED BY <1>2, <1>3 DEF Samples

(* Appending packets and samples changes nothing of what came before.       *)
Grown ==
  /\ Len(packets) <= Len(packets')
  /\ \A k \in 1..Len(packets) : packets'[k] = packets[k]
  /\ Len(seen) <= Len(seen')
  /\ \A k \in 1..Len(seen) : seen'[k] = seen[k]

LEMMA EarlierSample ==
  ASSUME Typed, Ordered, Typed', Grown, NEW k \in 1..Len(seen)
  PROVE  /\ k \in DOMAIN seen /\ k \in DOMAIN seen' /\ seen'[k] = seen[k]
         /\ Sample(k)' = Sample(k)
         /\ \A w : Before(k, SeenAs(w))' = Before(k, SeenAs(w))
         /\ Previous(k)' = Previous(k)
<1>1. /\ DOMAIN seen = 1..Len(seen) /\ DOMAIN seen' = 1..Len(seen')
      /\ Len(seen) \in Nat /\ Len(seen') \in Nat
  BY DEF Typed
<1>2. k \in DOMAIN seen /\ k \in DOMAIN seen' /\ seen'[k] = seen[k]
  BY <1>1 DEF Grown
<1>3. Sample(k)' = Sample(k)
  BY <1>2, SeenType DEF Sample, Grown
<1>4. ASSUME NEW w PROVE Before(k, SeenAs(w))' = Before(k, SeenAs(w))
  BY <1>1 DEF Before, SeenAs, Grown
<1>5. Previous(k)' = Previous(k)
  BY <1>2, <1>4 DEF Previous
<1> QED BY <1>2, <1>3, <1>4, <1>5

LEMMA Earlier ==
  ASSUME Typed, Ordered, Typed', Grown, NEW k \in 1..Len(seen)
  PROVE  /\ k \in SeenAs("input")' <=> k \in SeenAs("input")
         /\ k \in SeenAs("head")' <=> k \in SeenAs("head")
         /\ k \in Presses' <=> k \in Presses
         /\ k \in Recenters' <=> k \in Recenters
         /\ Held(k)' <=> Held(k)
<1>1. ASSUME NEW i \in 1..Len(seen)
      PROVE  /\ i \in DOMAIN seen /\ i \in DOMAIN seen' /\ seen'[i] = seen[i]
             /\ Sample(i)' = Sample(i) /\ Previous(i)' = Previous(i)
  BY EarlierSample
<1>2. \A j \in Previous(k) : j \in 1..Len(seen)
  <2>1. DOMAIN seen = 1..Len(seen)
    BY DEF Typed
  <2> QED BY <2>1, PreviousIn DEF Before, SeenAs
<1>3. \A j \in Previous(k) : Sample(j)' = Sample(j)
  BY <1>1, <1>2
<1>4. \A w : k \in SeenAs(w)' <=> k \in SeenAs(w)
  BY <1>1 DEF SeenAs
<1>5. Presses' = {i \in SeenAs("input")' :
                    Sample(i)'.trigger /\ \A j \in Previous(i)' : ~Sample(j)'.trigger}
  BY DEF Presses
<1>6. Recenters' = {i \in SeenAs("head")' :
                      \A j \in Previous(i)' : Sample(i)'.recenter /\ ~Sample(j)'.recenter}
  BY DEF Recenters
<1>7. k \in Presses' <=> k \in Presses
  BY <1>1, <1>3, <1>4, <1>5 DEF Presses
<1>8. k \in Recenters' <=> k \in Recenters
  BY <1>1, <1>3, <1>4, <1>6 DEF Recenters
<1>9. Held(k)' <=> Held(k)
  BY <1>1, <1>3 DEF Held
<1> QED BY <1>4, <1>7, <1>8, <1>9

LEMMA EarlierFrame ==
  ASSUME Typed, Ordered, Typed', Grown, NEW k \in 1..Len(seen)
  PROVE  FrameAt(k)' = FrameAt(k)
<1> DEFINE S == Before(k, Recenters)
<1>1. DOMAIN seen = 1..Len(seen) /\ DOMAIN seen' = 1..Len(seen') /\ Len(seen) \in Nat
  BY DEF Typed
<1>2. Recenters \subseteq DOMAIN seen /\ Recenters' \subseteq DOMAIN seen'
  BY DEF Recenters, SeenAs
<1>3. S' = S
  <2>1. ASSUME NEW j PROVE j \in S' <=> j \in S
    <3>1. CASE j \in 1..Len(seen)
      <4>1. j \in Recenters' <=> j \in Recenters
        BY <3>1, Earlier
      <4> QED BY <4>1 DEF Before
    <3>2. CASE j \notin 1..Len(seen)
      <4>1. j \in DOMAIN seen' => j > Len(seen)
        BY <1>1, <3>2 DEF Typed
      <4>2. j \notin S
        BY <1>1, <1>2, <3>2 DEF Before
      <4>3. j \notin S'
        BY <1>1, <1>2, <4>1 DEF Before, Typed
      <4> QED BY <4>2, <4>3
    <3> QED BY <3>1, <3>2
  <2> QED BY <2>1
<1>4. S # {} => Sample(Max(S))' = Sample(Max(S))
  <2>1. ASSUME S # {} PROVE Sample(Max(S))' = Sample(Max(S))
    <3>1. Max(S) \in DOMAIN seen
      BY <2>1, FrameIs
    <3> DEFINE m == Max(S)
    <3>2. m' = m
      BY <1>3
    <3>3. seen'[m] = seen[m] /\ seen[m][2] \in 1..Len(packets)
      BY <1>1, <3>1, SeenType, EarlierSample
    <3> QED BY <3>2, <3>3 DEF Sample, Grown
  <2> QED BY <2>1
<1> QED BY <1>3, <1>4 DEF FrameAt

-----------------------------------------------------------------------------
(* One sample's motion. *)
LEMMA FollowType ==
  ASSUME NEW delta \in Int, NEW frame \in {1, -1}
  PROVE  Follow(delta, frame) \in Int /\ Follow(0, frame) = 0
<1>1. Deadband \in Nat /\ MaxAction \in Nat
  BY Assumptions
<1>2. delta * frame \in Int /\ 0 * frame = 0
  OBVIOUS
<1> QED BY <1>1, <1>2 DEF Follow

LEMMA GripType ==
  ASSUME Typed, Ordered, NEW k \in DOMAIN seen
  PROVE  /\ Sample(k).grip \in Int /\ Sample(k).facing \in {1, -1}
         /\ Sample(k).trigger \in BOOLEAN /\ Sample(k).recenter \in BOOLEAN
BY SeenType, Assumptions DEF Samples

LEMMA MotionType ==
  ASSUME Typed, Ordered, NEW k \in DOMAIN seen, Held(k)
  PROVE  Motion(k) \in Int
<1>1. Previous(k) # {}
  BY DEF Held
<1>2. Max(Previous(k)) \in DOMAIN seen
  BY <1>1, PreviousIn DEF Before, SeenAs
<1>3. FrameAt(k) \in {1, -1}
  BY FrameIs DEF FrameAt
<1>4. Sample(k).grip \in Int /\ Sample(Max(Previous(k))).grip \in Int
  BY <1>2, GripType
<1> QED BY <1>3, <1>4, FollowType DEF Motion

LEMMA MotionsType ==
  ASSUME Typed, Ordered
  PROVE  Motions \in Seq(Int) /\ Len(Motions) = Len(seen)
<1>1. \A k \in DOMAIN seen : (IF Held(k) THEN Motion(k) ELSE 0) \in Int
  BY MotionType
<1>2. DOMAIN seen = 1..Len(seen) /\ Len(seen) \in Nat
  BY DEF Typed
<1> QED BY <1>1, <1>2 DEF Motions

LEMMA MotionsAlways ==
  Typed /\ Ordered => Motions \in Seq(Int) /\ Len(Motions) = Len(seen)
BY MotionsType

LEMMA EarlierMotion ==
  ASSUME Typed, Ordered, Typed', Grown, NEW k \in 1..Len(seen)
  PROVE  Motions'[k] = Motions[k]
<1>1. /\ k \in DOMAIN seen /\ k \in DOMAIN seen' /\ Sample(k)' = Sample(k)
      /\ Previous(k)' = Previous(k)
  BY EarlierSample
<1>2. Held(k)' <=> Held(k)
  BY Earlier
<1>3. FrameAt(k)' = FrameAt(k)
  BY EarlierFrame
<1>4. ASSUME Held(k) PROVE Motion(k)' = Motion(k)
  <2> DEFINE m == Max(Previous(k))
  <2>1. m \in DOMAIN seen
    BY <1>1, <1>4, PreviousIn DEF Held, Before, SeenAs
  <2>2. m' = m
    BY <1>1
  <2>3. DOMAIN seen = 1..Len(seen)
    BY DEF Typed
  <2>4. seen'[m] = seen[m] /\ seen[m][2] \in 1..Len(packets)
    BY <2>1, <2>3, SeenType, EarlierSample
  <2>5. Sample(m)' = Sample(m)
    BY <2>2, <2>4 DEF Sample, Grown
  <2> QED BY <1>1, <1>3, <2>5 DEF Motion
<1> QED BY <1>1, <1>2, <1>4 DEF Motions

-----------------------------------------------------------------------------
(* A step that notes no sample leaves what the history amounts to.          *)
LEMMA Unnoted ==
  ASSUME Typed, Ordered, Typed', Grown, seen' = seen
  PROVE  /\ Motions' = Motions /\ Presses' = Presses /\ Recenters' = Recenters
         /\ \A w : SeenAs(w)' = SeenAs(w) /\ Latest(w)' = Latest(w)
         /\ \A k \in DOMAIN seen : Sample(k)' = Sample(k)
<1>1. DOMAIN seen = 1..Len(seen) /\ DOMAIN seen' = DOMAIN seen
  BY DEF Typed
<1>2. Motions' = Motions
  <2>1. \A k \in DOMAIN seen : Motions'[k] = Motions[k]
    BY <1>1, EarlierMotion
  <2>2. /\ Motions = [k \in DOMAIN seen |-> Motions[k]]
        /\ Motions' = [k \in DOMAIN seen |-> Motions'[k]]
    BY <1>1 DEF Motions
  <2> QED BY <2>1, <2>2
<1>3. \A w : SeenAs(w)' = SeenAs(w) /\ Latest(w)' = Latest(w)
  BY DEF SeenAs, Latest
<1>4. Presses' = Presses /\ Recenters' = Recenters
  <2>1. /\ Presses \subseteq DOMAIN seen /\ Presses' \subseteq DOMAIN seen'
        /\ Recenters \subseteq DOMAIN seen /\ Recenters' \subseteq DOMAIN seen'
    BY DEF Presses, Recenters, SeenAs
  <2>2. \A k \in DOMAIN seen : (k \in Presses' <=> k \in Presses)
                            /\ (k \in Recenters' <=> k \in Recenters)
    BY <1>1, Earlier
  <2> QED BY <1>1, <2>1, <2>2
<1>5. \A k \in DOMAIN seen : Sample(k)' = Sample(k)
  BY <1>1, EarlierSample
<1> QED BY <1>2, <1>3, <1>4, <1>5

(* A step that notes one appends one entry, last of its kind. *)
LEMMA Noted ==
  ASSUME Typed, Ordered, Typed', Ordered', Grown,
         NEW w \in Kinds, NEW p, seen' = Append(seen, <<w, p>>),
         NEW n, n = Len(seen) + 1
  PROVE  /\ n \in DOMAIN seen' /\ n \notin DOMAIN seen /\ n \in Nat
         /\ seen'[n] = <<w, p>> /\ Sample(n)' = packets'[p]
         /\ SeenAs(w)' = SeenAs(w) \union {n}
         /\ \A v : v # w => SeenAs(v)' = SeenAs(v)
         /\ Latest(w)' = {n} /\ \A v : v # w => Latest(v)' = Latest(v)
         /\ Previous(n)' = Latest(w)
         /\ Before(n, Recenters)' = Recenters
         /\ \A k \in DOMAIN seen : Sample(k)' = Sample(k)
<1>1. /\ DOMAIN seen = 1..Len(seen) /\ DOMAIN seen' = 1..n /\ Len(seen) \in Nat
      /\ n \in 1..n /\ n \notin 1..Len(seen) /\ n \in Nat
      /\ 1..n = 1..Len(seen) \union {n}
      /\ \A k \in 1..Len(seen) : k < n
  BY DEF Typed
<1>2. seen'[n] = <<w, p>> /\ \A k \in 1..Len(seen) : seen'[k] = seen[k]
  BY <1>1 DEF Typed
<1>3. Sample(n)' = packets'[p]
  BY <1>2 DEF Sample
<1>4. /\ SeenAs(w)' = SeenAs(w) \union {n}
      /\ \A v : v # w => SeenAs(v)' = SeenAs(v)
  BY <1>1, <1>2 DEF SeenAs
<1>5. Latest(w)' = {n}
  <2>1. SeenAs(w)' \subseteq 1..n /\ n \in SeenAs(w)' /\ \A y \in SeenAs(w)' : n >= y
    BY <1>1, <1>4 DEF SeenAs
  <2>2. Max(SeenAs(w)') = n
    BY <1>1, <2>1, MaxUnique
  <2> QED BY <2>1, <2>2 DEF Latest
<1>6. \A v : v # w => Latest(v)' = Latest(v)
  BY <1>4 DEF Latest
<1>7. Before(n, SeenAs(w))' = SeenAs(w)
  <2>1. SeenAs(w) \subseteq 1..Len(seen)
    BY <1>1 DEF SeenAs
  <2> QED BY <1>1, <1>4, <2>1 DEF Before
<1>8. Previous(n)' = Latest(w)
  <2>1. seen'[n][1] = w
    BY <1>2
  <2> QED BY <1>7, <2>1 DEF Previous, Latest
<1>9. Before(n, Recenters)' = Recenters
  <2>1. Recenters \subseteq 1..Len(seen) /\ Recenters' \subseteq 1..n
    BY <1>1 DEF Recenters, SeenAs
  <2>2. \A k \in 1..Len(seen) : k \in Recenters' <=> k \in Recenters
    BY Earlier
  <2>3. \A k \in 1..n : k \in Recenters' /\ k < n <=> k \in Recenters
    BY <1>1, <2>1, <2>2
  <2> QED BY <1>1, <2>1, <2>3 DEF Before
<1>10. \A k \in DOMAIN seen : Sample(k)' = Sample(k)
  BY <1>1, EarlierSample
<1> QED BY <1>1, <1>2, <1>3, <1>4, <1>5, <1>6, <1>8, <1>9, <1>10

LEMMA NotedMotions ==
  ASSUME Typed, Ordered, Typed', Ordered', Grown,
         NEW w \in Kinds, NEW p, seen' = Append(seen, <<w, p>>),
         NEW n, n = Len(seen) + 1
  PROVE  /\ Motions' = Append(Motions, IF Held(n)' THEN Motion(n)' ELSE 0)
         /\ Held(n)' => Motion(n)' \in Int
<1>1. n \in DOMAIN seen' /\ DOMAIN seen' = 1..n /\ Len(seen) \in Nat
  BY Noted DEF Typed
<1>2. Motions' \in Seq(Int) /\ Len(Motions') = n /\ Motions \in Seq(Int)
      /\ Len(Motions) = Len(seen)
  <2>1. Motions' \in Seq(Int) /\ Len(Motions') = Len(seen')
    <3>1. (Typed /\ Ordered => Motions \in Seq(Int) /\ Len(Motions) = Len(seen))'
      BY MotionsAlways, PTL
    <3> QED BY <3>1
  <2> QED BY <1>1, <2>1, MotionsType DEF Typed
<1>3. Motions'[n] = IF Held(n)' THEN Motion(n)' ELSE 0
  BY <1>1 DEF Motions
<1>4. \A k \in 1..Len(seen) : Motions'[k] = Motions[k]
  BY EarlierMotion
<1>5. Motions' = Append(Motions, Motions'[n])
  BY <1>1, <1>2, <1>4
<1>6. Held(n)' => Motion(n)' \in Int
  BY <1>1, <1>2, <1>3
<1> QED BY <1>3, <1>5, <1>6

LEMMA NotedPresses ==
  ASSUME Typed, Ordered, Typed', Ordered', Grown,
         NEW w \in Kinds, NEW p, seen' = Append(seen, <<w, p>>),
         NEW n, n = Len(seen) + 1
  PROVE  /\ Presses' = IF n \in Presses' THEN Presses \union {n} ELSE Presses
         /\ Recenters' = IF n \in Recenters' THEN Recenters \union {n} ELSE Recenters
         /\ n \notin Presses
<1>1. /\ DOMAIN seen = 1..Len(seen) /\ DOMAIN seen' = 1..n /\ Len(seen) \in Nat
      /\ 1..n = 1..Len(seen) \union {n} /\ n \notin 1..Len(seen)
  BY DEF Typed
<1>2. /\ Presses \subseteq 1..Len(seen) /\ Presses' \subseteq 1..n
      /\ Recenters \subseteq 1..Len(seen) /\ Recenters' \subseteq 1..n
  BY <1>1 DEF Presses, Recenters, SeenAs
<1>3. \A k \in 1..Len(seen) : (k \in Presses' <=> k \in Presses)
                           /\ (k \in Recenters' <=> k \in Recenters)
  BY Earlier
<1>0. ASSUME NEW S \in SUBSET (1..Len(seen)), NEW T \in SUBSET (1..n),
             \A k \in 1..Len(seen) : k \in T <=> k \in S
      PROVE  T = IF n \in T THEN S \union {n} ELSE S
  <2>1. ASSUME NEW k PROVE k \in T <=> k \in S \/ (k = n /\ n \in T)
    BY <1>0, <1>1
  <2> QED BY <2>1
<1>4. Presses' = IF n \in Presses' THEN Presses \union {n} ELSE Presses
  BY <1>0, <1>2, <1>3
<1>5. Recenters' = IF n \in Recenters' THEN Recenters \union {n} ELSE Recenters
  BY <1>0, <1>2, <1>3
<1>6. n \notin Presses
  BY <1>1, <1>2
<1> QED BY <1>4, <1>5, <1>6

-----------------------------------------------------------------------------
(* Seeing what is in a mailbox: nothing, the last sample again, or a new one. *)
LEMMA SeenAgain ==
  ASSUME Typed, Ordered, NEW w \in Kinds, NEW k \in DOMAIN seen,
         seen[k] = <<w, Mailbox(w)>>
  PROVE  Latest(w) = {k}
<1>1. DOMAIN seen = 1..Len(seen) /\ Len(seen) \in Nat
  BY DEF Typed
<1>2. k \in SeenAs(w) /\ SeenAs(w) \subseteq 1..Len(seen)
  BY <1>1 DEF SeenAs
<1>3. ASSUME NEW y \in SeenAs(w) PROVE k >= y
  <2>1. y \in DOMAIN seen /\ seen[y][1] = w /\ seen[k][1] = w /\ seen[k][2] = Mailbox(w)
    BY DEF SeenAs
  <2>2. seen[y][2] <= seen[k][2] /\ seen[y][2] \in Nat /\ seen[k][2] \in Nat
    BY <2>1, SeenType DEF Ordered
  <2>3. ~(k < y)
    BY <2>1, <2>2 DEF Ordered
  <2> QED BY <1>1, <2>1, <2>3
<1>4. Max(SeenAs(w)) = k
  BY <1>1, <1>2, <1>3, MaxUnique
<1> QED BY <1>2, <1>4 DEF Latest

LEMMA SeesNew ==
  ASSUME Typed, Ordered, NEW w \in Kinds, Mailbox(w) # 0,
         \A k \in DOMAIN seen : seen[k] # <<w, Mailbox(w)>>,
         seen' = Append(seen, <<w, Mailbox(w)>>), UNCHANGED mailboxes
  PROVE  seen' \in Seq(Kinds \X (Nat \ {0})) /\ Ordered' /\ Grown
<1> DEFINE p == Mailbox(w)
           n == Len(seen) + 1
<1>1. p \in Nat \ {0} /\ p \in 1..Len(packets) /\ Mailbox(w)' = Mailbox(w)
  BY DEF Typed, Mailbox, Kinds, mailboxes
<1> HIDE DEF p
<1>2. <<w, p>> \in Kinds \X (Nat \ {0}) /\ seen' = Append(seen, <<w, p>>)
  BY <1>1 DEF p
<1>3. seen' \in Seq(Kinds \X (Nat \ {0}))
  BY <1>2 DEF Typed
<1>4. /\ DOMAIN seen = 1..Len(seen) /\ Len(seen) \in Nat
      /\ Len(seen') = n /\ DOMAIN seen' = 1..n
      /\ seen'[n] = <<w, p>> /\ \A k \in 1..Len(seen) : seen'[k] = seen[k]
  BY <1>2 DEF Typed
<1>5. Grown
  BY <1>4 DEF Grown, mailboxes, Typed
<1>6. ASSUME NEW k \in DOMAIN seen' PROVE (seen[k][2] <= Mailbox(seen[k][1]))'
  <2>1. CASE k = n
    <3>1. seen'[k][1] = w /\ seen'[k][2] = p /\ p <= Mailbox(w)
      BY <1>1, <1>4, <2>1 DEF p
    <3> QED BY <3>1 DEF Mailbox, mailboxes
  <2>2. CASE k # n
    <3>1. k \in DOMAIN seen /\ seen'[k] = seen[k]
      BY <1>4, <2>2
    <3>2. seen[k][1] \in Kinds /\ seen[k][2] <= Mailbox(seen[k][1])
      BY <3>1, SeenType DEF Ordered
    <3> QED BY <3>1, <3>2 DEF Mailbox, mailboxes
  <2> QED BY <2>1, <2>2
<1>7. ASSUME NEW i \in DOMAIN seen', NEW j \in DOMAIN seen', i < j,
             seen'[i][1] = seen'[j][1]
      PROVE  seen'[i][2] < seen'[j][2]
  <2>1. i \in DOMAIN seen /\ seen'[i] = seen[i]
    BY <1>4, <1>7
  <2>2. CASE j # n
    <3>1. j \in DOMAIN seen /\ seen'[j] = seen[j]
      BY <1>4, <2>2
    <3> QED BY <1>7, <2>1, <3>1 DEF Ordered
  <2>3. CASE j = n
    <3>1. seen[i][1] = w /\ seen'[j][2] = p
      BY <1>4, <1>7, <2>1, <2>3
    <3>2. seen[i][2] <= p /\ seen[i][2] \in Nat
      BY <2>1, <3>1, SeenType DEF Ordered, p
    <3>3. seen[i] = <<seen[i][1], seen[i][2]>>
      BY <2>1 DEF Typed
    <3>4. seen[i][2] # p
      BY <2>1, <3>1, <3>3 DEF p
    <3> QED BY <1>1, <2>1, <3>1, <3>2, <3>4
  <2> QED BY <2>2, <2>3
<1>8. Ordered'
  BY <1>6, <1>7 DEF Ordered
<1> QED BY <1>3, <1>5, <1>8

(* A step that notes nothing, and leaves the arm and the camera alone.      *)
LEMMA Quiet ==
  ASSUME IInv, Typed', Ordered', Grown, UNCHANGED <<seen, teleop, camera>>
  PROVE  IInv'
<1>1. /\ Motions' = Motions /\ Presses' = Presses /\ Recenters' = Recenters
      /\ \A w : SeenAs(w)' = SeenAs(w) /\ Latest(w)' = Latest(w)
      /\ \A k \in DOMAIN seen : Sample(k)' = Sample(k)
  BY Unnoted DEF IInv
<1>2. /\ arm' = arm /\ grip' = grip /\ wasClutched' = wasClutched
      /\ triggerWasPressed' = triggerWasPressed /\ gripperClosed' = gripperClosed
      /\ axes' = axes /\ neutralHead' = neutralHead
      /\ resetButtonWasDown' = resetButtonWasDown /\ seen' = seen
  BY DEF teleop, camera
<1>3. \A w : Latest(w) \subseteq DOMAIN seen
  <2>1. ASSUME NEW w PROVE Latest(w) \subseteq DOMAIN seen
    <3>1. SeenAs(w) \subseteq 1..Len(seen) /\ Len(seen) \in Nat
          /\ DOMAIN seen = 1..Len(seen)
      BY DEF SeenAs, IInv, Typed
    <3> QED BY <3>1, MaxIn DEF Latest
  <2> QED BY <2>1
<1>4. HandInv'
  BY <1>1, <1>2, <1>3 DEF IInv, HandInv
<1>5. HeadInv'
  <2>1. Recenters # {} => Max(Recenters) \in DOMAIN seen
    <3>1. Recenters \subseteq 1..Len(seen) /\ Len(seen) \in Nat
          /\ DOMAIN seen = 1..Len(seen)
      BY DEF Recenters, SeenAs, IInv, Typed
    <3> QED BY <3>1, MaxIn
  <2>2. Recenters # {} => Sample(Max(Recenters))' = Sample(Max(Recenters))
    <3>1. ASSUME Recenters # {} PROVE Sample(Max(Recenters))' = Sample(Max(Recenters))
      <4> DEFINE m == Max(Recenters)
      <4>1. m' = m /\ m \in DOMAIN seen
        BY <1>1, <2>1, <3>1
      <4>2. seen[m][2] \in 1..Len(packets)
        BY <4>1, SeenType DEF IInv
      <4> QED BY <1>2, <4>1, <4>2 DEF Sample, Grown
    <3> QED BY <3>1
  <2> QED BY <1>1, <1>2, <1>3, <2>2 DEF IInv, HeadInv
<1>6. CommandsFollowHand'
  BY <1>1, <1>2 DEF IInv, CommandsFollowHand, ArmFollowsHand, OneTogglePerPress
<1> QED BY <1>4, <1>5, <1>6 DEF IInv

-----------------------------------------------------------------------------
LEMMA LatestIs ==
  ASSUME Typed, NEW w, Latest(w) # {}
  PROVE  \E k \in DOMAIN seen :
           /\ Latest(w) = {k} /\ Max(Latest(w)) = k /\ seen[k][1] = w
<1>1. SeenAs(w) \subseteq 1..Len(seen) /\ Len(seen) \in Nat
  BY DEF SeenAs, Typed
<1>2. SeenAs(w) # {} /\ Latest(w) = {Max(SeenAs(w))}
  BY DEF Latest
<1>3. PICK k \in SeenAs(w) : k = Max(SeenAs(w))
  BY <1>1, <1>2, MaxIn
<1>4. k \in DOMAIN seen /\ k \in 1..Len(seen) /\ seen[k][1] = w
  BY <1>1 DEF SeenAs
<1>5. Max({k}) = k
  <2>1. {k} \subseteq 1..Len(seen) /\ k \in {k} /\ \A y \in {k} : k >= y
    BY <1>1, <1>4
  <2> QED BY <1>1, <2>1, MaxUnique
<1> QED BY <1>2, <1>3, <1>4, <1>5

(* What grip and wasClutched say of the last sample, and axes of the frame. *)
LEMMA Hand ==
  ASSUME IInv
  PROVE  /\ grip # None /\ wasClutched
              <=> \E j \in Latest("input") : Clutched(Sample(j))
         /\ grip # None /\ wasClutched =>
              \A j \in Latest("input") :
                grip[1] = Sample(j).grip /\ Sample(j).grip \in Int
         /\ triggerWasPressed <=> \E j \in Latest("input") : Sample(j).trigger
<1>1. CASE Latest("input") = {}
  BY <1>1 DEF IInv, HandInv
<1>2. CASE Latest("input") # {}
  <2>1. PICK k \in DOMAIN seen : Latest("input") = {k}
    BY <1>2, LatestIs DEF IInv
  <2>2. Sample(k).grip \in Int /\ Sample(k).trigger \in BOOLEAN
    BY GripType DEF IInv
  <2>3. /\ triggerWasPressed = Sample(k).trigger
        /\ wasClutched <=> Clutched(Sample(k))
        /\ grip = IF Clutched(Sample(k)) THEN <<Sample(k).grip>> ELSE None
    BY <2>1 DEF IInv, HandInv
  <2>4. CASE Clutched(Sample(k))
    <3>1. grip = <<Sample(k).grip>> /\ grip # None /\ wasClutched
      BY <2>3, <2>4 DEF None
    <3> QED BY <2>1, <2>2, <2>3, <2>4, <3>1
  <2>5. CASE ~Clutched(Sample(k))
    <3>1. grip = None /\ ~wasClutched
      BY <2>3, <2>5
    <3> QED BY <2>1, <2>2, <2>3, <2>5, <3>1
  <2> QED BY <2>4, <2>5
<1> QED BY <1>1, <1>2

LEMMA LastRecenter ==
  ASSUME Typed, Ordered, Typed', Grown, Recenters # {}
  PROVE  \A m : m = Max(Recenters) => m \in DOMAIN seen /\ Sample(m)' = Sample(m)
<1>1. Recenters \subseteq 1..Len(seen) /\ Len(seen) \in Nat /\ DOMAIN seen = 1..Len(seen)
  BY DEF Recenters, SeenAs, Typed
<1>2. ASSUME NEW m, m = Max(Recenters)
      PROVE  m \in DOMAIN seen /\ Sample(m)' = Sample(m)
  <2>1. m \in DOMAIN seen /\ m \in 1..Len(seen)
    BY <1>1, <1>2, MaxIn
  <2> QED BY <2>1, EarlierSample
<1> QED BY <1>2

LEMMA FrameNow ==
  ASSUME IInv, Typed', Ordered', Grown,
         NEW w \in Kinds, NEW p, seen' = Append(seen, <<w, p>>),
         NEW n, n = Len(seen) + 1
  PROVE  FrameAt(n)' = axes
<1>1. Before(n, Recenters)' = Recenters
  BY Noted DEF IInv
<1>2. CASE Recenters = {}
  BY <1>1, <1>2 DEF FrameAt, IInv, HeadInv
<1>3. CASE Recenters # {}
  <2>1. PICK m : m = Max(Recenters) /\ Sample(m)' = Sample(m)
    BY <1>3, LastRecenter DEF IInv
  <2>2. axes = Sample(m).facing
    BY <1>3, <2>1 DEF IInv, HeadInv
  <2>3. Max(Before(n, Recenters)') = m
    BY <1>1, <2>1
  <2> QED BY <1>1, <1>3, <2>1, <2>2, <2>3 DEF FrameAt
<1> QED BY <1>2, <1>3

(* The parity of the presses. *)
LEMMA PressesFinite ==
  ASSUME Typed
  PROVE  IsFiniteSet(Presses) /\ Cardinality(Presses) \in Nat
<1>1. Presses \subseteq 1..Len(seen) /\ Len(seen) \in Nat
  BY DEF Presses, SeenAs, Typed
<1>2. IsFiniteSet(1..Len(seen))
  BY <1>1, FS_Interval
<1>3. IsFiniteSet(Presses)
  BY <1>1, <1>2, FS_Subset
<1> QED BY <1>3, FS_CardinalityType

-----------------------------------------------------------------------------
(* make_action with a sample that was not seen before. *)
LEMMA ActNew ==
  ASSUME IInv, Act, questInput # 0,
         \A k \in DOMAIN seen : seen[k] # <<"input", questInput>>
  PROVE  IInv'
<1> DEFINE s == packets[questInput]
<1>0. PICK n : n = Len(seen) + 1
  OBVIOUS
<1>1. /\ Squeeze(s) /\ Move(s) /\ UNCHANGED mailboxes /\ UNCHANGED camera
      /\ See("input", questInput)
  BY DEF Act
<1>2. s \in Samples /\ s.grip \in Int /\ s.trigger \in BOOLEAN
  <2>1. questInput \in 1..Len(packets)
    BY DEF IInv, Typed
  <2>2. s \in Samples
    BY <2>1 DEF IInv, Typed
  <2> QED BY <2>2, Assumptions DEF Samples
<1>3. seen' = Append(seen, <<"input", questInput>>)
  BY <1>1 DEF See
<1>4. seen' \in Seq(Kinds \X (Nat \ {0})) /\ Ordered' /\ Grown
  <2>1. "input" \in Kinds /\ Mailbox("input") = questInput
    BY DEF Kinds, Mailbox
  <2> QED BY <1>1, <1>3, <2>1, SeesNew DEF IInv
<1>5. packets'[questInput] = s /\ UNCHANGED <<packets, questInput, headPose>>
  BY <1>1 DEF mailboxes
<1> HIDE DEF s
<1>6. axes \in {1, -1} /\ arm \in Int /\ UNCHANGED <<axes, neutralHead, resetButtonWasDown>>
  BY <1>1 DEF IInv, Typed, camera
<1>7. Clutched(s) /\ ~s.reset /\ grip # None /\ wasClutched =>
        /\ arm' = arm + Follow(s.grip - grip[1], axes)
        /\ Follow(s.grip - grip[1], axes) \in Int
  <2>1. ASSUME grip # None /\ wasClutched
        PROVE  Follow(s.grip - grip[1], axes) \in Int
    <3>1. grip[1] \in Int
      BY <2>1, Hand
    <3> QED BY <1>2, <1>6, <3>1, FollowType
  <2> QED BY <1>1, <2>1 DEF Move
<1>8. ~(Clutched(s) /\ ~s.reset /\ grip # None /\ wasClutched) => arm' = arm
  BY <1>1 DEF Move, Release
<1>9. Typed'
  <2>1. arm' \in Int
    BY <1>6, <1>7, <1>8
  <2>2. gripperClosed' \in BOOLEAN /\ wasClutched' \in BOOLEAN
    BY <1>1 DEF Squeeze, Move, Release
  <2> QED BY <1>4, <1>5, <1>6, <2>1, <2>2 DEF IInv, Typed
<1>10. /\ n \in DOMAIN seen' /\ seen'[n] = <<"input", questInput>> /\ Sample(n)' = s
       /\ SeenAs("input")' = SeenAs("input") \union {n}
       /\ SeenAs("head")' = SeenAs("head")
       /\ Latest("input")' = {n} /\ Latest("head")' = Latest("head")
       /\ Previous(n)' = Latest("input")
       /\ \A k \in DOMAIN seen : Sample(k)' = Sample(k)
  BY <1>0, <1>3, <1>4, <1>5, <1>9, Noted DEF IInv, Kinds
<1>11. \A w : Latest(w) \subseteq DOMAIN seen
  BY LatestIs DEF IInv
<1>12. \A j \in Latest("input") : Sample(j)' = Sample(j)
  BY <1>10, <1>11
<1>13. Held(n)' <=> Clutched(s) /\ ~s.reset /\ grip # None /\ wasClutched
  <2>1. Held(n)' <=> /\ Clutched(s) /\ ~s.reset
                     /\ \E j \in Latest("input") : Clutched(Sample(j))
    BY <1>10, <1>12 DEF Held
  <2> QED BY <2>1, Hand
<1>14. Held(n)' => Motion(n)' = Follow(s.grip - grip[1], axes)
  <2>1. ASSUME Held(n)' PROVE Motion(n)' = Follow(s.grip - grip[1], axes)
    <3>1. FrameAt(n)' = axes
      BY <1>0, <1>3, <1>4, <1>9, FrameNow DEF Kinds
    <3>2. grip # None /\ wasClutched
      BY <1>13, <2>1
    <3>3. Latest("input") # {}
      BY <3>2, Hand
    <3>4. PICK k \in DOMAIN seen : Latest("input") = {k} /\ Max(Latest("input")) = k
      BY <3>3, LatestIs DEF IInv
    <3>5. grip[1] = Sample(k).grip
      BY <3>2, <3>4, Hand
    <3>6. Max(Previous(n)') = k /\ Sample(k)' = Sample(k)
      BY <1>10, <3>4
    <3> QED BY <1>10, <3>1, <3>5, <3>6 DEF Motion
  <2> QED BY <2>1
<1>15. ArmFollowsHand'
  <2> DEFINE x == IF Held(n)' THEN Motion(n)' ELSE 0
  <2>1. Motions' = Append(Motions, x) /\ x \in Int
    BY <1>0, <1>3, <1>4, <1>9, NotedMotions DEF IInv, Kinds
  <2>2. arm' = arm + x
    BY <1>6, <1>7, <1>8, <1>13, <1>14
  <2> HIDE DEF x
  <2>3. Total(Append(Motions, x)) = Total(Motions) + x
    BY <2>1, MotionsType, TotalAppend DEF IInv
  <2> QED BY <2>1, <2>2, <2>3 DEF IInv, CommandsFollowHand, ArmFollowsHand
<1>16. n \in Presses' <=> s.trigger /\ ~triggerWasPressed
  <2>1. n \in Presses' <=> s.trigger /\ \A j \in Latest("input") : ~Sample(j).trigger
    BY <1>10, <1>12 DEF Presses
  <2> QED BY <2>1, Hand
<1>17. OneTogglePerPress'
  <2>1. /\ Presses' = IF n \in Presses' THEN Presses \union {n} ELSE Presses
        /\ n \notin Presses
    BY <1>0, <1>3, <1>4, <1>9, NotedPresses DEF IInv, Kinds
  <2>2. Cardinality(Presses') = IF n \in Presses' THEN Cardinality(Presses) + 1
                                ELSE Cardinality(Presses)
    BY <2>1, PressesFinite, FS_AddElement DEF IInv
  <2>3. Cardinality(Presses) \in Nat
    BY PressesFinite DEF IInv
  <2>4. gripperClosed' = (gripperClosed # (s.trigger /\ ~triggerWasPressed))
    BY <1>1 DEF Squeeze
  <2>5. gripperClosed \in BOOLEAN /\ gripperClosed = (Cardinality(Presses) % 2 = 1)
    BY DEF IInv, Typed, CommandsFollowHand, OneTogglePerPress
  <2>6. CASE s.trigger /\ ~triggerWasPressed
    <3>1. gripperClosed' <=> ~gripperClosed
      BY <2>4, <2>5, <2>6
    <3>2. Cardinality(Presses') = Cardinality(Presses) + 1
      BY <1>16, <2>2, <2>6
    <3>3. Cardinality(Presses') % 2 = 1 <=> ~(Cardinality(Presses) % 2 = 1)
      BY <2>3, <3>2
    <3> QED BY <1>9, <2>5, <3>1, <3>3 DEF OneTogglePerPress, Typed
  <2>7. CASE ~(s.trigger /\ ~triggerWasPressed)
    <3>1. gripperClosed' <=> gripperClosed
      BY <2>4, <2>5, <2>7
    <3>2. Cardinality(Presses') = Cardinality(Presses)
      BY <1>16, <2>2, <2>7
    <3> QED BY <1>9, <2>5, <3>1, <3>2 DEF OneTogglePerPress, Typed
  <2> QED BY <2>6, <2>7
<1>18. HandInv'
  <2>1. triggerWasPressed' = s.trigger
    BY <1>1 DEF Squeeze
  <2>2. /\ wasClutched' <=> Clutched(s)
        /\ grip' = IF Clutched(s) THEN <<s.grip>> ELSE None
    BY <1>1 DEF Move, Release
  <2> QED BY <1>10, <2>1, <2>2 DEF HandInv
<1>19. HeadInv'
  <2>1. Recenters' = Recenters
    <3>1. n \notin Recenters'
      BY <1>10 DEF Recenters, SeenAs
    <3> QED BY <1>0, <1>3, <1>4, <1>9, <3>1, NotedPresses DEF IInv, Kinds
  <2>2. \A j \in Latest("head") : Sample(j)' = Sample(j)
    BY <1>10, <1>11
  <2>3. axes' = IF Recenters' = {} THEN 1 ELSE Sample(Max(Recenters))'.facing
    BY <1>4, <1>6, <1>9, <2>1, LastRecenter DEF IInv, HeadInv
  <2> QED BY <1>6, <1>10, <2>1, <2>2, <2>3 DEF IInv, HeadInv
<1> QED BY <1>4, <1>9, <1>15, <1>17, <1>18, <1>19 DEF IInv, CommandsFollowHand

(* make_action with the last sample again, or none. *)
LEMMA ActStep == ASSUME IInv, Act PROVE IInv'
<1> DEFINE s == packets[questInput]
<1>1. UNCHANGED mailboxes /\ UNCHANGED camera /\ See("input", questInput)
  BY DEF Act
<1>2. ASSUME UNCHANGED teleop, UNCHANGED seen PROVE IInv'
  <2>1. Typed' /\ Ordered' /\ Grown
    BY <1>1, <1>2
       DEF IInv, Typed, Ordered, Grown, Mailbox, mailboxes, teleop, camera
  <2> QED BY <1>1, <1>2, <2>1, Quiet
<1>3. CASE questInput = 0
  BY <1>1, <1>2, <1>3 DEF Act, See
<1>4. CASE questInput # 0 /\ \E k \in DOMAIN seen : seen[k] = <<"input", questInput>>
  <2>1. PICK k \in DOMAIN seen : seen[k] = <<"input", questInput>>
    BY <1>4
  <2>2. Latest("input") = {k}
    BY <2>1, SeenAgain DEF IInv, Mailbox, Kinds
  <2>3. Sample(k) = s /\ s.grip \in Int /\ s.trigger \in BOOLEAN
    <3>1. Sample(k) = s
      BY <2>1 DEF Sample
    <3> QED BY <3>1, GripType DEF IInv
  <2> HIDE DEF s
  <2>4. /\ triggerWasPressed = s.trigger /\ (wasClutched <=> Clutched(s))
        /\ grip = IF Clutched(s) THEN <<s.grip>> ELSE None
    BY <2>2, <2>3 DEF IInv, HandInv
  <2>5. Squeeze(s) /\ Move(s)
    BY <1>4 DEF Act, s
  <2>6. triggerWasPressed' = triggerWasPressed /\ gripperClosed' = gripperClosed
    <3>1. gripperClosed \in BOOLEAN
      BY DEF IInv, Typed
    <3>2. gripperClosed' = (gripperClosed # FALSE)
      BY <2>3, <2>4, <2>5 DEF Squeeze
    <3> QED BY <2>4, <2>5, <3>1, <3>2 DEF Squeeze
  <2>7. ASSUME Clutched(s) PROVE UNCHANGED teleop
    <3>1. grip = <<s.grip>> /\ grip # None /\ grip[1] = s.grip /\ wasClutched
      BY <2>4, <2>7 DEF None
    <3>2. Follow(s.grip - grip[1], axes) = 0
      <4>1. s.grip - grip[1] = 0 /\ axes \in {1, -1}
        BY <2>3, <3>1 DEF IInv, Typed
      <4> QED BY <4>1, FollowType
    <3>3. grip' = grip /\ arm' = arm
      BY <2>5, <2>7, <3>1, <3>2 DEF Move, IInv, Typed
    <3>4. wasClutched' = wasClutched
      BY <2>5, <2>7, <3>1 DEF Move, IInv, Typed
    <3> QED BY <2>6, <3>3, <3>4 DEF teleop
  <2>8. ASSUME ~Clutched(s) PROVE UNCHANGED teleop
    BY <2>4, <2>5, <2>6, <2>8 DEF Move, Release, teleop, IInv, Typed
  <2>9. seen' = seen
    BY <1>1, <1>4 DEF See
  <2> QED BY <1>2, <2>7, <2>8, <2>9
<1> QED BY <1>3, <1>4, ActNew

-----------------------------------------------------------------------------
(* update_head_tracked_camera with a sample that was not seen before. *)
LEMMA RenderNew ==
  ASSUME IInv, Render, headPose # 0,
         \A k \in DOMAIN seen : seen[k] # <<"head", headPose>>
  PROVE  IInv'
<1> DEFINE s == packets[headPose]
           resets == neutralHead = 0 \/ (s.recenter /\ ~resetButtonWasDown)
<1>0. PICK n : n = Len(seen) + 1
  OBVIOUS
<1>1. /\ UNCHANGED mailboxes /\ UNCHANGED teleop /\ See("head", headPose)
      /\ resetButtonWasDown' = s.recenter
      /\ resets => neutralHead' = headPose /\ axes' = s.facing
      /\ ~resets => UNCHANGED <<neutralHead, axes>>
  BY DEF Render, Recenter
<1>2. s \in Samples /\ s.facing \in {1, -1} /\ s.recenter \in BOOLEAN
  <2>1. headPose \in 1..Len(packets)
    BY DEF IInv, Typed
  <2>2. s \in Samples
    BY <2>1 DEF IInv, Typed
  <2> QED BY <2>2 DEF Samples
<1>3. seen' = Append(seen, <<"head", headPose>>)
  BY <1>1 DEF See
<1>4. seen' \in Seq(Kinds \X (Nat \ {0})) /\ Ordered' /\ Grown
  <2>1. "head" \in Kinds /\ Mailbox("head") = headPose
    BY DEF Kinds, Mailbox
  <2> QED BY <1>1, <1>3, <2>1, SeesNew DEF IInv
<1>5. packets'[headPose] = s /\ UNCHANGED <<packets, questInput, headPose>>
  BY <1>1 DEF mailboxes
<1> HIDE DEF s
<1>6. /\ arm' = arm /\ grip' = grip /\ wasClutched' = wasClutched
      /\ triggerWasPressed' = triggerWasPressed /\ gripperClosed' = gripperClosed
  BY <1>1 DEF teleop
<1>7. Typed'
  <2>1. axes' \in {1, -1}
    BY <1>1, <1>2 DEF IInv, Typed
  <2> QED BY <1>4, <1>5, <1>6, <2>1 DEF IInv, Typed
<1>8. /\ n \in DOMAIN seen' /\ n \in Nat /\ seen'[n] = <<"head", headPose>>
      /\ Sample(n)' = s
      /\ SeenAs("head")' = SeenAs("head") \union {n}
      /\ SeenAs("input")' = SeenAs("input")
      /\ Latest("head")' = {n} /\ Latest("input")' = Latest("input")
      /\ Previous(n)' = Latest("head")
      /\ \A k \in DOMAIN seen : Sample(k)' = Sample(k)
  BY <1>0, <1>3, <1>4, <1>5, <1>7, Noted DEF IInv, Kinds
<1>9. \A w : \A j \in Latest(w) : j \in DOMAIN seen /\ Sample(j)' = Sample(j)
  BY <1>8, LatestIs DEF IInv
<1>10. n \in Recenters' <=> resets
  <2>1. n \in Recenters'
          <=> \A j \in Latest("head") : s.recenter /\ ~Sample(j).recenter
    BY <1>8, <1>9 DEF Recenters
  <2>2. CASE Latest("head") = {}
    BY <2>1, <2>2 DEF IInv, HeadInv
  <2>3. CASE Latest("head") # {}
    <3>1. PICK k \in DOMAIN seen : Latest("head") = {k}
      BY <2>3, LatestIs DEF IInv
    <3>2. neutralHead # 0 /\ resetButtonWasDown = Sample(k).recenter
      BY <3>1 DEF IInv, HeadInv
    <3>3. Sample(k).recenter \in BOOLEAN
      BY GripType DEF IInv
    <3> QED BY <1>2, <2>1, <3>1, <3>2, <3>3
  <2> QED BY <2>2, <2>3
<1> HIDE DEF resets
<1>11. /\ Recenters' = IF n \in Recenters' THEN Recenters \union {n} ELSE Recenters
       /\ Presses' = IF n \in Presses' THEN Presses \union {n} ELSE Presses
  BY <1>0, <1>3, <1>4, <1>7, NotedPresses DEF IInv, Kinds
<1>12. ArmFollowsHand'
  <2>1. ~(Held(n)')
    BY <1>8 DEF Held
  <2>2. Motions' = Append(Motions, 0)
    BY <1>0, <1>3, <1>4, <1>7, <2>1, NotedMotions DEF IInv, Kinds
  <2>3. Total(Append(Motions, 0)) = Total(Motions) + 0 /\ Total(Motions) \in Int
    BY MotionsType, TotalAppend DEF IInv
  <2> QED BY <1>6, <2>2, <2>3 DEF IInv, CommandsFollowHand, ArmFollowsHand
<1>13. OneTogglePerPress'
  <2>1. n \notin Presses'
    BY <1>8 DEF Presses, SeenAs
  <2> QED BY <1>6, <1>11, <2>1 DEF IInv, CommandsFollowHand, OneTogglePerPress
<1>14. HandInv'
  BY <1>6, <1>8, <1>9 DEF IInv, HandInv
<1>15. axes' = IF Recenters' = {} THEN 1 ELSE Sample(Max(Recenters))'.facing
  <2>1. CASE resets
    <3>1. Recenters' = Recenters \union {n}
      BY <1>10, <1>11, <2>1
    <3>2. Recenters' \subseteq 1..n /\ n \in Recenters' /\ \A y \in Recenters' : n >= y
      <4>1. Recenters \subseteq 1..Len(seen) /\ Len(seen) \in Nat
        BY DEF Recenters, SeenAs, IInv, Typed
      <4>2. n \in Nat /\ n \in 1..n /\ \A y \in 1..Len(seen) : y \in 1..n /\ n >= y
        BY <1>0, <4>1
      <4> QED BY <3>1, <4>1, <4>2
    <3>3. Max(Recenters') = n
      BY <1>8, <3>2, MaxUnique
    <3> QED BY <1>1, <1>8, <2>1, <3>1, <3>3
  <2>2. CASE ~resets
    <3>1. Recenters' = Recenters /\ axes' = axes
      BY <1>1, <1>10, <1>11, <2>2
    <3> QED BY <1>4, <1>7, <3>1, LastRecenter DEF IInv, HeadInv
  <2> QED BY <2>1, <2>2
<1>16. HeadInv'
  <2>1. neutralHead' # 0
    <3>1. CASE resets
      BY <1>1, <3>1
    <3>2. CASE ~resets
      BY <1>1, <3>2 DEF resets
    <3> QED BY <3>1, <3>2
  <2> QED BY <1>1, <1>8, <1>15, <2>1 DEF HeadInv
<1> QED BY <1>4, <1>7, <1>12, <1>13, <1>14, <1>16 DEF IInv, CommandsFollowHand

(* update_head_tracked_camera with the last sample again, or none. *)
LEMMA RenderStep == ASSUME IInv, Render PROVE IInv'
<1> DEFINE s == packets[headPose]
<1>1. UNCHANGED mailboxes /\ UNCHANGED teleop /\ See("head", headPose)
  BY DEF Render
<1>2. ASSUME UNCHANGED camera, UNCHANGED seen PROVE IInv'
  <2>1. Typed' /\ Ordered' /\ Grown
    BY <1>1, <1>2
       DEF IInv, Typed, Ordered, Grown, Mailbox, mailboxes, teleop, camera
  <2> QED BY <1>1, <1>2, <2>1, Quiet
<1>3. CASE headPose = 0
  BY <1>1, <1>2, <1>3 DEF Render, See
<1>4. CASE headPose # 0 /\ \E k \in DOMAIN seen : seen[k] = <<"head", headPose>>
  <2>1. PICK k \in DOMAIN seen : seen[k] = <<"head", headPose>>
    BY <1>4
  <2>2. Latest("head") = {k}
    BY <2>1, SeenAgain DEF IInv, Mailbox, Kinds
  <2>3. Sample(k) = s /\ s.recenter \in BOOLEAN
    <3>1. Sample(k) = s
      BY <2>1 DEF Sample
    <3> QED BY <3>1, GripType DEF IInv
  <2>4. neutralHead # 0 /\ resetButtonWasDown = s.recenter
    BY <2>2, <2>3 DEF IInv, HeadInv
  <2>5. UNCHANGED camera
    BY <1>4, <2>3, <2>4 DEF Render, camera
  <2>6. seen' = seen
    BY <1>1, <1>4 DEF See
  <2> QED BY <1>2, <2>5, <2>6
<1> QED BY <1>3, <1>4, RenderNew

-----------------------------------------------------------------------------
LEMMA IInvInit == Init => IInv
<1> SUFFICES ASSUME Init PROVE IInv
  OBVIOUS
<1>1. Typed /\ Ordered
  <2>1. Len(<<>>) = 0 /\ DOMAIN <<>> = {} /\ 0 \in 0..0
    OBVIOUS
  <2>2. <<>> \in Seq(Samples) /\ <<>> \in Seq(Kinds \X (Nat \ {0}))
    OBVIOUS
  <2>3. Typed
    <3>1. /\ packets \in Seq(Samples) /\ seen \in Seq(Kinds \X (Nat \ {0}))
          /\ questInput \in 0..Len(packets) /\ headPose \in 0..Len(packets)
      BY <2>1, <2>2 DEF Init
    <3>2. arm \in Int /\ axes \in {1, -1}
      BY DEF Init
    <3>3. gripperClosed \in BOOLEAN /\ wasClutched \in BOOLEAN
      <4>1. gripperClosed = FALSE /\ wasClutched = FALSE
        BY Zenon DEF Init
      <4> QED BY <4>1
    <3> QED BY <3>1, <3>2, <3>3 DEF Typed
  <2>4. Ordered
    BY <2>1 DEF Init, Ordered
  <2> QED BY <2>3, <2>4
<1>2. \A w : SeenAs(w) = {} /\ Latest(w) = {}
  BY DEF Init, SeenAs, Latest
<1>3. Recenters = {} /\ Presses = {}
  BY <1>2 DEF Recenters, Presses
<1>4. Motions = <<>>
  BY <1>1, MotionsType DEF Init
<1>5. HandInv /\ HeadInv
  BY <1>2, <1>3 DEF Init, HandInv, HeadInv
<1>6. ArmFollowsHand
  BY <1>4, TotalEmpty DEF Init, ArmFollowsHand
<1>7. OneTogglePerPress
  <2>1. Cardinality(Presses) = 0
    BY <1>3, FS_EmptySet
  <2>2. ~(Cardinality(Presses) % 2 = 1)
    BY <2>1
  <2>3. gripperClosed = FALSE
    BY DEF Init
  <2> QED BY <2>2, <2>3 DEF OneTogglePerPress
<1> QED BY <1>1, <1>5, <1>6, <1>7 DEF IInv, CommandsFollowHand

LEMMA IInvStep == IInv /\ [Next]_vars => IInv'
<1> SUFFICES ASSUME IInv, [Next]_vars PROVE IInv'
  OBVIOUS
<1>1. CASE Act
  BY <1>1, ActStep
<1>2. CASE RenderNoPacket \/ RenderAndSend \/ SendRaises \/ EncodeRaises
  <2>1. Render
    BY <1>2 DEF RenderNoPacket, RenderAndSend, SendRaises, EncodeRaises
  <2> QED BY <2>1, RenderStep
<1>3. ASSUME NEW s \in Received, ReadPose(s) PROVE IInv'
  <2>1. s \in Samples /\ UNCHANGED <<seen, teleop, camera>>
    BY <1>3, Assumptions DEF ReadPose
  <2>2. /\ packets' = Append(packets, s) /\ headPose' \in {headPose, Len(packets')}
        /\ questInput' = questInput /\ seen' = seen
    BY <1>3 DEF ReadPose
  <2>3. /\ packets' \in Seq(Samples) /\ Len(packets') = Len(packets) + 1
        /\ \A k \in 1..Len(packets) : packets'[k] = packets[k]
        /\ Len(packets) \in Nat
    BY <2>1, <2>2 DEF IInv, Typed
  <2>4. Typed'
    BY <2>1, <2>2, <2>3 DEF IInv, Typed, teleop, camera
  <2>5. Grown
    BY <2>2, <2>3 DEF Grown, IInv, Typed
  <2>6. Ordered'
    <3>1. headPose <= headPose' /\ headPose \in Nat /\ headPose' \in Nat
      BY <2>2, <2>3 DEF IInv, Typed
    <3>2. ASSUME NEW k \in DOMAIN seen
          PROVE  seen[k][2] <= IF seen[k][1] = "input" THEN questInput ELSE headPose'
      <4>1. seen[k][2] \in Nat /\ seen[k][2] <= Mailbox(seen[k][1])
        BY SeenType DEF IInv, Ordered
      <4> QED BY <3>1, <4>1 DEF Mailbox
    <3> QED BY <2>2, <3>2 DEF IInv, Ordered, Mailbox
  <2> QED BY <2>1, <2>4, <2>5, <2>6, Quiet
<1>4. CASE StoreInput
  <2>1. /\ UNCHANGED <<seen, teleop, camera>> /\ UNCHANGED <<packets, headPose, seen>>
        /\ questInput' \in {questInput, Len(packets)}
    BY <1>4 DEF StoreInput
  <2>2. Typed' /\ Grown
    BY <2>1 DEF IInv, Typed, Grown, teleop, camera
  <2>3. Ordered'
    <3>1. questInput <= questInput' /\ questInput \in Nat /\ questInput' \in Nat
      BY <2>1 DEF IInv, Typed
    <3>2. ASSUME NEW k \in DOMAIN seen
          PROVE  seen[k][2] <= IF seen[k][1] = "input" THEN questInput' ELSE headPose
      <4>1. seen[k][2] \in Nat /\ seen[k][2] <= Mailbox(seen[k][1])
        BY SeenType DEF IInv, Ordered
      <4> QED BY <3>1, <4>1 DEF Mailbox
    <3> QED BY <2>1, <3>2 DEF IInv, Ordered, Mailbox
  <2> QED BY <2>1, <2>2, <2>3, Quiet
<1>5. CASE LoopEnds \/ ReaderEnds \/ ReaderDies \/ Disconnect \/ UNCHANGED vars
  <2>1. UNCHANGED <<seen, teleop, camera>> /\ UNCHANGED mailboxes
    BY <1>5 DEF LoopEnds, ReaderEnds, ReaderDies, Disconnect, vars
  <2>2. Typed' /\ Ordered' /\ Grown
    BY <2>1
       DEF IInv, Typed, Ordered, Grown, Mailbox, mailboxes, teleop, camera
  <2> QED BY <2>1, <2>2, Quiet
<1> QED BY <1>1, <1>2, <1>3, <1>4, <1>5 DEF Next

(* Whatever samples the headset sends, any combination of clutch, trigger   *)
(* and buttons at any of any grips, for any deadband, clip and number of    *)
(* POSE packets: where the arm was moved to and whether the gripper is      *)
(* closed are what the samples that the loop happened to see amount to,    *)
(* whatever the two threads' steps between them (make_action 338-435,      *)
(* update_head_tracked_camera 654-681).                                    *)
THEOREM CommandsAreTheHands == Spec => []CommandsFollowHand
<1>1. IInv => CommandsFollowHand
  BY DEF IInv
<1> QED BY <1>1, IInvInit, IInvStep, PTL DEF Spec
=============================================================================
