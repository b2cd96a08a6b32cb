-------------------------------- MODULE Teleop --------------------------------
(***************************************************************************)
(* The teleoperation program (examples/robomimic_stereo_video.py): the      *)
(* reader thread that fills the two one-slot mailboxes LatestHeadPose and  *)
(* LatestQuestInput, and the main loop, in which QuestArmTeleop turns the  *)
(* samples it happens to see into the arm's motion and update_head_        *)
(* tracked_camera into the neutral frame both share.                       *)
(*                                                                         *)
(* A sample is one POSE packet.  Space has one axis, the neutral frame     *)
(* says which way along it is right: 1 or -1.  Rotation takes the same     *)
(* path as position and is left out, as are the camera's own smoothing,    *)
(* rendering and encoding.                                                 *)
(***************************************************************************)
EXTENDS Integers, Sequences, FiniteSetsExt

CONSTANTS
  Grips,         \* right_grip_p: integers
  Deadband,      \* arm_position_deadband_m
  MaxAction,     \* arm_max_action
  Received,      \* the samples the headset may send; the program takes any
  MaxPackets     \* bound: POSE packets

(* right_squeeze and right_trigger against their thresholds, B or Y, A or  *)
(* X, where the head faces, and the mailboxes that can read the values     *)
Samples ==
  [grip : Grips, valid : BOOLEAN, squeeze : BOOLEAN, trigger : BOOLEAN,
   reset : BOOLEAN, recenter : BOOLEAN, facing : {1, -1},
   reads : SUBSET {"head", "input"}]

ASSUME Assumptions ==
  /\ Grips \subseteq Int /\ {Deadband, MaxAction, MaxPackets} \subseteq Nat
  /\ Received \subseteq Samples

Clutched(s) == s.valid /\ s.squeeze

VARIABLES
  pc,            \* main: "act", "render" or "done"
  reader,        \* reader_loop: "read", "input" or "done"
  stop,          \* the stop event
  conn,          \* the connection: "open", "ended" or "reset" by the headset,
                 \* or "closed" here
  packets,       \* the POSE packets received so far
  headPose, questInput,  \* the mailboxes: a number of packets, 0 is None
  arm,           \* where the arm has been moved to, in the robot's frame
  grip,          \* prev_grip_position, or None
  wasClutched, triggerWasPressed, gripperClosed, \* of QuestArmTeleop
  axes,          \* QuestNeutralFrame
  neutralHead,   \* neutral_head_quat, position and axes: a packet, 0 is None
  resetButtonWasDown,
  seen           \* history: <<"input", p>> and <<"head", p>> in the order
                 \* in which main first saw them

teleop == <<arm, grip, wasClutched, triggerWasPressed, gripperClosed>>
camera == <<axes, neutralHead, resetButtonWasDown>>
mailboxes == <<packets, headPose, questInput>>
vars == <<pc, reader, stop, conn, mailboxes, teleop, camera, seen>>

None == <<>>

Init ==
  /\ pc = "act" /\ reader = "read" /\ stop = FALSE /\ conn = "open"
  /\ packets = <<>> /\ headPose = 0 /\ questInput = 0
  /\ arm = 0 /\ grip = None /\ wasClutched = FALSE
  /\ triggerWasPressed = FALSE /\ gripperClosed = FALSE
  /\ axes = 1 /\ neutralHead = 0 /\ resetButtonWasDown = FALSE /\ seen = <<>>

-----------------------------------------------------------------------------
(* reader_loop: a packet fills one mailbox, then the other, if they can     *)
(* read its values.  What has arrived is read after the headset is gone.   *)
ReadPose(s) ==
  /\ reader = "read" /\ ~stop /\ Len(packets) < MaxPackets
  /\ packets' = Append(packets, s)
  /\ headPose' = IF "head" \in s.reads THEN Len(packets') ELSE headPose
  /\ reader' = "input"
  /\ UNCHANGED <<pc, stop, conn, questInput, teleop, camera, seen>>

StoreInput ==
  /\ reader = "input" /\ reader' = "read"
  /\ questInput' = IF "input" \in packets[Len(packets)].reads
                     THEN Len(packets) ELSE questInput
  /\ UNCHANGED <<pc, stop, conn, packets, headPose, teleop, camera, seen>>

(* the stop event is seen, recv returns nothing, or a header is bad *)
ReaderEnds ==
  /\ reader = "read" /\ reader' = "done" /\ stop' = TRUE
  /\ UNCHANGED <<pc, conn, mailboxes, teleop, camera, seen>>

(* recv raises, which nothing catches: the thread is gone and stop not set *)
ReaderDies ==
  /\ reader = "read" /\ conn = "reset" /\ reader' = "done"
  /\ UNCHANGED <<pc, stop, conn, mailboxes, teleop, camera, seen>>

(* the headset: recv returns nothing from now on, a send may still succeed; *)
(* or recv and send raise                                                  *)
PeerEnds == conn = "open" /\ conn' = "ended"
PeerResets == conn \in {"open", "ended"} /\ conn' = "reset"
Disconnect ==
  /\ PeerEnds \/ PeerResets
  /\ UNCHANGED <<pc, reader, stop, mailboxes, teleop, camera, seen>>

-----------------------------------------------------------------------------
(* make_action and env.step, with the sample that is in the mailbox now.  A *)
(* sample seen again is not noted again.                                    *)
See(which, p) ==
  seen' = IF p = 0 \/ \E k \in DOMAIN seen : seen[k] = <<which, p>> THEN seen
          ELSE Append(seen, <<which, p>>)

(* deadband, the neutral axes, gain and np.clip *)
Follow(delta, frame) ==
  LET kept == IF delta \in -Deadband + 1..Deadband - 1 THEN 0 ELSE delta * frame
  IN IF kept > MaxAction THEN MaxAction
     ELSE IF kept < -MaxAction THEN -MaxAction ELSE kept

(* mutant: that the trigger is down is not remembered *)
SqueezeAgain(s) ==
  /\ UNCHANGED triggerWasPressed
  /\ gripperClosed' = (gripperClosed # (s.trigger /\ ~triggerWasPressed))

Squeeze(s) ==
  /\ triggerWasPressed' = s.trigger
  /\ gripperClosed' = (gripperClosed # (s.trigger /\ ~triggerWasPressed))

Release == grip' = None /\ wasClutched' = FALSE /\ UNCHANGED arm

(* mutant: releasing the clutch leaves the old grip for the next time *)
MoveForgetful(s) ==
  IF ~Clutched(s) THEN UNCHANGED <<grip, wasClutched, arm>>
  ELSE /\ grip' = <<s.grip>> /\ wasClutched' = TRUE
       /\ arm' = IF grip = None \/ ~wasClutched \/ s.reset THEN arm
                 ELSE arm + Follow(s.grip - grip[1], axes)

Move(s) ==
  IF ~Clutched(s) THEN Release
  ELSE /\ grip' = <<s.grip>> /\ wasClutched' = TRUE
       /\ arm' = IF grip = None \/ ~wasClutched \/ s.reset THEN arm
                 ELSE arm + Follow(s.grip - grip[1], axes)

Act ==
  /\ pc = "act" /\ ~stop
  /\ IF questInput = 0 THEN UNCHANGED teleop
     ELSE LET s == packets[questInput] IN Squeeze(s) /\ Move(s)
  /\ See("input", questInput)
  /\ pc' = "render"
  /\ UNCHANGED <<reader, stop, conn, mailboxes, camera>>

(* Leaving the loop ends the program: the connection is closed, and the     *)
(* reader is a daemon thread.                                              *)
Exit == pc' = "done" /\ conn' = "closed" /\ reader' = "done"

(* update_head_tracked_camera, in render() *)
Recenter(p) == neutralHead' = p /\ axes' = packets[p].facing

Render ==
  /\ pc = "render"
  /\ IF headPose = 0 THEN UNCHANGED camera
     ELSE LET s == packets[headPose] IN
          /\ resetButtonWasDown' = s.recenter
          /\ IF neutralHead = 0 \/ (s.recenter /\ ~resetButtonWasDown)
               THEN Recenter(headPose) ELSE UNCHANGED <<neutralHead, axes>>
  /\ See("head", headPose)
  /\ UNCHANGED <<stop, mailboxes, teleop>>

(* make_packet has nothing yet, or its packet is sent *)
RenderNoPacket == Render /\ pc' = "act" /\ UNCHANGED <<reader, conn>>
RenderAndSend ==
  Render /\ conn # "reset" /\ pc' = "act" /\ UNCHANGED <<reader, conn>>

(* mutant: an error of send_packet is caught, for the reader to report *)
SendSwallows ==
  Render /\ conn = "reset" /\ pc' = "act" /\ UNCHANGED <<reader, conn>>

(* send_packet raises, or make_packet, whose ffmpeg has exited: the         *)
(* exception passes by stop.set()                                          *)
SendRaises == Render /\ conn = "reset" /\ Exit
EncodeRaises == Render /\ Exit

(* the stop event, or the frame limit *)
LoopEnds ==
  /\ pc = "act" /\ Exit /\ stop' = TRUE
  /\ UNCHANGED <<mailboxes, teleop, camera, seen>>

Next ==
  \/ Act \/ RenderNoPacket \/ RenderAndSend \/ SendRaises \/ EncodeRaises
  \/ LoopEnds
  \/ \E s \in Received : ReadPose(s)
  \/ StoreInput \/ ReaderEnds \/ ReaderDies \/ Disconnect

Spec == Init /\ [][Next]_vars

(* recv and send return once the headset is gone; the encoders give a       *)
(* packet, or raise, again and again.                                      *)
Gone == conn # "open"
Main == Act \/ (stop /\ LoopEnds) \/ (Gone /\ (RenderNoPacket \/ RenderAndSend))
Reader == StoreInput \/ ((stop \/ Gone) /\ (ReaderEnds \/ ReaderDies))
FairSpec == Spec /\ WF_vars(Main) /\ WF_vars(Reader) /\ SF_vars(SendRaises)

-----------------------------------------------------------------------------
(* Reference: what a history of seen samples amounts to. *)
Sample(k) == packets[seen[k][2]]
SeenAs(which) == {k \in DOMAIN seen : seen[k][1] = which}
Before(k, S) == {j \in S : j < k}

(* the sample before k of its own kind; there may be none *)
Previous(k) == LET S == Before(k, SeenAs(seen[k][1])) IN
               IF S = {} THEN {} ELSE {Max(S)}

Presses == {k \in SeenAs("input") :
              Sample(k).trigger /\ \A j \in Previous(k) : ~Sample(j).trigger}

Recenters == {k \in SeenAs("head") :
                \A j \in Previous(k) : Sample(k).recenter /\ ~Sample(j).recenter}

FrameAt(k) == LET S == Before(k, Recenters) IN
              IF S = {} THEN 1 ELSE Sample(Max(S)).facing

Held(k) ==
  /\ seen[k][1] = "input" /\ Clutched(Sample(k)) /\ ~Sample(k).reset
  /\ \E j \in Previous(k) : Clutched(Sample(j))

Motion(k) ==
  Follow(Sample(k).grip - Sample(Max(Previous(k))).grip, FrameAt(k))

Motions == [k \in DOMAIN seen |-> IF Held(k) THEN Motion(k) ELSE 0]

Total(moves) ==
  LET sum[k \in 0..Len(moves)] == IF k = 0 THEN 0 ELSE sum[k - 1] + moves[k]
  IN sum[Len(moves)]

(* The arm has moved by what the hand moved between samples seen one after  *)
(* the other, both with the clutch held, in the frame of the last reset of  *)
(* the headset that was seen by then; never by what the hand did in        *)
(* between two grips, and never because a sample was seen twice (make_     *)
(* action 338-435, update_head_tracked_camera 654-681; README.md 63-66).   *)
ArmFollowsHand == arm = Total(Motions)

(* The gripper is closed after an odd number of presses of the trigger,     *)
(* clutched or not, however often a sample is seen (342-347; README.md 65:  *)
(* "press once to toggle gripper").                                        *)
OneTogglePerPress == gripperClosed = (Cardinality(Presses) % 2 = 1)

(* Both, as one run checks them: what the robot is commanded is a function  *)
(* of the samples seen, and of nothing else.                               *)
CommandsFollowHand == ArmFollowsHand /\ OneTogglePerPress

(* When the headset is gone the program ends, whichever thread notices:     *)
(* recv() returns nothing and sets stop, or raises and leaves it to the     *)
(* next send() that has a packet (recvall, 160-176, 917-973).              *)
ProgramEnds == Gone ~> pc = "done"
=============================================================================
