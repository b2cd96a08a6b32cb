--------------------------- MODULE FramePublisher ---------------------------
(***************************************************************************)
(* What the headset's H.264 decoder promises to the host and to the        *)
(* renderer, without saying how: stereo frames go in with their index,     *)
(* some of them are published, in increasing order of index, and each      *)
(* publication leaves one acknowledgement to be sent to the host.  A frame *)
(* that goes back by more than two, or that has another size, restarts     *)
(* everything.                                                             *)
(***************************************************************************)
EXTENDS StereoFrames, Sequences

VARIABLES size,      \* the size decoded, 0 when no decoder runs
          delivered, \* frames that may still be published
          has, last, \* was a frame published since the restart, and which
          acks       \* acknowledgements not yet taken

vars == <<size, delivered, has, last, acks>>

Init == size = 0 /\ delivered = {} /\ has = FALSE /\ last = 0 /\ acks = <<>>

Restarts(i, s) == size # s \/ GoesBack(has, last, i)

(* One frame goes in and at most one comes out, of those delivered since   *)
(* the last restart and newer than all that came out.                      *)
Continue(i, s, was, had, prev, pending) ==
  /\ size' = s
  /\ \/ has' = had /\ last' = prev /\ acks' = pending
     \/ \E p \in was \cup {i} :
          /\ had => p > prev
          /\ has' = TRUE /\ last' = p /\ acks' = Append(pending, p)
  /\ delivered' = {f \in was \cup {i} : has' => f > last'}

Deliver(i, s) ==
  \/ ~Restarts(i, s) /\ Continue(i, s, delivered, has, last, acks)
  \/ Restarts(i, s) /\ Continue(i, s, {}, FALSE, 0, <<>>)
  \/ /\ Restarts(i, s)               \* and no decoder can be started
     /\ size' = 0 /\ delivered' = {}
     /\ has' = FALSE /\ last' = 0 /\ acks' = <<>>

TakeAcks ==
  /\ acks' = <<>>
  /\ UNCHANGED <<size, delivered, has, last>>

Next == TakeAcks \/ \E i \in Frames, s \in Sizes : Deliver(i, s)

Spec == Init /\ [][Next]_vars

-----------------------------------------------------------------------------
TypeOK ==
  /\ size \in Sizes \cup {0}
  /\ delivered \subseteq Frames
  /\ has \in BOOLEAN /\ last \in Nat
  /\ acks \in Seq(Frames)

(* The acknowledgements waiting to be sent are of different frames, oldest *)
(* first, and none is newer than the last frame published.                 *)
AcksOrdered ==
  /\ \A i, j \in 1..Len(acks) : i < j => acks[i] < acks[j]
  /\ acks # <<>> => has /\ acks[Len(acks)] = last
=============================================================================
