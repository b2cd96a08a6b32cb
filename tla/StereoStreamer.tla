--------------------------- MODULE StereoStreamer ---------------------------
(***************************************************************************)
(* Quest3VideoStreamer and its two _H264Encoder objects (video.py): the    *)
(* thread that calls send() and close(), and one reader thread per encoder *)
(* that puts access units into the encoder's queue.                        *)
(*                                                                         *)
(* ffmpeg is external: it keeps the frames it was given in order, makes    *)
(* one access unit of each, and may exit at any time.  A frame is the      *)
(* number of the send() call it came with; an access unit is its frame     *)
(* with the index its encoder gave it.                                     *)
(***************************************************************************)
EXTENDS Naturals, Sequences

CONSTANTS MaxSubmits,  \* bound: calls of send()
          MaxCloses    \* bound: calls of close()

ASSUME BoundsAssumption == MaxSubmits \in Nat /\ MaxCloses \in Nat

Eyes == {"left", "right"}
Counters == {"submitted", "sent", "dropped", "pending"}
Nothing == [frame |-> 0, index |-> 0]     \* None

VARIABLES
  pc,          \* where send() is, "idle" outside it
  enc,         \* _left_encoder and _right_encoder
  taken,       \* _pending_left and _pending_right
  stats,       \* frames_submitted, _sent, _dropped and encode_pending
  closes,
  payload,     \* what was last handed to send_video_frame
  lag, raised  \* encode_pending when these encoders were made, and has any
               \* send() raised since

vars == <<pc, enc, taken, stats, closes, payload, lag, raised>>

NoEncoder == [there |-> FALSE, alive |-> FALSE, inside |-> <<>>, made |-> 0,
              queue |-> <<>>]
NewEncoder == [NoEncoder EXCEPT !.there = TRUE, !.alive = TRUE]
Both(x) == [e \in Eyes |-> x]

Init ==
  /\ pc = "idle" /\ enc = Both(NoEncoder) /\ taken = Both(Nothing)
  /\ stats = [c \in Counters |-> 0]
  /\ closes = 0 /\ payload = Both(Nothing) /\ lag = 0 /\ raised = FALSE

-----------------------------------------------------------------------------
(* send(), in its order. *)
Goto(from, to) == pc = from /\ pc' = to
Count(counter) == stats' = [stats EXCEPT ![counter] = @ + 1]

(* the except clause *)
Raise == pc' = "idle" /\ Count("dropped") /\ raised' = TRUE

Submit ==
  /\ stats.submitted < MaxSubmits /\ pc = "idle"
  /\ \/ pc' = "ensure" /\ Count("submitted")
     \/ pc' = "idle"                                   \* not connected
        /\ stats' = [stats EXCEPT !["submitted"] = @ + 1, !["dropped"] = @ + 1]
  /\ UNCHANGED <<enc, taken, closes, payload, lag, raised>>

(* Popen fails for the left encoder, for the right one, or for none; then   *)
(* _prepare_rgb may refuse an image                                        *)
EnsureEncoders ==
  /\ pc = "ensure"
  /\ \/ /\ \A e \in Eyes : enc[e].there
        /\ Raise \/ (pc' = "left" /\ UNCHANGED <<stats, raised>>)
        /\ UNCHANGED <<enc, lag>>
     \/ /\ \E e \in Eyes : ~enc[e].there
        /\ \/ Raise /\ UNCHANGED <<enc, lag>>
           \/ Raise /\ enc' = [enc EXCEPT !["left"] = NewEncoder] /\ UNCHANGED lag
           \/ /\ enc' = Both(NewEncoder) /\ lag' = stats.pending
              /\ Raise \/ (pc' = "left" /\ raised' = FALSE /\ UNCHANGED stats)
  /\ UNCHANGED <<taken, closes, payload>>

(* encode(): it raises when ffmpeg has exited; a write may also succeed     *)
(* just before ffmpeg exits.                                               *)
Encode(e, to) ==
  /\ pc = e
  /\ \/ /\ enc[e].alive /\ pc' = to
        /\ enc' = [enc EXCEPT ![e].inside = Append(@, stats.submitted)]
        /\ UNCHANGED <<stats, raised>>
     \/ ~enc[e].alive /\ Raise /\ UNCHANGED enc
  /\ UNCHANGED <<taken, closes, payload, lag>>

EncodeLeft == Encode("left", "right")
EncodeRight == Encode("right", "takeLeft")

(* mutant: what is pending is overwritten *)
TakeAlways(e, from, to) ==
  /\ Goto(from, to)
  /\ IF enc[e].queue # <<>>
       THEN /\ taken' = [taken EXCEPT ![e] = Head(enc[e].queue)]
            /\ enc' = [enc EXCEPT ![e].queue = Tail(@)]
       ELSE UNCHANGED <<taken, enc>>
  /\ UNCHANGED <<stats, closes, payload, lag, raised>>

(* take(), unless an access unit of this eye is pending; it returns None    *)
(* when the queue stays empty.                                             *)
Take(e, from, to) ==
  /\ Goto(from, to)
  /\ IF taken[e] = Nothing /\ enc[e].queue # <<>>
       THEN /\ taken' = [taken EXCEPT ![e] = Head(enc[e].queue)]
            /\ enc' = [enc EXCEPT ![e].queue = Tail(@)]
       ELSE UNCHANGED <<taken, enc>>
  /\ UNCHANGED <<stats, closes, payload, lag, raised>>

TakeLeft == Take("left", "takeLeft", "takeRight")
TakeRight == Take("right", "takeRight", "pair")

Complete == \A e \in Eyes : taken[e] # Nothing

(* mutants: an incomplete pair is dropped; a pair is kept after sending *)
PairDrops ==
  /\ pc = "pair" /\ ~Complete /\ pc' = "idle"
  /\ Count("pending") /\ taken' = Both(Nothing)
  /\ UNCHANGED <<enc, closes, payload, lag, raised>>
PairKeeps ==
  /\ Goto("pair", "send") /\ Complete
  /\ payload' = taken
  /\ UNCHANGED <<enc, taken, stats, closes, lag, raised>>

(* one of the two is still missing *)
PairMissing ==
  /\ Goto("pair", "idle") /\ ~Complete
  /\ Count("pending")
  /\ UNCHANGED <<enc, taken, closes, payload, lag, raised>>

PairComplete ==
  /\ Goto("pair", "send") /\ Complete
  /\ payload' = taken /\ taken' = Both(Nothing)
  /\ UNCHANGED <<enc, stats, closes, lag, raised>>

(* send_video_frame returns True or False *)
SendFrame ==
  /\ Goto("send", "idle")
  /\ Count("sent") \/ Count("dropped")
  /\ UNCHANGED <<enc, taken, closes, payload, lag, raised>>

(* mutant: what was pending survives *)
CloseKeepsPending ==
  /\ pc = "idle" /\ closes < MaxCloses
  /\ closes' = closes + 1 /\ enc' = Both(NoEncoder)
  /\ UNCHANGED <<pc, taken, stats, payload, lag, raised>>

Close ==
  /\ pc = "idle" /\ closes < MaxCloses
  /\ closes' = closes + 1
  /\ enc' = Both(NoEncoder) /\ taken' = Both(Nothing)
  /\ UNCHANGED <<pc, stats, payload, lag, raised>>

-----------------------------------------------------------------------------
(* An encoder's reader thread: _reader_loop, _process_nal, _emit_current.   *)
(* An access unit is complete once the next one has begun (NalSplitter), or *)
(* when ffmpeg's output ends; what is inside an ffmpeg that exits may be    *)
(* lost.                                                                   *)
Emit(e) ==
  /\ enc[e].inside # <<>> /\ (enc[e].alive => Len(enc[e].inside) > 1)
  /\ LET unit == [frame |-> Head(enc[e].inside), index |-> enc[e].made] IN
       enc' = [enc EXCEPT ![e].inside = Tail(@), ![e].made = @ + 1,
                          ![e].queue = Append(@, unit)]
  /\ UNCHANGED <<pc, taken, stats, closes, payload, lag, raised>>

FfmpegExits(e) ==
  /\ enc[e].alive
  /\ enc' = [enc EXCEPT ![e].alive = FALSE]
  /\ UNCHANGED <<pc, taken, stats, closes, payload, lag, raised>>

-----------------------------------------------------------------------------
Send == \/ Submit \/ EnsureEncoders \/ EncodeLeft \/ EncodeRight
        \/ TakeLeft \/ TakeRight \/ PairMissing \/ PairComplete \/ SendFrame

Next == Send \/ Close \/ \E e \in Eyes : Emit(e) \/ FfmpegExits(e)

Spec == Init /\ [][Next]_vars

-----------------------------------------------------------------------------
Units == [frame : Nat, index : Nat]
Encoders == [there : BOOLEAN, alive : BOOLEAN, inside : Seq(Nat), made : Nat,
             queue : Seq(Units)]
TypeOK ==
  /\ pc \in {"idle", "ensure", "left", "right", "takeLeft", "takeRight",
             "pair", "send"}
  /\ enc \in [Eyes -> Encoders]
  /\ taken \in [Eyes -> Units] /\ payload \in [Eyes -> Units]
  /\ stats \in [Counters -> Nat]
  /\ closes \in 0..MaxCloses /\ lag \in Nat /\ raised \in BOOLEAN
  /\ \A e \in Eyes :
       taken[e] # Nothing \/ pc \notin {"idle", "ensure"} => \A d \in Eyes : enc[d].there

(* The two halves of every payload come from the same call of send() and    *)
(* have the same index, whatever the two encoders' delays and whatever     *)
(* call failed in between (send lines 463-480).                            *)
PairsMatch == payload["left"] = payload["right"]

(* No pair goes out twice or after a later one, close() and new encoders    *)
(* included, although their indices begin at 0 again (434-442, 472-480).   *)
PairsInOrder ==
  [][pc = "pair" /\ pc' = "send"
       => payload'["left"].frame > payload["left"].frame]_vars

(* encode_pending is the video's delay: as long as no call has raised, each *)
(* eye has as many frames under way as calls were counted pending since    *)
(* its encoder was made.                                                   *)
UnderWay(e) == Len(enc[e].inside) + Len(enc[e].queue)
                 + (IF taken[e] = Nothing THEN 0 ELSE 1)
LagCounted ==
  pc = "idle" /\ ~raised =>
    \A e \in Eyes : enc[e].there => UnderWay(e) = stats.pending - lag
=============================================================================
