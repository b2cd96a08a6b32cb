# RoboVR: specifications, model checking and proofs

RoboVR streams stereo video from a host to a Meta Quest 3 and the headset's poses back, over one
TCP connection (`adb reverse`, port 7777). This directory holds TLA+ modules of its concurrent
parts, the TLC configurations that check them, and theorems checked by TLAPS. `PROJECT.json` lists
the components, the runs, the source lines every definition stands for, the hazards and the
theorems. To check a run: `tlc -config <run>.cfg <module>.tla`; a proof: `tlapm <module>.tla`.

## The system

| Part | Source | State | Operations |
|---|---|---|---|
| Python server | `src/robovr/quest3/server.py`, `state.py`, `protocol.py` | `_stop`, `_server_socket`, `_conn`, `_thread`, `_latest` with its condition, `_send_lock` and `_send_seq`, statistics | `start`, `close`, `latest`, `wait_for_state`, `is_connected`, `send_payload`; reader thread: `_run`, `_read_connection`, `_handle_packet` |
| Python encoder | `src/robovr/quest3/video.py` | per eye an ffmpeg child, its reader thread, the NAL units of the current access unit, a queue; per stream `_pending_left/right` and counters | `Quest3VideoStreamer.send`, `close`, `_ensure_encoders`; `_H264Encoder.encode`, `take`, `_reader_loop` |
| C++ host | `src/host_bridge/src/tcp_server.cpp`, `tools/host_bridge_demo.cpp` | `client_fd_`, `send_mutex_`, `running_`; the demo's acknowledged frame and send times | `start`, `stop`, `send`, accept and client loops; the video thread and the packet callback |
| Headset transport | `native_main.cpp`, `transport.cpp` | socket, `g_transport_running`, `g_latest_pose` | connect, receive, decode, acknowledge, heartbeat, pose |
| Headset decoder | `video_decoder.cpp` | two MediaCodecs, frames ready per eye, last published frame, pending acknowledgements | `handlePayload`, `takeAcks`, `stop` |
| Headset renderer | `openxr_app.cpp` | OpenXR session, codec windows and their generation, latest raw and codec frame, what each eye uploaded | `startOpenXr`, `stopOpenXr`, `initialize`, event and frame loop, `cleanup` |
| Teleoperation | `examples/robomimic_stereo_video.py` | two one-slot mailboxes, the clutch's last grip, trigger and gripper, the neutral frame, the `stop` event | `reader_loop`; `QuestArmTeleop.make_action`, `update_head_tracked_camera`, `run` |
| Other examples | `examples/quest_streaming.py`, `v4l2_stereo_camera_video.py` | camera readers | loops around the server's API |

Threads: on the Python side any number of callers, the server's reader thread and one reader per
encoder; on the C++ host the video thread, the worker thread and `main`; in the teleoperation program its reader
thread and its main loop; on the headset
`android_main`, the transport thread and the OpenXR thread. They meet in the two ends of a socket,
in a handful of mutexes and one condition variable, in two reference-counted codec windows, and in
"latest value" slots (pose, raw frame, codec frame, state).

What is hard, and what the properties aim at: a socket closed by one thread while another reads,
writes or waits on it; a reconnect between reading the connection and using it; packets of two
threads on one stream; a waiter's wake-up; two decoders (encoders) whose outputs are paired although
each delays and drops frames on its own; a window of unacknowledged frames fed by late
acknowledgements; windows that one thread releases while another acquires them; a runtime that ends
the session at any time; `stop` and `close` against threads that block; an initialisation of some
fifty steps that may fail at any; samples that a loop misses or sees twice. `PROJECT.json` lists each
as a hazard at its line.

## The modules

```
Quest3Server                 <- MCQuest3Server, Quest3ServerProofs
StereoStreamer, NalSplitter  <- MCStereoStreamer <- StereoStreamerProofs
BridgeLink, WireFormat       <- MCBridgeLink <- BridgeLinkProofs
StereoFrames                 <- FramePublisher, VideoDecoder
BridgeFlow     -- instance of --> FramePublisher
               <- BridgeFlowProofs
VideoDecoder   -- implements  --> FramePublisher
               <- VideoDecoderProofs
OpenXrApp                    <- OpenXrAppProofs
OpenXrResources              <- OpenXrResourcesProofs
Teleop                       <- MCTeleop, TeleopProofs
```
(`<-` : is extended by.)

Actions named `...Missing`, `...Forgets` and the like, marked `mutant` in a comment and used by no
`Next`, are faulty variants of the definition after them; each property is refuted by one
(`PROJECT.json`, "mutants").

### `Quest3Server` (server.py, state.py, `send_packet`)
One action per run of code that no other thread can see half done: a body under `_lock`, one
attribute access, one system call. `_run` is `Run...`, `_read_connection` and `_handle_packet` are
`Read...` and `Handle...`, `send_payload` is `Send...`, `close()` is `Close...` (`_close_socket` is
three steps, since it takes no lock), `wait_for_state` is `WaitCall` and `WaitReturn` (one
`condition.wait`, so being woken and timing out are the same step). The kernel and the headset are
external (`Backlog`, `Peer...`). `wire` is a history of what was written per connection.

* `PacketsContiguous`, `SeqIncreases`: whatever thread sends, a header is followed by its own payload
  and sequence numbers rise.
* `ConnectedOnlyWhileServing`: `connected` is true only between lines 153 and 157.
* `ServedIsReachable`, `CloseEndsReader`: the connection being read is the one senders and `close()`
  find, so `close()` ends the reader. Both are excused after a failed send (`errors > 0`): its
  `_close_socket("_conn")` (125) closes and clears whatever `_conn` is *then*, which may be a newer
  connection; its reader goes on with `_conn` empty, and as line 151 removed the timeout, a `close()`
  no longer reaches it while the headset is silent.
* `NoLostWakeup`: nobody sleeps while there is a state. `WaitSeesSentPose` is what a test asserts of a
  `wait_for_state` called after the POSE was sent, about the connected state it returns: see the findings.

### `StereoFrames`, `FramePublisher`, `VideoDecoder` (video_decoder.cpp)
`StereoFrames` holds what both share: the frames and when an index begins a new stream.
`FramePublisher` is what a decoder promises: published indices rise until a restart, a frame is
published only after it came in, and each publication leaves one acknowledgement, in that order
(`AcksOrdered`). `VideoDecoder` is `H264AnnexBDecoder`: restart on an index that goes back by more
than two, `ensureStarted`, `queueAccessUnit` with its failures (no buffer; a buffer
dequeued and never given back, because the unit does not fit, there is no address, or `queueInputBuffer`
fails), `drainSurfaceOutput`, which renders the newest output and discards
the others, and the search for the newest frame rendered on both eyes. The codecs are external:
`Depth` input buffers, outputs in order at any later time. `ImplementsPublisher` is the refinement;
`PublishedOnBothEyes` says that what is announced has been rendered on both surfaces.

### `BridgeFlow` (host_bridge_demo.cpp, native_main.cpp)
The video thread's window of three frames beyond the last acknowledged one, with skipped frames,
lost connections and restarted headsets; the headset's decoder is an instance of `FramePublisher`.
A frame index is capped at `MaxFrame`, which stands for all later ones.

* `WindowHolds`, `NoRestartInWindow`: what is on its way or published is within the window, and the
  window alone never makes the decoder restart. An acknowledgement may go *back*, and the host stores
  it all the same (129): while no acknowledgement arrives the host sends freely, and the decoder may
  publish a frame that the window, once it counts, falls short of by more than two. The decoder then
  restarts on the lower index and acknowledges lower frames, the window falls back once more, and the
  two may go on so. The history variables `chosen` and `free` name the frames this excuses: those
  chosen before the host last began to count, which it does at its first acknowledgement and at each
  that goes back. All other frames are held to the window.
* `AcksTrackPublished`: until an acknowledgement is lost, the host knows the last published frame or
  its acknowledgement is on the way.
* `StreamAdvances` (liveness): the stream reaches its end or is `Frozen`, the one way it can stop for
  good: an acknowledgement that overtakes the recording of its frame's send time (474), or is lost
  with the connection, is never counted, and when it was that of the frame at the window's edge the
  host sends that frame for ever, which the decoder no longer publishes.

### `BridgeLink`, `WireFormat` (tcp_server.cpp, host_bridge_demo.cpp, native_main.cpp, transport.cpp)
`BridgeLink` has the host's worker, video and main threads against the headset's transport thread,
over two bounded queues of packets; a write blocks while its queue is full, and the host's writes
hold `send_mutex_`. The demo runs with an H.264 stream (a video thread) or without one: then the
packet callback, on the worker, sends the test pattern. `Start` may fail; a signal (`Signal`) may come
at any time, and `main` leaves its loop, joins the video thread and runs `TcpServer::stop` step by step.

* `OpenIsServed`: the host's open connection is the worker's and the one `send` uses, so none is leaked.
* `PosesInOrder`: the host handles each pose at most once and in order, over reconnects.
* `HostStops`, `TransportStops`: stopping ends, except in two named states: `Ring` (both sides blocked
  in a write, and the thread that would read waits for the mutex or is the one that writes) and `Fed`
  (`receiveHostPackets`, 149-177, looks at nothing else while data keeps arriving).

`WireFormat` is what lies under a packet step: `readExact`, the loops that read header and payload with
their checks and the two size limits, over wires of cells that `recv()` may cut anywhere; and the three
parsers of `key=value` texts. `MCBridgeLink` states two facts over small wires and texts:
`PacketsIgnoreReads` (exactly the complete packets up to the first refused one are handled, however
the stream is cut and wherever it ends) and `ParsersAgree` (the demo, the headset and Python read the
same value of every key, in the form the senders write).

### `StereoStreamer`, `NalSplitter` (video.py, host_bridge_demo.cpp)
`StereoStreamer` is `send()` and `close()` with two encoders. ffmpeg is external: it keeps frames in
order, makes one access unit of each, and may exit. `PairsMatch`, `PairsInOrder`: the halves of a
packet belong to one call of `send()`, and no pair is repeated. `LagCounted`: `encode_pending` is the
number of frames the video lags, since a `take()` that times out leaves one frame more under way for
good.

`NalSplitter` translates `_reader_loop`, `_process_nal` and `_emit_current` as operators on sequences
of bytes, each loop as a function of its round, and defines `Reference`, the access units of a whole
stream, from the positions of its start codes, without reads and without state: the bytes are joined
into NAL units at the positions where one begins (`Nals`), and those into access units at the NAL units
that begin one (`UnitsOf`), both with `Pieces`. `LoadTestStream` is the demo's own splitter, which reads
slice headers bit by bit. `MCStereoStreamer` states two facts over small streams that `Emit` of
`StereoStreamer` stands on: `UnitsIgnoreReads` (the result does not depend on how the stream is cut
into reads, except for a cut within its first start code, whose beginning the loop throws away) and
`OneUnitPerPicture` (one access unit per picture, with and without delimiters, one or two slices, in
both splitters, and the demo flags those with an IDR slice; and such a stream is `Plain`: nothing in it
that the two programs read differently). Parameter sets without a delimiter go to
the end of the unit before.

The facts about data of `MCStereoStreamer` and `MCBridgeLink` are evaluated by TLC in the states that
use them (an encoder has made a unit, the host has handled a pose), once each.

### `OpenXrApp` (openxr_app.cpp, `android_main`)
The renderer over several activities of one process: the globals (`g_running`, the offered windows
and their generation, the latest frames, the decoder) outlive an activity, the `OpenXrApp` object
does not. `android_main`: `StartOpenXr`, `StopOpenXr`, `StopJoin`, `StopTransport`. Render thread:
`Initialize` (may fail at each stage), `CreateSurfaces` (may fail half way without failing
`initialize`), `Loop`, `PollEvent` (one session event each), `StartFrame`, `RenderView` and
`RenderCodec` per eye, `EndFrame`, then `cleanup` in three steps, as the transport thread may come
between. Transport thread, reduced to what the renderer sees: `CodecStart` and `CodecStop` acquire and release the windows,
`PublishCodecFrame`/`ResetRawFrame` are the two steps of `publishStereoCodecFrame`, `PublishRawFrame`
the raw one. The OpenXR runtime is external (`Send`): session states in the order of its
specification, events queued, calls failing only around a loss. The two windows of an
`initialize()` are one, named by their generation.

* `RefsBalanced`, `NeverRevived`: every reference is held by the renderer or the decoder, and windows
  whose last reference is gone are not acquired again.
* `StoppedIsClean`, `StopReturns`: `stopOpenXr()` returns, and then nothing is left.
* `FramesInSession`: frames only in a session that was begun and not ended.
* `PictureIsRecent`: no eye shows a raw picture that was replaced before the frame began, also after
  the host restarted its indices. `UsedTwice` excuses an index used by two pictures: line 979
  compares nothing but the index.
* `VideoStays`: no waiting overlay between raw and codec video. `renderView` looks for the raw frame
  first (`RenderView`) and then, if there was none, for the codec's (`RenderCodec`); the publisher may come
  between.

### `OpenXrResources` (openxr_app.cpp)
What `initialize()` creates, one step of a table each, any of which may fail, and what `cleanup()`
releases, one entry of a table each; `OpenXrApp` has both as one step. `DependantsFirst`: nothing is
released before what still needs it (`Needs`). `NothingLeft`: after `stopOpenXr()` nothing is left.

### `Teleop` (robomimic_stereo_video.py)
`reader_loop` fills two one-slot mailboxes, one after the other; the main loop takes whatever is in
them: `make_action` (clutch, deadband, gain and clip, gripper toggle, reset) and the neutral frame of
`update_head_tracked_camera`, which both share. `seen` is a history of the samples the loop has seen,
each noted once. Space has one axis; the neutral frame says which way along it is right.

* `CommandsFollowHand`: the arm's position and the gripper are functions of the samples seen
  (`ArmFollowsHand`, `OneTogglePerPress`): the arm has moved by what the hand moved between
  samples seen one after the other with the clutch held, and by nothing that happened between two
  grips; a sample seen twice, or one that was missed, adds nothing.
* `ProgramEnds` (liveness): when the headset is gone the program ends. A connection that ended makes
  `recv` return nothing, and the reader sets the stop event (`ReaderEnds`). A reset raises in `recv`, which
  nothing in `recvall` or `reader_loop` catches: the reader thread is gone and the stop event not set
  (`ReaderDies`), so that only the next `send_packet` ends the program, by an exception that leaves the
  loop and passes by `stop.set()` (`SendRaises`). A frame may have no packet (931, `RenderNoPacket`), and
  `make_packet` may raise itself (`EncodeRaises`).

A sample names the mailboxes that can read its values: each of the two discards a packet in which a
field is missing or no number, on its own (107-109, 141-142). `Received` is the set of samples the headset may
send, any subset of `Samples`; the theorem holds for all of them, `MCTeleop` has eight.

Assumed in `OpenXrApp`: NativeActivity ends one `android_main` before it starts the next;
`updateTexImage` succeeds.

## Runs

| Run | Question | Bounds | States |
|---|---|---|---|
| `q3_send` | two senders, reconnects, `close()`: are packets whole and ordered, is the served connection reachable | 2 senders, 2 connections, 2 sends | 3.0 M |
| `q3_close` | does `close()` end the reader (liveness); is every waiter woken; all packet kinds, a restart | 1 waiter, 2 connections, 2 starts | 0.5 M |
| `q3_wait_pose` | expected violation: `tests/test_quest3_api.py` 131-136, a connected state without the POSE | 1 waiter, 1 POSE | |
| `decoder` | the decoder implements `FramePublisher`, on both eyes | frames 0, 2, 3, 2 sizes, 2 input buffers | 0.1 M |
| `decoder_cpu` | expected violation: there is no CPU fallback | 2 frames | |
| `flow` | window, acknowledgements, progress (liveness) | frames 0 to 7, 1 packet each way, 1 frame skipped | 1.3 M |
| `link` | connections and poses over reconnects; framing and parsers | 2 connections, 2 packets each way, 2 poses; wires of 3 packets, texts of 6 characters | 3.8 M |
| `link_stop` | both sides' stop (liveness) | 2 connections, 1 packet each way, 1 pose | 0.2 M |
| `streamer` | pairing of two encoders; splitting of their output | 6 calls, 1 close; streams of 3 pieces in up to 3 reads, of 4 pictures | 0.9 M |
| `xr` | windows, session, pictures and stopping | 2 activities, 1 READY each session, 2 raw frames | 1.3 M |
| `resources` | creation failing anywhere, and its release | 2 views | 427 |
| `teleop` | commands against the samples seen; end of the program (liveness) | 3 packets of 8 samples, grips 0, 1, 3, deadband 2, clip 2 | 0.8 M |

The bounds are those at which the interesting case occurs: two of whatever competes (senders, eyes,
connections, activities), one more frame than a buffer or window holds, indices at distance two and
three around the restart rule, a restart after something was published. `flow` has eight frames:
acknowledgements go back with fewer too, but only with eight does that put a frame beyond a window that
is counted from the first acknowledgement, so that the excuse of `WindowHolds` is needed. The grips of `teleop` are at distance one
(within the deadband), two and three (clipped); a third packet is needed for a missed release
between two grips; the samples of `MCTeleop` have the trigger alone with the clutch, recentring alone
without it, all buttons with and without it, the clutch open for either reason, and a packet that only
one mailbox can read. Frames 0, 2, 3 of `decoder`
are two accepted steps back and one that restarts. Deadlock is checked in
`resources` only: in every other module the outside may fall silent and the bounds run out, so a
blocked system is looked for by the liveness properties instead.

## Fairness

Threads run when they can: weak fairness of each thread's steps. A `sendall` may block for ever, so
`Quest3Server` has no fairness for it, and none for the headset. In `BridgeLink` taking the mutex is
strongly fair for the video thread, the worker and `stop()`: each holder sleeps or waits for the
socket between two writes, so the mutex is free again and again. In
`BridgeFlow` a codec that is given frames over and over ends up publishing one (strong fairness), and
the headset reconnects (it tries every second). In `OpenXrApp` the render thread's steps are weakly
fair: the calls of the OpenXR runtime return, which `xrWaitFrame` and `xrWaitSwapchainImage` promise
for a running session; nobody has to stop, publish or change the session. In `Teleop` the reader runs when the
headset is gone or the stop event set, since only then is `recv` bound to return, and the main loop likewise,
as a send may block before. After a reset the loop sends, and fails, if it has a packet again and again
(strong fairness of `SendRaises`): each encoder gives one for nearly every frame after the first few, or
raises because its ffmpeg has exited. Excluded is an ffmpeg that hangs for ever without exiting; then the
program ends at its limit of frames. Nobody has to send, to recenter or to ask for the end.

## What is proved

For every value of the constants, from the named assumptions on them only:

`Quest3ServerProofs`: `TypeCorrect`, `ConnectedOnlyWhileServed`, `WakeupsAreNotLost`,
`ServedConnectionIsReachable`, `PacketsAreContiguous`, `SequenceIncreases`. Contiguity is not
inductive: it does not know who may write a payload. `WireInv` adds that senders inside exclude each
other (`LockInv`), that a connection not yet accepted has an empty wire (`FreshInv`), that a
wire that ends in a header is torn, for good, or belongs to the sender at its payload (`TornInv`,
`HolderInv`). `ReachInv` ties the reader's connection to `_conn` and to the stage of `_run`; `SeqInv`
bounds the numbers on the wires by the counter.

`VideoDecoderProofs`: of `FramePublisher`, `PublisherTypeCorrect` and `AcknowledgementsAreOrdered`
(the order is inductive with the type; a lemma says when appending keeps a sequence ordered); of
`VideoDecoder`, `DecoderTypeCorrect`, `PublishedIsOnBothEyes`, `DecoderImplementsPublisher` and, through
it, `DecoderAcksOrdered`. `Sound` is an invariant of the decoder's record, kept by each of its
operators: the codecs hold no more buffers than there are (`Buffers`), all frames held are bounded, so
that a newest one exists (`Bounded`), whatever may still be published came in (`Known`) and was
rendered where it is ready (`Rendering`). The refinement is the step lemma: a decode is `Deliver`
with the frames of the same index, or a stutter.

`StereoStreamerProofs`: `StreamerTypeCorrect`, `StreamerPairsMatch`, `StreamerPairsInOrder`,
`StreamerLagCounted`. That pairs match is not inductive, since a pair is made of what two encoders
number on their own. `Counting` says that each eye's queue is numbered without gaps from the same next
pair on, and that the right eye is at most one frame behind; `Agreeing` that a number both have is the
same frame; `Ordered` that frames rise with their numbers; `Delayed` ties `encode_pending` to them.

The same module proves `UnitsComeFromTheStream`: for every stream of bytes, and any reads of it of which
none ends within its first start code, the reader thread makes the access units of `Reference`. (With a
read that does end there the bytes before the cut are thrown away, video.py 315-317, and the stream
begins at its second NAL unit or with a shorter start code; ffmpeg's first write is longer.) The
invariant of the loops is `Remains`: after `p` bytes there is a position `c` such that the buffer is the
bytes from `c` to `p`, and what the thread holds is what `Reference` makes of the NAL units before `c`,
the last access unit still open (`Holds`). That a start code may be cut by a read is the hard part: a
code of four bytes found at its second byte is one of three, so the lemmas keep that a position the
loop has found is one of `Begins` (`FirstBegin`, `SecondBegin`), and that two start codes do not overlap
(`BeginsApart`). Each round of the inner loop gains three bytes or has nothing left to do
(`NextNalRound`), so the rounds of `Drain` are enough (`DrainSettles`). `ReadsChangeNothing` is the
checked property, as its corollary, and `OnePictureInAUnit` says of any list of NAL units that its
access units are its pictures. `SplittersAgree` is the comparison with the C++ demo: of every plain
stream its splitter makes the access units the reader thread makes, however that one reads the stream.
Each of its rounds takes one NAL unit and leaves what the reader thread holds after the same ones
(`LoadStands`), and every round but the last moves forward, so its loop ends with the last NAL unit
(`LoadEnds`). Without `Plain` the two differ: slices of types 2 to 4 are slices to the reader thread
only, a slice with an unreadable header begins a picture for the demo only, the reader thread drops a
last unit without a slice, and parameter sets in front of a delimiter, with no slice before them, are a
unit of their own for the demo only.

`PicturesStayWhole` starts from the pictures: any number of them, each of NAL units that are whole (one
start code, a payload, no zero byte at the end) with one slice that begins a picture, a delimiter only
in front and any other slices behind (`WholePictures`). Their stream is plain, both programs make one
access unit of each picture, with its slices, and the demo's flag is right. A whole NAL unit behind a
stream that does not end in a zero byte is the next NAL unit and moves no other (`JoinNals`); the
induction is over the NAL units. After each of them the access units have the slices of the pictures so
far (`CutInto`), and of the next picture there is no slice yet (`Waits`: its parameter sets are in the
unit before, or its delimiter has opened one) or those so far (`Started`). `KeysRight` is the invariant
of the flags. `PicturesAreUnits` is the checked property: that the NAL units of its pictures are whole
is evaluated from their bytes, the slice headers bit by bit (`SliceUnit`). `Slices` is written with
`FlattenSeq` and not with `SelectSeq`, which takes an operator, so that it can be reasoned about.

`BridgeLinkProofs`: `LinkTypeCorrect`, `LinkServesOpen` from `Linked` (who holds the mutex and which
connection the worker is in, at each of its stages), and `LinkPosesInOrder` from `Lined` (connections
are used one after the other, in the same order by both sides) and `Increasing` (poses rise along the
buffers, from connection to connection, and from the host's last one to the mailbox).
`RingIsForever`: once `Ring` is closed (`Blocked`), it stays so and neither stop ends, since every thread
that could open it waits for the mutex or is in one of the two writes; TLC reaches such a state in 28
steps, so the exception that `HostStops` and `TransportStops` make is a real one.

The same module proves what the two facts about data say, for every data and not only the small ones:
`ParsersReadTheSame`, for any text in the senders' form and any key, from a lemma that separators a
text does not contain make no difference to its fields, and that a text without blanks has nothing to
strip; and `ReceiveArrives`, for any stream of packets, broken off anywhere, any sizes that `recv()`
returns and any limit. Its invariants are those of the loops: what `readExact` has got and what is left
on the wire are always the whole wire; and after every packet the wire goes on where the packets
handled end, or the receiver has returned because there is no next one (`Handles`).
`ParsersAlwaysAgree` and `PacketsAlwaysIgnoreReads` are the checked properties, as corollaries.

`BridgeFlowProofs`: `FlowTypeCorrect`, `FlowWindowHolds`, `FlowDoesNotRestart`, `FlowAcksTracked`. The
window is inductive together with `Chosen` (nothing is beyond the highest frame chosen), `Inside` (the
same bound for the frame the video thread has in hand) and `Rising` (frames beyond `free` are in order
from the decoder through the connection to the video thread, which is what makes a restart
impossible).

`OpenXrResourcesProofs`: `NothingIsLeft`, `DependantsComeFirst`, for any number of views. Each table of
creation is a sequence of steps that make only what some entry of `Cleanup` releases, and while
`cleanup()` runs, what the entries passed release is gone. For the order, every kind of resource has a
`Rank`, the entry of `Cleanup` that releases it: what a resource needs is released no earlier, and each
step of creation makes only what needs nothing that is not there yet (`Sound`).

`OpenXrAppProofs`: `RendererTypeCorrect`, `ReferencesBalance`, `DeadWindowsStayDead`,
`StoppedRendererIsClean`, `FramesOnlyInSession`, `PicturesAreRecent`, `VideoDoesNotLapse`. The inductive invariant `Inv` says what each stage of
the render thread means for what it shares: `ControlInv` (`android_main` against the thread), `SurfInv`
(what is on offer is held by the renderer; nothing is before `initialize` ends and after `cleanup`
begins), `GenInv` (an `initialize` and its `cleanup` count the generation twice, so a new generation is
fresh), `SessionInv` (`session_running_` against the runtime's state). Type correctness needs all of it:
that a reference count is at most two follows from who can hold one. For the pictures,
`SlotInv` says that the raw slot holds the last picture published or none, and that where it is empty
after a picture there is a codec frame; `ShownInv` what an eye can show at all; `DrawnInv` that an eye
already drawn in this frame is recent. An index used by two pictures stays one, so the excuse of
`PictureIsRecent` is stable.

`TeleopProofs`: `CommandsAreTheHands`, for any set of samples the headset may send (any grips, any
combination of buttons and clutch, any mailbox that can read them), any deadband, clip and number of packets.
The reference reads the whole history of samples at every step, the program only what it remembers of the
last one. `HandInv` and `HeadInv` say that what it remembers is what the last sample of that mailbox left,
`Ordered` that a sample seen again is that last one, and `Earlier` that appending to a history changes
nothing that is said of its elements before.

Induction over data: the induction theorems of the library take an operator, which the provers
cannot instantiate. Where a loop is a function of its round, as in `WireFormat`, `NalSplitter` and `Teleop`, the proofs
take the least round at which a fact fails (`Least`, from the well-foundedness of `<` on the naturals)
and show that there is none.

Only model-checked: all liveness (`CloseEndsReader`, `StreamAdvances`, `HostStops`, `TransportStops`,
`StopReturns`, `ProgramEnds`), since fairness and ENABLED are beyond the prover. Every invariant of the
passing runs is also a theorem.

## Findings

* `q3_wait_pose`: `wait_for_state` returns the empty state that the mere connection creates
  (server.py:153), also when the POSE was already sent: in the run the headset connects and sends, the
  waiter is called, and gets a state that is connected and has no input; the test at
  `tests/test_quest3_api.py` 131-136 asserts the pose's button right after it.
* `decoder_cpu`: openxr_app.cpp:234 announces a CPU fallback; without codec surfaces `ensureStarted`
  fails for ever, so there is none.

Met on the way, contradicting no document and hence only described: the failed send that closes a
newer connection (`Quest3Server`), `Frozen` and the window and the decoder that pull each other back (`BridgeFlow`), `Ring` and `Fed` (`BridgeLink`),
`g_latest_codec_frame` that is never cleared and a decoder that keeps an old activity's windows, so that
the next activity shows an empty texture (`OpenXrApp`).

## Not modelled

* The decoder's CPU output path (video_decoder.cpp 251-350, 431-515): `ensureStarted` needs the
  surfaces, so nothing reaches it.
* Pixels, colour conversion, shaders and GL drawing; the clear colours of the demo (the renderer never
  reads them); the choice of the display refresh rate (openxr_app.cpp 1148-1211) and the reading of
  controllers, which copy values without a decision that another part depends on.
* The layout of bytes within a header and the number formats of poses; which field of a POSE takes which
  default in `state.py`.
* In the decoder: the return on an empty payload (video_decoder.cpp 360-363), which does what a restart
  without codecs or no step at all does; outputs of size zero, which are not rendered (547, 553); the limit
  of 32 outputs per drain (530), which leaves the rest for the next one. In the renderer: the index `UINT32_MAX`, which stands for "none".
* In the teleoperation program: rotation, which takes the path of position; smoothing and clamping of
  the camera; rendering, encoding and the simulation.
* Command lines, logging, statistics that nothing reads; the camera and streaming examples and the
  monitor, loops around the modelled interface; `VideoSurfaceBridge` and `VrActivity`, Android calls
  without state of their own; tests, Gradle and CMake.

## Plan

1. `state.py`: which field of a POSE takes which value, defaults and partial payloads.
2. A composition of `VideoDecoder` and `OpenXrApp` over one set of windows, to say what is on the screen
   when a frame is acknowledged.
