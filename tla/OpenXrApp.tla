------------------------------- MODULE OpenXrApp -------------------------------
(***************************************************************************)
(* The headset's OpenXrApp (openxr_app.cpp) from android_main's            *)
(* startOpenXr to stopOpenXr, over several activities of one process: the  *)
(* globals outlive an activity, the OpenXrApp object does not.             *)
(*                                                                         *)
(* Three threads: android_main, the render thread (initialize, the event   *)
(* and frame loop, cleanup) and the transport thread, of which this module *)
(* keeps what it does to the renderer: it takes and returns references to  *)
(* the codec windows and publishes frames.  The OpenXR runtime is external *)
(* and follows the session life cycle of the specification.  The two codec *)
(* windows of an initialize() are one, named by their generation.  The     *)
(* pose slot is in BridgeLink, what the codecs draw in VideoDecoder.       *)
(***************************************************************************)
EXTENDS Naturals, Sequences, FiniteSets

CONSTANTS Indices,      \* frame_index values of raw frames
          MaxActivity,  \* bound: activities of the process
          MaxReady,     \* bound: times a session becomes READY
          MaxPub        \* bound: raw frames published

ASSUME BoundsAssumption ==
  /\ Indices \subseteq Nat
  /\ MaxActivity \in Nat \ {0} /\ MaxReady \in Nat /\ MaxPub \in Nat

Eyes == {"left", "right"}
Gens == 1..2 * MaxActivity

VARIABLES
  main,      \* android_main: "none", "polling", "joining", "joined"
  activity,  \* activities so far
  running,   \* g_running
  pc,        \* the render thread
  app,       \* the OpenXrApp object
  xr,        \* the runtime: [phase, events, readies]
  gen,       \* g_codec_surface_generation
  surf,      \* g_codec_surfaces: generation of the windows, or 0
  refs,      \* references to each generation's windows
  tpc,       \* transport thread: "idle" or "publish"
  codec,     \* generation of the windows the decoder holds, or 0
  latest,    \* g_latest_codec_frame is set
  used,      \* history: index of every raw frame published
  raw        \* g_stereo_frame: a position of used, or 0

vars == <<main, activity, running, pc, app, xr, gen, surf, refs,
          tpc, codec, latest, used, raw>>
globals == <<gen, surf, refs>>
transport == <<tpc, codec, latest, used, raw>>
mainVars == <<main, activity, running>>

NoSession == [phase |-> "none", events |-> <<>>, readies |-> 0]

(* a fresh OpenXrApp; textures are the eyes with a SurfaceTexture, tex is  *)
(* what uploaded_video_frame_ and the texture of an eye hold, shown what   *)
(* the eye last drew, from a history: raw frames published when the        *)
(* current frame began                                                     *)
FreshApp ==
  [running |-> FALSE, exit |-> FALSE, textures |-> {}, windows |-> 0, from |-> 0,
   tex |-> [e \in Eyes |-> 0], shown |-> [e \in Eyes |-> "none"]]

Init ==
  /\ main = "none" /\ activity = 0 /\ running = FALSE
  /\ pc = "none" /\ app = FreshApp /\ xr = NoSession
  /\ gen = 0 /\ surf = 0 /\ refs = [g \in Gens |-> 0]
  /\ tpc = "idle" /\ codec = 0 /\ latest = FALSE
  /\ used = <<>> /\ raw = 0

-----------------------------------------------------------------------------
(* android_main.  NativeActivity ends one android_main before the next     *)
(* activity's begins.                                                      *)

StartOpenXr ==
  /\ main = "none" /\ activity < MaxActivity
  /\ main' = "polling" /\ activity' = activity + 1
  /\ running' = TRUE /\ pc' = "init" /\ app' = FreshApp
  /\ UNCHANGED <<xr, globals, transport>>

(* destroyRequested, or an error of the looper *)
StopOpenXr ==
  /\ main = "polling"
  /\ main' = "joining" /\ running' = FALSE
  /\ UNCHANGED <<activity, pc, app, xr, globals, transport>>

(* mutant: the thread is not joined *)
StopJoinNot ==
  /\ main = "joining" /\ main' = "joined"
  /\ UNCHANGED <<activity, running, pc, app, xr, globals, transport>>

StopJoin ==
  /\ main = "joining" /\ pc = "ended"
  /\ main' = "joined" /\ pc' = "none"
  /\ UNCHANGED <<activity, running, app, xr, globals, transport>>

(* stopTransport and the end of android_main *)
StopTransport ==
  /\ main = "joined" /\ tpc = "idle"
  /\ main' = "none"
  /\ UNCHANGED <<activity, running, pc, app, xr, globals, transport>>

-----------------------------------------------------------------------------
(* The render thread. *)

(* mutant: a failed initialize() leaves without cleanup() *)
InitializeOrLeave ==
  /\ pc = "init"
  /\ xr' = [NoSession EXCEPT !.phase = "idle"]
  /\ pc' \in {"surfaces", "ended"}
  /\ UNCHANGED <<mainVars, app, globals, transport>>

(* initialize() up to the session, and what fails in or after it; without  *)
(* the JVM not even that                                                   *)
Initialize ==
  /\ pc = "init"
  /\ \/ /\ pc' \in {"cleanup", "ended"} /\ UNCHANGED xr
     \/ /\ pc' \in {"surfaces", "cleanup"}
        /\ xr' = [NoSession EXCEPT !.phase = "idle"]
  /\ UNCHANGED <<mainVars, app, globals, transport>>

(* createCodecSurfaceResources; initialize() succeeds without it, and what *)
(* was created stays                                                       *)
CreateSurfaces ==
  /\ pc = "surfaces" /\ pc' = "loop"
  /\ \/ \E created \in {{}, {"left"}, Eyes} :
          /\ app' = [app EXCEPT !.textures = created]
          /\ UNCHANGED globals
     \/ /\ gen' = gen + 1 /\ surf' = gen + 1
        /\ refs' = [refs EXCEPT ![gen + 1] = 1]
        /\ app' = [app EXCEPT !.textures = Eyes, !.windows = gen + 1]
  /\ UNCHANGED <<mainVars, xr, transport>>

(* mutant: g_running is not looked at *)
LoopExitOnly ==
  /\ pc = "loop"
  /\ pc' = IF app.exit THEN "cleanup" ELSE "events"
  /\ UNCHANGED <<mainVars, app, xr, globals, transport>>

Loop ==
  /\ pc = "loop"
  /\ pc' = IF running /\ ~app.exit THEN "events" ELSE "cleanup"
  /\ UNCHANGED <<mainVars, app, xr, globals, transport>>

(* A call of the runtime fails only when the session is being lost. *)
MayFail == xr.phase = "lost"

(* xrBeginSession may fail at any time. *)
OnReady ==
  \/ /\ xr.phase = "ready"
     /\ xr' = [xr EXCEPT !.phase = "begun", !.events = Tail(@)]
     /\ app' = [app EXCEPT !.running = TRUE]
  \/ /\ xr' = [xr EXCEPT !.events = Tail(@)]
     /\ app' = [app EXCEPT !.running = FALSE]

EndSession ==
  xr' = [xr EXCEPT !.events = Tail(@),
                   !.phase = IF @ = "stopping" THEN "idle" ELSE @]

(* mutant: the frames go on after xrEndSession *)
OnStoppingKeeps == EndSession /\ UNCHANGED app

OnStopping == EndSession /\ app' = [app EXCEPT !.running = FALSE]

OnExit ==
  /\ xr' = [xr EXCEPT !.events = Tail(@)]
  /\ app' = [app EXCEPT !.exit = TRUE]

(* One event of pollEvents: EXITING and LOSS_PENDING end the loop. *)
Handle(event) ==
  \/ event = "READY" /\ OnReady
  \/ event = "STOPPING" /\ OnStopping
  \/ event \in {"EXITING", "LOSS"} /\ OnExit

PollEvent ==
  /\ pc = "events" /\ xr.events # <<>>
  /\ Handle(Head(xr.events))
  /\ UNCHANGED <<mainVars, pc, globals, transport>>

(* no more events: a frame, or 20 ms of sleep *)
EventsDone ==
  /\ pc = "events" /\ xr.events = <<>>
  /\ pc' = IF app.running THEN "frame" ELSE "loop"
  /\ UNCHANGED <<mainVars, app, xr, globals, transport>>

(* xrWaitFrame, xrBeginFrame, shouldRender, xrLocateViews *)
StartFrame ==
  /\ pc = "frame"
  /\ pc' \in {"left", "end"} \cup (IF MayFail THEN {"loop"} ELSE {})
  /\ app' = [app EXCEPT !.from = IF pc' = "left" THEN Len(used) ELSE @]
  /\ UNCHANGED <<mainVars, xr, globals, transport>>

(* mutant: only a higher index is uploaded *)
UploadHigher(e) ==
  IF app.tex[e] # 0 /\ used[raw] <= used[app.tex[e]] THEN app.tex[e] ELSE raw

(* uploadLatestVideoFrame: the texture stays when its index is the frame's *)
Upload(e) ==
  IF app.tex[e] # 0 /\ used[raw] = used[app.tex[e]] THEN app.tex[e] ELSE raw

(* renderView looks for a raw frame; without a swapchain image it draws     *)
(* nothing                                                                 *)
Fallback(e) == IF e = "left" THEN "leftCodec" ELSE "rightCodec"
NextView(e) == IF e = "left" THEN "right" ELSE "end"

RenderView(e) ==
  /\ pc = e
  /\ \/ /\ raw # 0 /\ pc' = NextView(e)
        /\ app' = [app EXCEPT !.tex[e] = Upload(e), !.shown[e] = "raw"]
     \/ raw = 0 /\ pc' = Fallback(e) /\ UNCHANGED app
     \/ MayFail /\ pc' = NextView(e) /\ UNCHANGED app
  /\ UNCHANGED <<mainVars, xr, globals, transport>>

(* then for the codec's picture; else it draws the waiting overlay *)
RenderCodec(e) ==
  /\ pc = Fallback(e) /\ pc' = NextView(e)
  /\ app' = [app EXCEPT !.shown[e] = IF latest /\ e \in app.textures
                                     THEN "codec" ELSE "waiting"]
  /\ UNCHANGED <<mainVars, xr, globals, transport>>

EndFrame ==
  /\ pc = "end" /\ pc' = "loop"
  /\ app' = [app EXCEPT !.from = 0]
  /\ UNCHANGED <<mainVars, xr, globals, transport>>

(* mutant: the windows stay on offer *)
TakeNothingBack ==
  /\ pc = "cleanup" /\ pc' = "release"
  /\ gen' = gen + 1
  /\ UNCHANGED <<mainVars, app, xr, surf, refs, transport>>

(* cleanup(), under g_surface_mutex *)
TakeSurfacesBack ==
  /\ pc = "cleanup" /\ pc' = "release"
  /\ surf' = 0 /\ gen' = gen + 1
  /\ UNCHANGED <<mainVars, app, xr, refs, transport>>

(* the rest of cleanup(): windows, then session and instance *)
ReleaseWindows ==
  /\ pc = "release" /\ pc' = "destroy"
  /\ refs' = [g \in Gens |-> IF g = app.windows THEN refs[g] - 1 ELSE refs[g]]
  /\ app' = [app EXCEPT !.textures = {}, !.windows = 0]
  /\ UNCHANGED <<mainVars, xr, gen, surf, transport>>

(* The object ends with the thread; what it has not released stays held.   *)
DestroySession ==
  /\ pc = "destroy" /\ pc' = "ended"
  /\ xr' = NoSession /\ app' = [FreshApp EXCEPT !.windows = app.windows]
  /\ UNCHANGED <<mainVars, globals, transport>>

Render == \/ Initialize \/ CreateSurfaces \/ Loop \/ PollEvent \/ EventsDone
          \/ StartFrame \/ (\E e \in Eyes : RenderView(e) \/ RenderCodec(e))
          \/ EndFrame
          \/ TakeSurfacesBack \/ ReleaseWindows \/ DestroySession

-----------------------------------------------------------------------------
(* The runtime's side of the session. *)
Send(from, to, event) ==
  /\ xr.phase \in from
  /\ xr' = [xr EXCEPT !.phase = to, !.events = Append(@, event),
              !.readies = IF to = "ready" THEN @ + 1 ELSE @]
  /\ UNCHANGED <<mainVars, pc, app, globals, transport>>

Ready == xr.readies < MaxReady /\ Send({"idle"}, "ready", "READY")
Stopping == Send({"begun"}, "stopping", "STOPPING")
Exiting == Send({"idle"}, "exiting", "EXITING")
LossPending == Send({"idle", "ready", "begun", "stopping"}, "lost", "LOSS")

-----------------------------------------------------------------------------
(* The transport thread, which runs from before startOpenXr until after    *)
(* stopOpenXr; its decoder is a global and stays as it is in between.      *)
Transporting == main # "none" /\ tpc = "idle"

(* mutant: the decoder starts again and keeps its old references *)
CodecStartAgain ==
  /\ Transporting /\ surf # 0
  /\ refs' = [refs EXCEPT ![surf] = @ + 1] /\ codec' = surf
  /\ UNCHANGED <<mainVars, pc, app, xr, gen, surf, tpc, latest, used, raw>>

(* acquireStereoCodecSurfaces in ensureStarted *)
CodecStart ==
  /\ Transporting /\ codec = 0 /\ surf # 0
  /\ refs' = [refs EXCEPT ![surf] = @ + 1] /\ codec' = surf
  /\ UNCHANGED <<mainVars, pc, app, xr, gen, surf, tpc, latest, used, raw>>

(* H264AnnexBDecoder::stop: new size, index that goes back, failed codec *)
CodecStop ==
  /\ Transporting /\ codec # 0
  /\ refs' = [refs EXCEPT ![codec] = @ - 1] /\ codec' = 0
  /\ UNCHANGED <<mainVars, pc, app, xr, gen, surf, tpc, latest, used, raw>>

(* mutant: nothing says that there is a codec frame *)
StoreNothing == UNCHANGED latest

StoreLatest == latest' = TRUE

(* publishStereoCodecFrame: g_latest_codec_frame, then g_stereo_frame *)
PublishCodecFrame ==
  /\ Transporting /\ codec # 0
  /\ StoreLatest /\ tpc' = "publish"
  /\ UNCHANGED <<mainVars, pc, app, xr, globals, codec, used, raw>>

ResetRawFrame ==
  /\ tpc = "publish" /\ tpc' = "idle"
  /\ raw' = 0
  /\ UNCHANGED <<mainVars, pc, app, xr, globals, codec, latest, used>>

(* publishStereoVideoFrame of RawRgbaDecoder *)
PublishRawFrame(i) ==
  /\ Transporting /\ Len(used) < MaxPub
  /\ used' = Append(used, i) /\ raw' = Len(used) + 1
  /\ UNCHANGED <<mainVars, pc, app, xr, globals, tpc, codec, latest>>

Next == \/ StartOpenXr \/ StopOpenXr \/ StopJoin \/ StopTransport
        \/ Render
        \/ Ready \/ Stopping \/ Exiting \/ LossPending
        \/ CodecStart \/ CodecStop \/ PublishCodecFrame \/ ResetRawFrame
        \/ \E i \in Indices : PublishRawFrame(i)

Spec == Init /\ [][Next]_vars

(* The render thread and a join run on; a publication is finished.  The    *)
(* runtime's calls return.                                                 *)
Fairness == WF_vars(Render) /\ WF_vars(StopJoin) /\ WF_vars(ResetRawFrame)

FairSpec == Spec /\ Fairness

-----------------------------------------------------------------------------
Phases == {"none", "idle", "ready", "begun", "stopping", "exiting", "lost"}

TypeOK ==
  /\ main \in {"none", "polling", "joining", "joined"}
  /\ activity \in 0..MaxActivity /\ running \in BOOLEAN
  /\ pc \in {"none", "init", "surfaces", "loop", "events", "frame", "left",
             "leftCodec", "right", "rightCodec", "end", "cleanup", "release",
             "destroy", "ended"}
  /\ app \in [running : BOOLEAN, exit : BOOLEAN, textures : SUBSET Eyes,
              windows : Gens \cup {0}, from : 0..MaxPub,
              tex : [Eyes -> 0..MaxPub],
              shown : [Eyes -> {"none", "waiting", "codec", "raw"}]]
  /\ xr \in [phase : Phases, readies : 0..MaxReady,
             events : Seq({"READY", "STOPPING", "EXITING", "LOSS"})]
  /\ gen \in 0..2 * activity /\ surf \in Gens \cup {0}
  /\ refs \in [Gens -> 0..2]
  /\ tpc \in {"idle", "publish"} /\ codec \in Gens \cup {0}
  /\ latest \in BOOLEAN
  /\ used \in Seq(Indices) /\ Len(used) <= MaxPub /\ raw \in 0..Len(used)
  /\ pc \in {"none", "ended"} => xr = NoSession

(* Every reference to the codec windows is one that the renderer or the    *)
(* decoder still holds (932, 1060-1065, 1329; video_decoder.cpp 610-617):  *)
(* none is leaked over restarts of either, and nobody uses windows that    *)
(* are gone.                                                               *)
Holds(holder, g) == IF holder = g THEN 1 ELSE 0
RefsBalanced ==
  \A g \in Gens : refs[g] = Holds(app.windows, g) + Holds(codec, g)

(* Windows that were given up for good never come back: cleanup() takes    *)
(* them off offer before it releases them (1034-1065), so the transport    *)
(* thread cannot acquire them afterwards.                                  *)
Dead(g) == g <= gen /\ refs[g] = 0
NeverRevived == [][\A g \in Gens : Dead(g) => refs'[g] = 0]_vars

(* When stopOpenXr() has returned, the render thread has cleaned up: no    *)
(* session, no windows on offer and none held by it, whether initialize()  *)
(* failed, the runtime ended the session or the activity did.              *)
StoppedIsClean ==
  main \in {"none", "joined"} =>
    pc = "none" /\ ~running /\ surf = 0 /\ app.windows = 0

(* Frames are waited for, begun and ended only in a session that has begun *)
(* and has not ended (500-513, 112-117), although the runtime changes its  *)
(* state at any time and the app learns of it by events.                   *)
FramesInSession ==
  pc \in {"frame", "left", "leftCodec", "right", "rightCodec", "end"} =>
    xr.phase \in {"begun", "stopping", "lost"}

(* A frame that is submitted shows on each eye no raw picture that was     *)
(* replaced before the frame began, also when the host starts its indices  *)
(* again (968-998); except one of an index used twice, which the renderer *)
(* cannot tell from its successor.                                         *)
UsedTwice(i) == \E j, k \in DOMAIN used : j # k /\ used[j] = i /\ used[k] = i
PictureIsRecent ==
  pc = "end" =>
    \A e \in Eyes :
      app.shown[e] = "raw" /\ xr.phase # "lost" =>
        app.tex[e] >= app.from \/ UsedTwice(used[app.tex[e]])

(* Once an eye shows video it does not fall back to the waiting overlay    *)
(* while it has a codec texture: g_latest_codec_frame is stored before     *)
(* g_stereo_frame is reset (1334-1338), and read after it (696-702).       *)
VideoStays ==
  [][\A e \in Eyes :
       app.shown[e] \in {"raw", "codec"} /\ app'.shown[e] = "waiting"
         => e \notin app.textures]_vars

(* stopOpenXr() returns. *)
StopReturns == main = "joining" ~> main # "joining"
=============================================================================
