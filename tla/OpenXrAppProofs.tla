--------------------------- MODULE OpenXrAppProofs ---------------------------
(***************************************************************************)
(* Theorems about OpenXrApp, for any number of activities, sessions and    *)
(* frames.  The inductive invariant says what each stage of the render     *)
(* thread means for the globals it shares with the other two threads.      *)
(***************************************************************************)
EXTENDS OpenXrApp, Integers, TLAPS

Before == {"none", "init", "surfaces"}
After == {"release", "destroy", "ended"}
Drawing == {"left", "leftCodec", "right", "rightCodec", "end"}
Framing == {"frame"} \cup Drawing
Looping == {"loop", "events"} \cup Framing

(* renderView, one or both of its looks *)
DrawEye(e) == RenderView(e) \/ RenderCodec(e)

(* android_main has joined the thread, or the thread is there *)
ControlInv ==
  /\ main \in {"none", "joined"} <=> pc = "none"
  /\ running <=> main = "polling"

(* what is on offer is held by the renderer *)
SurfInv ==
  /\ surf # 0 => surf = app.windows
  /\ pc \in Before \cup After => surf = 0
  /\ pc \in Before \cup {"destroy", "ended"} => app.windows = 0

(* an initialize() and its cleanup() count the generation twice *)
GenInv ==
  /\ app.windows <= gen /\ codec <= gen
  /\ pc \in {"init", "surfaces"} => gen + 2 <= 2 * activity
  /\ pc \in Looping \cup {"cleanup"} => gen + 1 <= 2 * activity

SessionInv ==
  /\ pc \in {"none", "init", "ended"} => xr = NoSession
  /\ pc \in {"init", "surfaces"} => ~app.running
  /\ pc \in Looping /\ app.running => xr.phase \in {"begun", "stopping", "lost"}
  /\ pc \in Framing => app.running

Inv == /\ TypeOK /\ RefsBalanced
       /\ ControlInv /\ SurfInv /\ GenInv /\ SessionInv

-----------------------------------------------------------------------------
AppType ==
  [running : BOOLEAN, exit : BOOLEAN, textures : SUBSET Eyes,
   windows : Gens \cup {0}, from : 0..MaxPub, tex : [Eyes -> 0..MaxPub],
   shown : [Eyes -> {"none", "waiting", "codec", "raw"}]]

LEMMA EventSteps ==
  ASSUME TypeOK, pc = "events", PollEvent
  PROVE  /\ UNCHANGED <<mainVars, pc, globals, transport>>
         /\ app' \in AppType /\ app'.windows = app.windows
         /\ xr' \in [phase : Phases, readies : {xr.readies},
                     events : Seq({"READY", "STOPPING", "EXITING", "LOSS"})]
         /\ app'.running /\ (app.running => xr.phase \in {"begun", "stopping", "lost"})
              => xr'.phase \in {"begun", "stopping", "lost"}
<1> DEFINE E == {"READY", "STOPPING", "EXITING", "LOSS"}
<1>1. /\ UNCHANGED <<mainVars, pc, globals, transport>>
      /\ xr.events # <<>> /\ Handle(Head(xr.events))
  BY DEF PollEvent
<1>2. Tail(xr.events) \in Seq(E)
  BY <1>1 DEF TypeOK
<1>3. CASE OnReady
  BY <1>1, <1>2, <1>3 DEF OnReady, TypeOK, AppType, Phases
<1>4. CASE OnStopping
  BY <1>1, <1>2, <1>4 DEF OnStopping, EndSession, TypeOK, AppType, Phases
<1>5. CASE OnExit
  BY <1>1, <1>2, <1>5 DEF OnExit, TypeOK, AppType, Phases
<1> QED BY <1>1, <1>3, <1>4, <1>5 DEF Handle

LEMMA SendSteps ==
  ASSUME TypeOK, Ready \/ Stopping \/ Exiting \/ LossPending
  PROVE  /\ UNCHANGED <<mainVars, pc, app, globals, transport>>
         /\ xr' \in [phase : Phases, readies : 0..MaxReady,
                     events : Seq({"READY", "STOPPING", "EXITING", "LOSS"})]
         /\ xr.phase # "none"
         /\ xr.phase \in {"begun", "stopping", "lost"}
              => xr'.phase \in {"begun", "stopping", "lost"}
<1> DEFINE E == {"READY", "STOPPING", "EXITING", "LOSS"}
<1>1. \A e \in E : Append(xr.events, e) \in Seq(E)
  BY DEF TypeOK
<1>2. CASE Ready
  <2>1. /\ xr.readies \in Nat /\ xr.readies + 1 \in 0..MaxReady
        /\ Append(xr.events, "READY") \in Seq(E)
    BY <1>1, <1>2, BoundsAssumption DEF Ready, TypeOK
  <2>2. xr' = [xr EXCEPT !.phase = "ready", !.events = Append(xr.events, "READY"),
                         !.readies = xr.readies + 1]
    BY <1>2 DEF Ready, Send
  <2> QED BY <1>2, <2>1, <2>2 DEF Ready, Send, TypeOK, Phases
<1>3. CASE Stopping
  BY <1>1, <1>3 DEF Stopping, Send, TypeOK, Phases
<1>4. CASE Exiting
  BY <1>1, <1>4 DEF Exiting, Send, TypeOK, Phases
<1>5. CASE LossPending
  BY <1>1, <1>5 DEF LossPending, Send, TypeOK, Phases
<1> QED BY <1>2, <1>3, <1>4, <1>5

(* initialize() ends with or without windows on offer *)
LEMMA CreateSurfacesSteps ==
  ASSUME TypeOK, CreateSurfaces, gen + 1 \in Gens
  PROVE  /\ pc = "surfaces" /\ pc' = "loop" /\ UNCHANGED <<mainVars, xr, transport>>
         /\ app' \in AppType /\ app'.running = app.running
         /\ \/ app'.windows = app.windows /\ UNCHANGED globals
            \/ /\ gen' = gen + 1 /\ surf' = gen + 1 /\ app'.windows = gen + 1
               /\ refs' = [refs EXCEPT ![gen + 1] = 1]
<1>1. app \in AppType
  BY DEF TypeOK, AppType
<1>2. \A t \in {{}, {"left"}, Eyes} : t \in SUBSET Eyes
  BY DEF Eyes
<1>3. ASSUME NEW t \in {{}, {"left"}, Eyes}, app' = [app EXCEPT !.textures = t]
      PROVE  app' \in AppType /\ app'.windows = app.windows
               /\ app'.running = app.running
  BY <1>1, <1>2, <1>3 DEF AppType
<1>4. CASE app' = [app EXCEPT !.textures = Eyes, !.windows = gen + 1]
  BY <1>1, <1>4 DEF CreateSurfaces, AppType
<1> QED BY <1>3, <1>4 DEF CreateSurfaces

LEMMA FrameSteps ==
  ASSUME TypeOK, StartFrame \/ EndFrame
  PROVE  /\ UNCHANGED <<mainVars, xr, globals, transport>>
         /\ app' \in AppType /\ app'.running = app.running
         /\ app'.windows = app.windows
<1>1. app \in AppType /\ Len(used) \in 0..MaxPub /\ 0 \in 0..MaxPub
  BY BoundsAssumption DEF TypeOK, AppType
<1> QED BY <1>1 DEF StartFrame, EndFrame, AppType

(* cleanup() and the end of the object *)
LEMMA CleanupSteps ==
  ASSUME TypeOK, TakeSurfacesBack \/ ReleaseWindows \/ DestroySession
  PROVE  /\ UNCHANGED <<mainVars, transport>>
         /\ app' \in AppType
         /\ app'.windows = IF ReleaseWindows THEN 0 ELSE app.windows
<1>1. app \in AppType /\ FreshApp \in AppType
  BY BoundsAssumption DEF TypeOK, AppType, FreshApp
<1>2. CASE TakeSurfacesBack
  BY <1>1, <1>2 DEF TakeSurfacesBack, ReleaseWindows
<1>3. CASE ReleaseWindows
  BY <1>1, <1>3 DEF ReleaseWindows, AppType
<1>4. CASE DestroySession
  BY <1>1, <1>4 DEF DestroySession, ReleaseWindows, AppType
<1> QED BY <1>2, <1>3, <1>4

(* renderView changes the eye's picture and nothing else of the object *)
LEMMA RenderViewSteps ==
  ASSUME TypeOK, NEW e \in Eyes, DrawEye(e)
  PROVE  /\ UNCHANGED <<mainVars, xr, globals, transport>>
         /\ pc \in Drawing \ {"end"} /\ pc' \in Drawing
         /\ app' \in AppType /\ app'.running = app.running
         /\ app'.windows = app.windows
<1> USE DEF AppType
<1>1. /\ UNCHANGED <<mainVars, xr, globals, transport>>
      /\ pc \in Drawing \ {"end"} /\ pc' \in Drawing
  BY DEF DrawEye, RenderView, RenderCodec, Fallback, NextView, Drawing, Eyes
<1>2. app \in AppType
  BY DEF TypeOK
<1>3. CASE app' = app
  BY <1>1, <1>2, <1>3
<1>4. CASE raw # 0 /\ app' = [app EXCEPT !.tex[e] = Upload(e), !.shown[e] = "raw"]
  <2>1. Upload(e) \in 0..MaxPub
    BY <1>4, BoundsAssumption DEF Upload, TypeOK
  <2>2. [app.tex EXCEPT ![e] = Upload(e)] \in [Eyes -> 0..MaxPub]
    BY <1>2, <2>1
  <2>3. [app.shown EXCEPT ![e] = "raw"]
          \in [Eyes -> {"none", "waiting", "codec", "raw"}]
    BY <1>2
  <2> QED BY <1>1, <1>2, <1>4, <2>2, <2>3
<1>5. CASE RenderCodec(e)
  <2> DEFINE w == IF latest /\ e \in app.textures THEN "codec" ELSE "waiting"
  <2>1. app' = [app EXCEPT !.shown[e] = w]
    BY <1>5 DEF RenderCodec
  <2>2. [app.shown EXCEPT ![e] = w] \in [Eyes -> {"none", "waiting", "codec", "raw"}]
    BY <1>2
  <2> QED BY <1>1, <1>2, <2>1, <2>2
<1> QED BY <1>3, <1>4, <1>5 DEF DrawEye, RenderView

-----------------------------------------------------------------------------
LEMMA NewGeneration ==
  ASSUME Inv, CreateSurfaces PROVE gen + 1 \in Gens
BY BoundsAssumption DEF Inv, CreateSurfaces, GenInv, TypeOK, Gens

LEMMA ControlStep == Inv /\ [Next]_vars => ControlInv'
<1> SUFFICES ASSUME Inv, [Next]_vars PROVE ControlInv'
  OBVIOUS
<1> USE DEF Inv, TypeOK, ControlInv, mainVars
<1>1. CASE StartOpenXr \/ StopOpenXr \/ StopJoin \/ StopTransport
  BY <1>1 DEF StartOpenXr, StopOpenXr, StopJoin, StopTransport
<1>2. CASE Initialize \/ CreateSurfaces \/ Loop \/ EventsDone \/ StartFrame
  BY <1>2 DEF Initialize, CreateSurfaces, Loop, EventsDone, StartFrame
<1>3. CASE EndFrame \/ TakeSurfacesBack \/ ReleaseWindows \/ DestroySession
  BY <1>3 DEF EndFrame, TakeSurfacesBack, ReleaseWindows, DestroySession
<1>4. CASE PollEvent
  BY <1>4 DEF PollEvent
<1>5. ASSUME NEW e \in Eyes, DrawEye(e) PROVE ControlInv'
  BY <1>5 DEF DrawEye, RenderView, RenderCodec, Fallback, NextView, Eyes
<1>6. CASE Ready \/ Stopping \/ Exiting \/ LossPending
  BY <1>6 DEF Ready, Stopping, Exiting, LossPending, Send
<1>7. CASE CodecStart \/ CodecStop \/ PublishCodecFrame \/ ResetRawFrame
  BY <1>7 DEF CodecStart, CodecStop, PublishCodecFrame, ResetRawFrame
<1>8. ASSUME NEW i \in Indices, PublishRawFrame(i) PROVE ControlInv'
  BY <1>8 DEF PublishRawFrame
<1>9. CASE UNCHANGED vars
  BY <1>9 DEF vars
<1> QED BY <1>1, <1>2, <1>3, <1>4, <1>5, <1>6, <1>7, <1>8, <1>9 DEF Next, Render, DrawEye

LEMMA SurfStep == Inv /\ [Next]_vars => SurfInv'
<1> SUFFICES ASSUME Inv, [Next]_vars PROVE SurfInv'
  OBVIOUS
<1> USE DEF Inv, SurfInv, Before, After, globals
<1>1. CASE StartOpenXr \/ StopOpenXr \/ StopJoin \/ StopTransport
  BY <1>1 DEF StartOpenXr, StopOpenXr, StopJoin, StopTransport, FreshApp, ControlInv
<1>2. CASE CreateSurfaces
  BY <1>2, NewGeneration, CreateSurfacesSteps
<1>3. CASE Initialize \/ Loop \/ EventsDone
  BY <1>3 DEF Initialize, Loop, EventsDone
<1>4. CASE StartFrame \/ EndFrame
  BY <1>4, FrameSteps DEF StartFrame, EndFrame
<1>5. CASE TakeSurfacesBack \/ ReleaseWindows \/ DestroySession
  BY <1>5, CleanupSteps DEF TakeSurfacesBack, ReleaseWindows, DestroySession
<1>6. CASE PollEvent
  BY <1>6, EventSteps DEF PollEvent
<1>7. ASSUME NEW e \in Eyes, DrawEye(e) PROVE SurfInv'
  BY <1>7, RenderViewSteps DEF Drawing
<1>8. CASE Ready \/ Stopping \/ Exiting \/ LossPending
  BY <1>8, SendSteps
<1>9. CASE CodecStart \/ CodecStop \/ PublishCodecFrame \/ ResetRawFrame
  BY <1>9 DEF CodecStart, CodecStop, PublishCodecFrame, ResetRawFrame
<1>10. ASSUME NEW i \in Indices, PublishRawFrame(i) PROVE SurfInv'
  BY <1>10 DEF PublishRawFrame
<1>11. CASE UNCHANGED vars
  BY <1>11 DEF vars
<1> QED BY <1>1, <1>2, <1>3, <1>4, <1>5, <1>6, <1>7, <1>8, <1>9, <1>10, <1>11
        DEF Next, Render, DrawEye

LEMMA GenStep == Inv /\ [Next]_vars => GenInv' /\ gen' \in 0..2 * activity'
<1> DEFINE G == GenInv' /\ gen' \in 0..2 * activity'
<1> SUFFICES ASSUME Inv, [Next]_vars PROVE G
  OBVIOUS
<1>0. /\ gen \in Nat /\ activity \in Nat /\ app.windows \in Nat /\ codec \in Nat
      /\ gen <= 2 * activity
  BY BoundsAssumption DEF Inv, TypeOK, Gens
<1> USE <1>0 DEF Inv, GenInv, Looping, Framing, Drawing, globals, mainVars, transport
<1>1. CASE StartOpenXr \/ StopOpenXr \/ StopJoin \/ StopTransport
  BY <1>1 DEF StartOpenXr, StopOpenXr, StopJoin, StopTransport, FreshApp
<1>2. CASE CreateSurfaces
  BY <1>2, NewGeneration, CreateSurfacesSteps
<1>3. CASE Initialize \/ Loop \/ EventsDone
  BY <1>3 DEF Initialize, Loop, EventsDone
<1>4. CASE StartFrame \/ EndFrame
  BY <1>4, FrameSteps DEF StartFrame, EndFrame
<1>5. CASE TakeSurfacesBack \/ ReleaseWindows \/ DestroySession
  BY <1>5, CleanupSteps DEF TakeSurfacesBack, ReleaseWindows, DestroySession
<1>6. CASE PollEvent
  BY <1>6, EventSteps DEF PollEvent
<1>7. ASSUME NEW e \in Eyes, DrawEye(e) PROVE G
  BY <1>7, RenderViewSteps DEF Drawing
<1>8. CASE Ready \/ Stopping \/ Exiting \/ LossPending
  BY <1>8, SendSteps
<1>9. CASE CodecStart
  BY <1>9 DEF CodecStart, SurfInv
<1>10. CASE CodecStop \/ PublishCodecFrame \/ ResetRawFrame
  BY <1>10 DEF CodecStop, PublishCodecFrame, ResetRawFrame
<1>11. ASSUME NEW i \in Indices, PublishRawFrame(i) PROVE G
  BY <1>11 DEF PublishRawFrame
<1>12. CASE UNCHANGED vars
  BY <1>12 DEF vars
<1> QED BY <1>1, <1>2, <1>3, <1>4, <1>5, <1>6, <1>7, <1>8, <1>9, <1>10, <1>11,
           <1>12 DEF Next, Render, DrawEye

LEMMA SessionStep == Inv /\ [Next]_vars => SessionInv'
<1> SUFFICES ASSUME Inv, [Next]_vars PROVE SessionInv'
  OBVIOUS
<1> USE DEF Inv, SessionInv, Looping, Framing, Drawing, mainVars
<1>1. CASE StartOpenXr \/ StopOpenXr \/ StopJoin \/ StopTransport
  BY <1>1 DEF StartOpenXr, StopOpenXr, StopJoin, StopTransport, FreshApp, ControlInv
<1>2. CASE CreateSurfaces
  BY <1>2, NewGeneration, CreateSurfacesSteps
<1>3. CASE Initialize \/ Loop \/ EventsDone
  BY <1>3 DEF Initialize, Loop, EventsDone
<1>4. CASE StartFrame \/ EndFrame
  BY <1>4, FrameSteps DEF StartFrame, EndFrame
<1>5. CASE TakeSurfacesBack \/ ReleaseWindows \/ DestroySession
  BY <1>5 DEF TakeSurfacesBack, ReleaseWindows, DestroySession
<1>6. CASE PollEvent
  BY <1>6, EventSteps DEF PollEvent
<1>7. ASSUME NEW e \in Eyes, DrawEye(e) PROVE SessionInv'
  BY <1>7, RenderViewSteps DEF Drawing
<1>8. CASE Ready \/ Stopping \/ Exiting \/ LossPending
  BY <1>8, SendSteps DEF NoSession
<1>9. CASE CodecStart \/ CodecStop \/ PublishCodecFrame \/ ResetRawFrame
  BY <1>9 DEF CodecStart, CodecStop, PublishCodecFrame, ResetRawFrame
<1>10. ASSUME NEW i \in Indices, PublishRawFrame(i) PROVE SessionInv'
  BY <1>10 DEF PublishRawFrame
<1>11. CASE UNCHANGED vars
  BY <1>11 DEF vars
<1> QED BY <1>1, <1>2, <1>3, <1>4, <1>5, <1>6, <1>7, <1>8, <1>9, <1>10, <1>11
        DEF Next, Render, DrawEye

-----------------------------------------------------------------------------
(* References: only five actions touch them. *)
LEMMA RefsStep == Inv /\ [Next]_vars => RefsBalanced'
<1> SUFFICES ASSUME Inv, [Next]_vars PROVE RefsBalanced'
  OBVIOUS
<1>0. /\ gen \in Nat /\ app.windows \in Nat /\ codec \in Nat
      /\ refs \in [Gens -> 0..2] /\ \A g \in Gens : g \in Nat
      /\ app.windows <= gen /\ codec <= gen
  BY BoundsAssumption DEF Inv, TypeOK, Gens, GenInv
<1> USE DEF RefsBalanced, Holds
<1>1. CASE StartOpenXr
  BY <1>1 DEF StartOpenXr, FreshApp, globals, transport, Inv, SurfInv, ControlInv, Before
<1>2. CASE StopOpenXr \/ StopJoin \/ StopTransport
  BY <1>2 DEF Inv, StopOpenXr, StopJoin, StopTransport, globals, transport
<1>3. CASE CreateSurfaces
  <2>1. app.windows = 0
    BY <1>3 DEF CreateSurfaces, Inv, SurfInv, Before
  <2>2. CASE app'.windows = app.windows /\ UNCHANGED globals
    BY <1>3, <2>2 DEF CreateSurfaces, Inv, globals, transport
  <2>3. CASE app'.windows = gen + 1 /\ refs' = [refs EXCEPT ![gen + 1] = 1]
    <3>1. codec' = codec /\ codec # gen + 1
      BY <1>0, <1>3 DEF CreateSurfaces, transport
    <3> QED BY <1>0, <2>1, <2>3, <3>1 DEF Inv, Gens
  <2> QED BY <1>3, <2>2, <2>3, NewGeneration, CreateSurfacesSteps DEF Inv
<1>4. CASE Initialize \/ Loop \/ EventsDone
  BY <1>4 DEF Inv, Initialize, Loop, EventsDone, globals, transport
<1>5. CASE StartFrame \/ EndFrame
  BY <1>5, FrameSteps DEF Inv, globals, transport
<1>6. CASE TakeSurfacesBack \/ DestroySession
  BY <1>6 DEF Inv, TakeSurfacesBack, DestroySession, globals, transport, FreshApp
<1>7. CASE ReleaseWindows
  <2>1. app'.windows = 0 /\ codec' = codec
    BY <1>7 DEF ReleaseWindows, transport, Inv, TypeOK
  <2> QED BY <1>0, <1>7, <2>1 DEF ReleaseWindows, Inv, Gens
<1>8. CASE PollEvent
  BY <1>8, EventSteps DEF PollEvent, Inv, globals, transport
<1>9. ASSUME NEW e \in Eyes, DrawEye(e) PROVE RefsBalanced'
  BY <1>9, RenderViewSteps DEF Inv, globals, transport
<1>10. CASE Ready \/ Stopping \/ Exiting \/ LossPending
  BY <1>10, SendSteps DEF Inv, globals, transport
<1>11. CASE CodecStart
  <2>1. surf \in Gens /\ codec = 0 /\ codec' = surf /\ app' = app
        /\ refs' = [refs EXCEPT ![surf] = refs[surf] + 1]
    BY <1>11 DEF CodecStart, Inv, TypeOK
  <2> QED BY <1>0, <2>1 DEF Inv, Gens
<1>12. CASE CodecStop
  <2>1. codec \in Gens /\ codec' = 0 /\ app' = app
        /\ refs' = [refs EXCEPT ![codec] = refs[codec] - 1]
    BY <1>12 DEF CodecStop, Inv, TypeOK
  <2> QED BY <1>0, <2>1 DEF Inv, Gens
<1>13. CASE PublishCodecFrame \/ ResetRawFrame
  BY <1>13 DEF PublishCodecFrame, ResetRawFrame, globals, Inv
<1>14. ASSUME NEW i \in Indices, PublishRawFrame(i) PROVE RefsBalanced'
  BY <1>14 DEF PublishRawFrame, globals, Inv
<1>15. CASE UNCHANGED vars
  BY <1>15 DEF vars, Inv
<1> QED BY <1>1, <1>2, <1>3, <1>4, <1>5, <1>6, <1>7, <1>8, <1>9, <1>10, <1>11,
           <1>12, <1>13, <1>14, <1>15 DEF Next, Render, DrawEye

(* The type of the variables, by parts. *)
ThreadType ==
  /\ main \in {"none", "polling", "joining", "joined"}
  /\ activity \in 0..MaxActivity /\ running \in BOOLEAN
  /\ pc \in {"none", "init", "surfaces", "loop", "events", "frame", "left",
             "leftCodec", "right", "rightCodec", "end", "cleanup", "release",
             "destroy", "ended"}
XrType ==
  xr \in [phase : Phases, readies : 0..MaxReady,
          events : Seq({"READY", "STOPPING", "EXITING", "LOSS"})]
CodecType ==
  /\ surf \in Gens \cup {0} /\ codec \in Gens \cup {0}
  /\ tpc \in {"idle", "publish"} /\ latest \in BOOLEAN
  /\ used \in Seq(Indices) /\ Len(used) <= MaxPub /\ raw \in 0..Len(used)
  /\ refs \in [Gens -> Int]

LEMMA Parts == TypeOK => ThreadType /\ XrType /\ CodecType /\ app \in AppType
BY DEF TypeOK, ThreadType, XrType, CodecType, AppType

LEMMA ThreadTypeStep == Inv /\ [Next]_vars => ThreadType'
<1> SUFFICES ASSUME Inv, [Next]_vars PROVE ThreadType'
  OBVIOUS
<1>0. ThreadType
  BY Parts DEF Inv
<1> USE <1>0 DEF ThreadType, mainVars
<1>1. CASE StartOpenXr
  BY <1>1, BoundsAssumption DEF StartOpenXr
<1>2. CASE StopOpenXr \/ StopJoin \/ StopTransport
  BY <1>2 DEF StopOpenXr, StopJoin, StopTransport
<1>3. CASE Initialize \/ CreateSurfaces \/ Loop \/ EventsDone \/ StartFrame
  BY <1>3 DEF Initialize, CreateSurfaces, Loop, EventsDone, StartFrame
<1>4. CASE EndFrame \/ TakeSurfacesBack \/ ReleaseWindows \/ DestroySession
  BY <1>4 DEF EndFrame, TakeSurfacesBack, ReleaseWindows, DestroySession
<1>5. CASE PollEvent
  BY <1>5 DEF PollEvent
<1>6. ASSUME NEW e \in Eyes, DrawEye(e) PROVE ThreadType'
  BY <1>6 DEF DrawEye, RenderView, RenderCodec, Fallback, NextView
<1>7. CASE Ready \/ Stopping \/ Exiting \/ LossPending
  BY <1>7 DEF Ready, Stopping, Exiting, LossPending, Send
<1>8. CASE CodecStart \/ CodecStop \/ PublishCodecFrame \/ ResetRawFrame
  BY <1>8 DEF CodecStart, CodecStop, PublishCodecFrame, ResetRawFrame
<1>9. ASSUME NEW i \in Indices, PublishRawFrame(i) PROVE ThreadType'
  BY <1>9 DEF PublishRawFrame
<1>10. CASE UNCHANGED vars
  BY <1>10 DEF vars
<1> QED BY <1>1, <1>2, <1>3, <1>4, <1>5, <1>6, <1>7, <1>8, <1>9, <1>10
        DEF Next, Render, DrawEye

LEMMA XrTypeStep == Inv /\ [Next]_vars => XrType'
<1> SUFFICES ASSUME Inv, [Next]_vars PROVE XrType'
  OBVIOUS
<1>0. XrType
  BY Parts DEF Inv
<1>1. NoSession \in [phase : Phases, readies : 0..MaxReady,
                     events : Seq({"READY", "STOPPING", "EXITING", "LOSS"})]
  BY BoundsAssumption DEF NoSession, Phases
<1> USE <1>0 DEF XrType
<1>2. CASE StartOpenXr \/ StopOpenXr \/ StopJoin \/ StopTransport
  BY <1>2 DEF StartOpenXr, StopOpenXr, StopJoin, StopTransport
<1>3. CASE Initialize
  BY <1>1, <1>3 DEF Initialize, Phases
<1>4. CASE DestroySession
  BY <1>1, <1>4 DEF DestroySession
<1>5. CASE CreateSurfaces \/ Loop \/ EventsDone \/ StartFrame \/ EndFrame
  BY <1>5 DEF CreateSurfaces, Loop, EventsDone, StartFrame, EndFrame
<1>6. CASE TakeSurfacesBack \/ ReleaseWindows
  BY <1>6 DEF TakeSurfacesBack, ReleaseWindows
<1>7. CASE PollEvent
  BY <1>7, EventSteps DEF PollEvent, Inv
<1>8. ASSUME NEW e \in Eyes, DrawEye(e) PROVE XrType'
  BY <1>8 DEF DrawEye, RenderView, RenderCodec, Fallback, NextView
<1>9. CASE Ready \/ Stopping \/ Exiting \/ LossPending
  BY <1>9, SendSteps DEF Inv
<1>10. CASE CodecStart \/ CodecStop \/ PublishCodecFrame \/ ResetRawFrame
  BY <1>10 DEF CodecStart, CodecStop, PublishCodecFrame, ResetRawFrame
<1>11. ASSUME NEW i \in Indices, PublishRawFrame(i) PROVE XrType'
  BY <1>11 DEF PublishRawFrame
<1>12. CASE UNCHANGED vars
  BY <1>12 DEF vars
<1> QED BY <1>2, <1>3, <1>4, <1>5, <1>6, <1>7, <1>8, <1>9, <1>10, <1>11, <1>12
        DEF Next, Render, DrawEye

LEMMA AppTypeStep == Inv /\ [Next]_vars => app' \in AppType
<1> SUFFICES ASSUME Inv, [Next]_vars PROVE app' \in AppType
  OBVIOUS
<1>0. app \in AppType
  BY Parts DEF Inv
<1> USE <1>0
<1>1. CASE StartOpenXr
  BY <1>1, BoundsAssumption DEF StartOpenXr, FreshApp, AppType
<1>2. CASE StopOpenXr \/ StopJoin \/ StopTransport
  BY <1>2 DEF StopOpenXr, StopJoin, StopTransport
<1>3. CASE Initialize \/ Loop \/ EventsDone
  BY <1>3 DEF Initialize, Loop, EventsDone
<1>4. CASE CreateSurfaces
  BY <1>4, NewGeneration, CreateSurfacesSteps DEF Inv
<1>5. CASE StartFrame \/ EndFrame
  BY <1>5, FrameSteps DEF Inv
<1>6. CASE TakeSurfacesBack \/ ReleaseWindows \/ DestroySession
  BY <1>6, CleanupSteps DEF Inv
<1>7. CASE PollEvent
  BY <1>7, EventSteps DEF PollEvent, Inv
<1>8. ASSUME NEW e \in Eyes, DrawEye(e) PROVE app' \in AppType
  BY <1>8, RenderViewSteps DEF Inv
<1>9. CASE Ready \/ Stopping \/ Exiting \/ LossPending
  BY <1>9, SendSteps DEF Inv
<1>10. CASE CodecStart \/ CodecStop \/ PublishCodecFrame \/ ResetRawFrame
  BY <1>10 DEF CodecStart, CodecStop, PublishCodecFrame, ResetRawFrame
<1>11. ASSUME NEW i \in Indices, PublishRawFrame(i) PROVE app' \in AppType
  BY <1>11 DEF PublishRawFrame
<1>12. CASE UNCHANGED vars
  BY <1>12 DEF vars
<1> QED BY <1>1, <1>2, <1>3, <1>4, <1>5, <1>6, <1>7, <1>8, <1>9, <1>10, <1>11,
           <1>12 DEF Next, Render, DrawEye

LEMMA CodecTypeStep == Inv /\ [Next]_vars => CodecType'
<1> SUFFICES ASSUME Inv, [Next]_vars PROVE CodecType'
  OBVIOUS
<1>0. CodecType
  <2>1. refs \in [Gens -> Int]
    BY DEF Inv, TypeOK
  <2> QED BY <2>1, Parts DEF Inv, CodecType
<1> USE <1>0 DEF CodecType, globals, transport
<1>1. CASE StartOpenXr \/ StopOpenXr \/ StopJoin \/ StopTransport
  BY <1>1 DEF StartOpenXr, StopOpenXr, StopJoin, StopTransport
<1>2. CASE CreateSurfaces
  BY <1>2, NewGeneration DEF CreateSurfaces
<1>3. CASE Initialize \/ Loop \/ EventsDone \/ StartFrame \/ EndFrame
  BY <1>3 DEF Initialize, Loop, EventsDone, StartFrame, EndFrame
<1>4. CASE TakeSurfacesBack \/ ReleaseWindows \/ DestroySession
  BY <1>4 DEF TakeSurfacesBack, ReleaseWindows, DestroySession
<1>5. CASE PollEvent
  BY <1>5 DEF PollEvent
<1>6. ASSUME NEW e \in Eyes, DrawEye(e) PROVE CodecType'
  BY <1>6 DEF DrawEye, RenderView, RenderCodec, Fallback, NextView
<1>7. CASE Ready \/ Stopping \/ Exiting \/ LossPending
  BY <1>7 DEF Ready, Stopping, Exiting, LossPending, Send
<1>8. CASE CodecStart \/ CodecStop
  BY <1>8 DEF CodecStart, CodecStop
<1>9. CASE PublishCodecFrame \/ ResetRawFrame
  <2>1. Len(used) \in Nat /\ 0 \in 0..Len(used)
    OBVIOUS
  <2> QED BY <1>9, <2>1 DEF PublishCodecFrame, StoreLatest, ResetRawFrame
<1>10. ASSUME NEW i \in Indices, PublishRawFrame(i) PROVE CodecType'
  <2>1. /\ Append(used, i) \in Seq(Indices)
        /\ Len(Append(used, i)) = Len(used) + 1 /\ Len(used) \in Nat
    OBVIOUS
  <2> QED BY <1>10, <2>1, BoundsAssumption DEF PublishRawFrame
<1>11. CASE UNCHANGED vars
  BY <1>11 DEF vars
<1> QED BY <1>1, <1>2, <1>3, <1>4, <1>5, <1>6, <1>7, <1>8, <1>9, <1>10, <1>11
        DEF Next, Render, DrawEye

LEMMA Step == Inv /\ [Next]_vars => Inv'
<1> SUFFICES ASSUME Inv, [Next]_vars PROVE Inv'
  OBVIOUS
<1>1. ControlInv' /\ SurfInv' /\ GenInv' /\ SessionInv' /\ RefsBalanced'
      /\ gen' \in 0..2 * activity'
  BY ControlStep, SurfStep, GenStep, SessionStep, RefsStep
<1>2. ThreadType' /\ XrType' /\ CodecType' /\ app' \in AppType
  BY ThreadTypeStep, XrTypeStep, CodecTypeStep, AppTypeStep
<1>3. refs' \in [Gens -> 0..2]
  BY <1>1, <1>2 DEF RefsBalanced, Holds, CodecType
<1>4. pc' \in {"none", "ended"} => xr' = NoSession
  BY <1>1 DEF SessionInv
<1>5. TypeOK'
  BY <1>1, <1>2, <1>3, <1>4 DEF TypeOK, ThreadType, XrType, CodecType, AppType
<1> QED BY <1>1, <1>5 DEF Inv

LEMMA Start == Init => Inv
<1> SUFFICES ASSUME Init PROVE Inv
  OBVIOUS
<1> USE BoundsAssumption DEF Init, FreshApp, NoSession
<1>1. FreshApp \in AppType
  BY DEF AppType
<1>2. NoSession \in [phase : Phases, readies : 0..MaxReady,
                     events : Seq({"READY", "STOPPING", "EXITING", "LOSS"})]
  BY DEF Phases
<1>3. <<>> \in Seq(Indices) /\ Len(<<>>) = 0
  OBVIOUS
<1>4. TypeOK
  <2>1. /\ refs \in [Gens -> 0..2] /\ gen \in 0..2 * activity
        /\ activity \in 0..MaxActivity
    OBVIOUS
  <2>2. Len(used) <= MaxPub /\ raw \in 0..Len(used) /\ used \in Seq(Indices)
    BY <1>3
  <2>3. xr \in [phase : Phases, readies : 0..MaxReady,
                events : Seq({"READY", "STOPPING", "EXITING", "LOSS"})]
    BY <1>2
  <2>4. app \in AppType
    BY <1>1
  <2> QED BY <2>1, <2>2, <2>3, <2>4 DEF TypeOK, AppType
<1>5. RefsBalanced
  BY DEF RefsBalanced, Holds, Gens
<1>6. ControlInv /\ SurfInv /\ GenInv /\ SessionInv
  BY DEF ControlInv, SurfInv, GenInv, SessionInv, Before, After, Looping, Framing, Drawing
<1> QED BY <1>4, <1>5, <1>6 DEF Inv

(* The renderer, the runtime and the decoder keep their types. *)
THEOREM RendererTypeCorrect == Spec => []TypeOK
<1>1. Inv => TypeOK
  BY DEF Inv
<1> QED BY <1>1, Start, Step, PTL DEF Spec

(* References to codec windows are never lost and never invented, however  *)
(* often the activity, the session and the decoder restart.                *)
THEOREM ReferencesBalance == Spec => []RefsBalanced
<1>1. Inv => RefsBalanced
  BY DEF Inv
<1> QED BY <1>1, Start, Step, PTL DEF Spec

(* The transport thread never acquires windows that were given up: what is *)
(* on offer is still held by the renderer, in every interleaving with      *)
(* cleanup().                                                              *)
THEOREM DeadWindowsStayDead == Spec => NeverRevived
<1> DEFINE A == \A g \in Gens : Dead(g) => refs'[g] = 0
<1>1. ASSUME Inv, [Next]_vars PROVE [A]_vars
  <2>1. refs' = refs => A
    BY DEF Dead
  <2>0. /\ gen \in Nat /\ refs \in [Gens -> 0..2] /\ \A g \in Gens : g \in Nat /\ g # 0
        /\ app.windows \in Nat /\ codec \in Gens \cup {0}
    BY <1>1, BoundsAssumption DEF Inv, TypeOK, Gens
  <2>2. CASE CreateSurfaces
    BY <2>0, <2>1, <2>2 DEF CreateSurfaces, Dead, globals
  <2>3. CASE ReleaseWindows
    BY <1>1, <2>0, <2>3 DEF ReleaseWindows, Dead, Inv, RefsBalanced, Holds
  <2>4. CASE CodecStart
    <3>1. surf \in Gens /\ surf = app.windows
      BY <1>1, <2>4 DEF CodecStart, Inv, SurfInv, TypeOK
    <3>2. refs[surf] # 0
      BY <1>1, <2>0, <2>4, <3>1 DEF CodecStart, Inv, RefsBalanced, Holds
    <3> QED BY <2>0, <2>4, <3>1, <3>2 DEF CodecStart, Dead
  <2>5. CASE CodecStop
    BY <1>1, <2>0, <2>5 DEF CodecStop, Dead, Inv, RefsBalanced, Holds
  <2>6. ASSUME NEW e \in Eyes, DrawEye(e) PROVE refs' = refs
    BY <2>6 DEF DrawEye, RenderView, RenderCodec, Fallback, NextView, globals
  <2>7. CASE PollEvent \/ Ready \/ Stopping \/ Exiting \/ LossPending
    BY <2>1, <2>7 DEF PollEvent, Ready, Stopping, Exiting, LossPending, Send, globals
  <2>8. ASSUME NEW i \in Indices, PublishRawFrame(i) PROVE refs' = refs
    BY <2>8 DEF PublishRawFrame, globals
  <2>9. CASE \/ StartOpenXr \/ StopOpenXr \/ StopJoin \/ StopTransport
             \/ Initialize \/ Loop \/ EventsDone \/ StartFrame \/ EndFrame
             \/ TakeSurfacesBack \/ DestroySession
             \/ PublishCodecFrame \/ ResetRawFrame
    BY <2>1, <2>9 DEF StartOpenXr, StopOpenXr, StopJoin, StopTransport, Initialize,
       Loop, EventsDone, StartFrame, EndFrame, TakeSurfacesBack, DestroySession,
       PublishCodecFrame, ResetRawFrame, globals
  <2> QED BY <1>1, <2>1, <2>2, <2>3, <2>4, <2>5, <2>6, <2>7, <2>8, <2>9
          DEF Next, Render, DrawEye
<1> QED BY <1>1, Start, Step, PTL DEF Spec, NeverRevived

(* After stopOpenXr() nothing of the renderer is left. *)
THEOREM StoppedRendererIsClean == Spec => []StoppedIsClean
<1>1. Inv => StoppedIsClean
  BY DEF Inv, StoppedIsClean, ControlInv, SurfInv, Before
<1> QED BY <1>1, Start, Step, PTL DEF Spec

(* No frame call is made outside a running session. *)
THEOREM FramesOnlyInSession == Spec => []FramesInSession
<1>1. Inv => FramesInSession
  BY DEF Inv, FramesInSession, SessionInv, Looping, Framing, Drawing
<1> QED BY <1>1, Start, Step, PTL DEF Spec

-----------------------------------------------------------------------------
(* What the eyes show against the two slots they draw from.  The raw slot   *)
(* holds the last picture published or none.  An eye that was drawn in this *)
(* frame is recent; a frame without eyes begins and ends with from = 0.     *)
Recent(e) ==
  app.shown[e] = "raw" /\ xr.phase # "lost" =>
    app.tex[e] >= app.from \/ UsedTwice(used[app.tex[e]])

SlotInv ==
  /\ raw \in {0, Len(used)}
  /\ tpc = "publish" => latest
  /\ Len(used) # 0 /\ raw = 0 => latest

ShownInv ==
  /\ \A e \in Eyes : app.tex[e] <= Len(used)
  /\ \A e \in Eyes : app.shown[e] = "raw" => app.tex[e] # 0
  /\ \A e \in Eyes : app.shown[e] = "codec" => latest
  /\ \A e \in Eyes : pc = Fallback(e) /\ app.shown[e] = "raw" => latest

DrawnInv ==
  /\ app.from <= Len(used)
  /\ pc \notin Drawing => app.from = 0
  /\ pc \in {"right", "rightCodec"} => Recent("left")
  /\ pc = "end" => Recent("left") /\ Recent("right")

PictureInv == SlotInv /\ ShownInv /\ DrawnInv

(* the steps that draw nothing and publish nothing *)
Elsewhere ==
  \/ StopOpenXr \/ StopJoin \/ StopTransport \/ Initialize \/ CreateSurfaces
  \/ Loop \/ PollEvent \/ EventsDone \/ TakeSurfacesBack \/ ReleaseWindows
  \/ Ready \/ Stopping \/ Exiting \/ LossPending \/ CodecStart \/ CodecStop

LEMMA ElsewhereSteps ==
  ASSUME Inv, Elsewhere
  PROVE  /\ UNCHANGED <<tpc, latest, used, raw>>
         /\ app'.tex = app.tex /\ app'.shown = app.shown /\ app'.from = app.from
         /\ pc' = pc \/ {pc, pc'} \intersect Drawing = {}
         /\ pc \in Drawing /\ xr.phase = "lost" => xr'.phase = "lost"
<1>1. app \in AppType
  BY Parts DEF Inv
<1> USE <1>1 DEF AppType, transport, Drawing
<1>2. CASE StopOpenXr \/ StopTransport
  BY <1>2 DEF StopOpenXr, StopTransport
<1>3. CASE StopJoin \/ Initialize \/ Loop \/ EventsDone
  BY <1>3 DEF StopJoin, Initialize, Loop, EventsDone
<1>4. CASE CreateSurfaces
  BY <1>4 DEF CreateSurfaces
<1>5. CASE PollEvent
  BY <1>5 DEF PollEvent, Handle, OnReady, OnStopping, OnExit, EndSession
<1>6. CASE TakeSurfacesBack \/ ReleaseWindows
  BY <1>6 DEF TakeSurfacesBack, ReleaseWindows
<1>7. CASE Ready \/ Stopping \/ Exiting \/ LossPending
  BY <1>7 DEF Ready, Stopping, Exiting, LossPending, Send
<1>8. CASE CodecStart \/ CodecStop
  BY <1>8 DEF CodecStart, CodecStop
<1> QED BY <1>2, <1>3, <1>4, <1>5, <1>6, <1>7, <1>8 DEF Elsewhere

(* what a look of renderView does to the picture the eye shows *)
LEMMA DrawSteps ==
  ASSUME Inv, PictureInv, NEW e \in Eyes, DrawEye(e)
  PROVE  /\ UNCHANGED <<xr, tpc, latest, used, raw>>
         /\ pc \in {e, Fallback(e)} /\ app'.from = app.from
         /\ \A d \in Eyes : d # e =>
              app'.tex[d] = app.tex[d] /\ app'.shown[d] = app.shown[d]
         /\ app'.tex[e] = app.tex[e] \/ (raw # 0 /\ app'.tex[e] = raw)
         /\ \/ pc' = Fallback(e) /\ raw = 0 /\ app' = app
            \/ pc' = NextView(e) /\ app' = app /\ xr.phase = "lost"
            \/ /\ pc' = NextView(e) /\ raw # 0 /\ app'.shown[e] = "raw"
               /\ \/ app'.tex[e] = raw
                  \/ app'.tex[e] # 0 /\ used[app'.tex[e]] = used[raw]
            \/ /\ pc = Fallback(e) /\ pc' = NextView(e)
               /\ app'.shown[e] = IF latest /\ e \in app.textures
                                   THEN "codec" ELSE "waiting"
<1>1. app \in AppType
  BY Parts DEF Inv
<1>2. /\ UNCHANGED <<xr, tpc, latest, used, raw>> /\ pc \in {e, Fallback(e)}
  BY DEF DrawEye, RenderView, RenderCodec, transport
<1>3. CASE /\ raw # 0 /\ pc' = NextView(e)
           /\ app' = [app EXCEPT !.tex[e] = Upload(e), !.shown[e] = "raw"]
  <2>1. /\ app'.from = app.from
        /\ app'.tex = [app.tex EXCEPT ![e] = Upload(e)]
        /\ app'.shown = [app.shown EXCEPT ![e] = "raw"]
    BY <1>1, <1>3 DEF AppType
  <2>2. app'.tex[e] = Upload(e) /\ app'.shown[e] = "raw"
    BY <1>1, <2>1 DEF AppType
  <2>3. \/ Upload(e) = app.tex[e] /\ app.tex[e] # 0 /\ used[raw] = used[app.tex[e]]
        \/ Upload(e) = raw
    BY DEF Upload
  <2> QED BY <1>1, <1>2, <1>3, <2>1, <2>2, <2>3 DEF AppType
<1>4. CASE RenderCodec(e)
  <2> DEFINE w == IF latest /\ e \in app.textures THEN "codec" ELSE "waiting"
  <2>1. app' = [app EXCEPT !.shown[e] = w] /\ pc = Fallback(e) /\ pc' = NextView(e)
    BY <1>4 DEF RenderCodec
  <2>2. /\ app'.from = app.from /\ app'.tex = app.tex
        /\ app'.shown = [app.shown EXCEPT ![e] = w]
    BY <1>1, <2>1 DEF AppType
  <2>3. app'.shown[e] = w /\ \A d \in Eyes : d # e => app'.shown[d] = app.shown[d]
    BY <1>1, <2>2 DEF AppType
  <2> QED BY <1>2, <2>1, <2>2, <2>3
<1>5. CASE \/ pc' = Fallback(e) /\ raw = 0 /\ app' = app
           \/ pc' = NextView(e) /\ app' = app /\ xr.phase = "lost"
  BY <1>2, <1>5
<1> QED BY <1>3, <1>4, <1>5 DEF DrawEye, RenderView, MayFail

(* An index used by two pictures stays one. *)
LEMMA RecentStays ==
  ASSUME Inv, NEW i, used' = Append(used, i), UNCHANGED <<app, xr>>,
         NEW e \in Eyes, app.tex[e] <= Len(used),
         app.shown[e] = "raw" => app.tex[e] # 0, Recent(e)
  PROVE  Recent(e)'
<1>1. used \in Seq(Indices) /\ app \in AppType
  BY Parts DEF Inv, CodecType, TypeOK
<1>2. \A k \in DOMAIN used : k \in DOMAIN used' /\ used'[k] = used[k]
  BY <1>1
<1>3. app.shown[e] = "raw" => app.tex[e] \in DOMAIN used
  BY <1>1, BoundsAssumption DEF AppType
<1> QED BY <1>2, <1>3 DEF Recent, UsedTwice

LEMMA PictureStart == Init => PictureInv
BY DEF Init, FreshApp, PictureInv, SlotInv, ShownInv, DrawnInv, Eyes

LEMMA PictureStep == Inv /\ PictureInv /\ [Next]_vars => PictureInv'
<1> SUFFICES ASSUME Inv, PictureInv, [Next]_vars PROVE PictureInv'
  OBVIOUS
<1>0. /\ app \in AppType /\ used \in Seq(Indices) /\ Len(used) \in Nat
      /\ raw \in 0..Len(used)
  BY Parts DEF Inv, TypeOK
<1>1. CASE StartOpenXr \/ DestroySession
  <2>1. /\ UNCHANGED <<tpc, latest, used, raw>> /\ pc' \in {"init", "ended"}
        /\ app'.from = 0
        /\ \A e \in Eyes : app'.tex[e] = 0 /\ app'.shown[e] = "none"
    BY <1>1 DEF StartOpenXr, DestroySession, FreshApp, transport
  <2> QED BY <1>0, <2>1 DEF PictureInv, SlotInv, ShownInv, DrawnInv
<1>2. CASE Elsewhere
  <2>1. \A e \in Eyes : Fallback(e) \in Drawing
    BY DEF Fallback, Drawing
  <2>2. /\ UNCHANGED <<tpc, latest, used, raw>>
        /\ app'.tex = app.tex /\ app'.shown = app.shown /\ app'.from = app.from
        /\ pc' = pc \/ (pc \notin Drawing /\ pc' \notin Drawing)
        /\ pc \in Drawing /\ xr.phase = "lost" => xr'.phase = "lost"
    BY <1>2, ElsewhereSteps
  <2>3. SlotInv' /\ ShownInv'
    BY <2>1, <2>2 DEF PictureInv, SlotInv, ShownInv
  <2>4. \A e \in Eyes : pc \in Drawing /\ Recent(e) => Recent(e)'
    BY <2>2 DEF Recent, UsedTwice
  <2>5. DrawnInv'
    BY <2>2, <2>4 DEF PictureInv, DrawnInv, Drawing, Eyes
  <2> QED BY <2>3, <2>5 DEF PictureInv
<1>3. CASE StartFrame \/ EndFrame
  <2>1. /\ UNCHANGED <<tpc, latest, used, raw>>
        /\ app'.tex = app.tex /\ app'.shown = app.shown
    BY <1>0, <1>3 DEF StartFrame, EndFrame, AppType, transport
  <2>2. \/ pc' = "left" /\ app'.from = Len(used)
        \/ pc' = "loop" /\ app'.from = 0
        \/ pc' = "end" /\ app'.from = 0
    BY <1>0, <1>3 DEF StartFrame, EndFrame, AppType, PictureInv, DrawnInv, Drawing
  <2>3. pc' = "end" => Recent("left")' /\ Recent("right")'
    BY <1>0, <2>1, <2>2 DEF Recent, AppType, Eyes
  <2>4. SlotInv' /\ ShownInv'
    BY <2>1, <2>2 DEF PictureInv, SlotInv, ShownInv, Fallback
  <2>5. DrawnInv'
    BY <1>0, <2>1, <2>2, <2>3 DEF DrawnInv, Drawing
  <2> QED BY <2>4, <2>5 DEF PictureInv
<1>4. ASSUME NEW e \in Eyes, DrawEye(e) PROVE PictureInv'
  <2>1. /\ UNCHANGED <<xr, tpc, latest, used, raw>>
        /\ pc \in {e, Fallback(e)} /\ pc' \in {Fallback(e), NextView(e)}
        /\ app'.from = app.from
    BY <1>4, DrawSteps
  <2>2. \A d \in Eyes : d # e =>
          app'.tex[d] = app.tex[d] /\ app'.shown[d] = app.shown[d]
    BY <1>4, DrawSteps
  <2>3. SlotInv'
    BY <2>1 DEF PictureInv, SlotInv
  <2>4. /\ app'.tex[e] <= Len(used)
        /\ app'.shown[e] = "raw" => app'.tex[e] # 0
        /\ app'.shown[e] = "codec" => latest
    BY <1>0, <1>4, DrawSteps DEF PictureInv, ShownInv
  <2>5. ASSUME pc' = Fallback(e), app'.shown[e] = "raw" PROVE latest
    <3>1. raw = 0 /\ app' = app
      BY <1>4, <2>5, DrawSteps DEF Fallback, NextView, Eyes
    <3>2. app.tex[e] # 0 /\ app.tex[e] <= Len(used) /\ app.tex[e] \in 0..MaxPub
      BY <1>0, <2>5, <3>1 DEF PictureInv, ShownInv, AppType
    <3>3. Len(used) # 0
      BY <1>0, <3>2, BoundsAssumption
    <3> QED BY <3>1, <3>3 DEF PictureInv, SlotInv
  <2>6. ShownInv'
    <3>1. \A d \in Eyes : d # e => pc' # Fallback(d)
      BY <2>1 DEF Fallback, NextView, Eyes
    <3> QED BY <2>1, <2>2, <2>4, <2>5, <3>1 DEF PictureInv, ShownInv
  <2>7. ASSUME pc' = NextView(e) PROVE Recent(e)'
    <3>1. CASE app' = app /\ xr.phase = "lost"
      BY <2>1, <3>1 DEF Recent
    <3>2. CASE raw # 0 /\ app'.tex[e] = raw
      BY <1>0, <2>1, <3>2 DEF Recent, PictureInv, SlotInv, DrawnInv
    <3>3. CASE raw # 0 /\ app'.tex[e] # raw /\ app'.tex[e] # 0
                 /\ used[app'.tex[e]] = used[raw]
      <4>1. app'.tex[e] \in DOMAIN used /\ raw \in DOMAIN used
        BY <1>0, <2>4, <3>3, <1>4, DrawSteps DEF AppType
      <4> QED BY <2>1, <3>3, <4>1 DEF Recent, UsedTwice
    <3>4. CASE app'.shown[e] # "raw"
      BY <3>4 DEF Recent
    <3>5. pc' # Fallback(e)
      BY <2>7 DEF Fallback, NextView, Eyes
    <3> QED BY <1>4, <3>1, <3>2, <3>3, <3>4, <3>5, DrawSteps
  <2>8. pc \in {"right", "rightCodec"} => Recent("left")'
    <3>1. pc \in {"right", "rightCodec"} => e # "left"
      BY <2>1 DEF Fallback, Eyes
    <3> QED BY <2>1, <2>2, <3>1 DEF PictureInv, DrawnInv, Recent, UsedTwice, Eyes
  <2>9. /\ e = "left" => pc' \in {"leftCodec", "right"}
        /\ e = "right" => pc \in {"right", "rightCodec"} /\ pc' \in {"rightCodec", "end"}
        /\ pc \in Drawing /\ pc' \in Drawing
    BY <2>1 DEF Fallback, NextView, Drawing, Eyes
  <2>10. DrawnInv'
    <3>1. app'.from <= Len(used')
      BY <2>1 DEF PictureInv, DrawnInv
    <3>2. CASE e = "left"
      BY <2>7, <2>9, <3>1, <3>2 DEF DrawnInv, NextView, Drawing
    <3>3. CASE e = "right"
      BY <2>7, <2>8, <2>9, <3>1, <3>3 DEF DrawnInv, NextView, Drawing
    <3> QED BY <3>2, <3>3 DEF Eyes
  <2> QED BY <2>3, <2>6, <2>10 DEF PictureInv
<1>5. CASE PublishCodecFrame \/ ResetRawFrame
  <2>1. UNCHANGED <<pc, app, xr, used>>
    BY <1>5 DEF PublishCodecFrame, ResetRawFrame
  <2>2. SlotInv' /\ (latest => latest')
    BY <1>5 DEF PublishCodecFrame, ResetRawFrame, StoreLatest, PictureInv, SlotInv
  <2> QED BY <2>1, <2>2 DEF PictureInv, ShownInv, DrawnInv, Recent, UsedTwice
<1>6. ASSUME NEW i \in Indices, PublishRawFrame(i) PROVE PictureInv'
  <2>1. /\ UNCHANGED <<pc, app, xr, tpc, latest>>
        /\ used' = Append(used, i) /\ raw' = Len(used) + 1
    BY <1>6 DEF PublishRawFrame
  <2>2. Len(used') = Len(used) + 1
    BY <1>0, <2>1
  <2>3. \A e \in Eyes : Recent(e) => Recent(e)'
    BY <2>1, RecentStays DEF PictureInv, ShownInv
  <2> QED BY <1>0, <2>1, <2>2, <2>3
          DEF PictureInv, SlotInv, ShownInv, DrawnInv, AppType, Eyes
<1>7. CASE UNCHANGED vars
  BY <1>7 DEF vars, PictureInv, SlotInv, ShownInv, DrawnInv, Recent, UsedTwice
<1> QED BY <1>1, <1>2, <1>3, <1>4, <1>5, <1>6, <1>7 DEF Next, Render, DrawEye, Elsewhere

LEMMA PictureForever == Spec => [](Inv /\ PictureInv)
BY Start, Step, PictureStart, PictureStep, PTL DEF Spec

(* No eye shows a raw picture that was replaced before the frame began,     *)
(* however publications and the drawing of the two eyes are interleaved,   *)
(* for any number of frames and activities.                                *)
THEOREM PicturesAreRecent == Spec => []PictureIsRecent
<1>1. PictureInv => PictureIsRecent
  BY DEF PictureInv, DrawnInv, PictureIsRecent, Recent, Eyes
<1> QED BY <1>1, PictureForever, PTL

(* Between raw and codec video no eye that has a codec texture falls back   *)
(* to the waiting overlay: whenever the renderer has found the raw slot     *)
(* empty after a picture, there is a codec frame when it looks for one.    *)
THEOREM VideoDoesNotLapse == Spec => VideoStays
<1> DEFINE Stays(e) ==
      app.shown[e] \in {"raw", "codec"} /\ app'.shown[e] = "waiting"
        => e \notin app.textures
<1>1. ASSUME Inv, PictureInv, Next, NEW d \in Eyes PROVE Stays(d)
  <2>1. CASE StartOpenXr \/ DestroySession
    BY <2>1 DEF StartOpenXr, DestroySession, FreshApp
  <2>2. CASE app'.shown = app.shown
    BY <2>2
  <2>3. CASE StartFrame \/ EndFrame
    <3>1. app'.shown = app.shown
      BY <1>1, <2>3, Parts DEF StartFrame, EndFrame, AppType, Inv
    <3> QED BY <3>1
  <2>4. ASSUME NEW e \in Eyes, DrawEye(e) PROVE Stays(d)
    <3>1. CASE d # e
      <4>1. app'.shown[d] = app.shown[d]
        BY <1>1, <2>4, <3>1, DrawSteps
      <4> QED BY <4>1
    <3>2. CASE d = e
      <4>1. SUFFICES ASSUME app.shown[e] \in {"raw", "codec"}, app'.shown[e] = "waiting"
                     PROVE  e \notin app.textures
        BY <3>2
      <4>2. pc = Fallback(e) /\ ~(latest /\ e \in app.textures)
        BY <1>1, <2>4, <4>1, DrawSteps
      <4>3. latest
        BY <1>1, <4>1, <4>2 DEF PictureInv, ShownInv
      <4> QED BY <4>2, <4>3
    <3> QED BY <3>1, <3>2
  <2>5. CASE PublishCodecFrame \/ ResetRawFrame \/ \E i \in Indices : PublishRawFrame(i)
    BY <2>2, <2>5 DEF PublishCodecFrame, ResetRawFrame, PublishRawFrame
  <2>6. CASE Elsewhere
    BY <1>1, <2>2, <2>6, ElsewhereSteps
  <2> QED BY <1>1, <2>1, <2>3, <2>4, <2>5, <2>6 DEF Next, Render, DrawEye, Elsewhere
<1>2. Inv /\ PictureInv /\ [Next]_vars => [\A e \in Eyes : Stays(e)]_vars
  BY <1>1
<1> QED BY <1>2, PictureForever, PTL DEF Spec, VideoStays
=============================================================================
