---------------------------- MODULE OpenXrResources ----------------------------
(***************************************************************************)
(* What OpenXrApp creates and releases (openxr_app.cpp): the thread's      *)
(* attachment to the JVM, OpenXR handles, the EGL context and its GL       *)
(* objects, the Java objects of the codec surfaces.                        *)
(*                                                                         *)
(* initialize() is a table of steps, each of which may fail and then       *)
(* leaves what the earlier ones made; cleanup() is a table of releases,    *)
(* each of which skips what was never made.  Threads, events and frames    *)
(* are in OpenXrApp; there initialize() is one step.                       *)
(***************************************************************************)
EXTENDS Naturals, Sequences

CONSTANT Views  \* the runtime's view_count

ASSUME ViewsAssumption == Views \in Nat \ {0}

(* A resource is a pair: its kind and which of them it is. *)
The(kind) == <<kind, "only">>
Eyes == {"left", "right"}
Inputs == {"grip", "aim", "trigger", "squeeze", "primary", "secondary"}

VARIABLES
  pc,    \* where startOpenXr, run and stopOpenXr are
  at,    \* the next entry of the table pc is in
  held   \* what exists

vars == <<pc, at, held>>

-----------------------------------------------------------------------------
(* A step of initialize() makes sure whatever happens, and made if its      *)
(* check passes.                                                           *)
Step(sure, made) == [sure |-> sure, made |-> made]
Make(kind, which) == Step({}, {<<kind, which>>})
MakeThe(kind) == Step({}, {The(kind)})
Check == Step({}, {})

CreateEglContext ==
  <<MakeThe("display"), Check, MakeThe("context"), MakeThe("pbuffer"),
    MakeThe("current")>>

CreateActions ==
  <<Check, MakeThe("actionSet"), Make("action", "grip"), Make("action", "aim"),
    Make("action", "trigger"), Make("action", "squeeze"),
    Make("action", "primary"), Make("action", "secondary"), Check,
    Make("grip", "left"), Make("grip", "right"),
    Make("aim", "left"), Make("aim", "right"), Check>>

(* each swapchain, then its images *)
CreateSwapchains ==
  <<Check>> \o [i \in 1..2 * Views |->
                  IF i % 2 = 1 THEN Make("swapchain", (i + 1) \div 2) ELSE Check]

(* A program's shaders do not outlive its creation: they are deleted when  *)
(* one does not compile and after the link, the program when the link fails. *)
CreatePrograms ==
  <<Step({The("videoTextures")}, {<<"program", "video">>}),
    Make("program", "external"), Make("program", "waiting")>>

Initialize ==
  <<MakeThe("instance"), Check>> \o CreateEglContext
  \o <<Check, MakeThe("session"), MakeThe("space")>>
  \o CreateActions \o CreateSwapchains \o <<MakeThe("framebuffer")>>
  \o CreatePrograms

CreateCodecSurfaceResources ==
  <<MakeThe("bridgeClass"), Check,
    Step({The("codecTextures")}, {<<"texture", "left">>}),
    Make("surface", "left"), Make("window", "left"),
    Make("texture", "right"), Make("surface", "right"), Make("window", "right")>>

Cleanup ==
  <<{"surface"} \X Eyes, {"texture"} \X Eyes, {The("bridgeClass")},
    {"window"} \X Eyes,
    {<<"program", "external">>}, {<<"program", "waiting">>},
    {<<"program", "video">>},
    {The("codecTextures")}, {The("videoTextures")}, {The("framebuffer")},
    {"swapchain"} \X (1..Views), {The("space")}, {"grip", "aim"} \X Eyes,
    {"action"} \X Inputs, {The("actionSet")}, {The("session")},
    {The("instance")},
    {The("current")}, {The("pbuffer")}, {The("context")}, {The("display")}>>

-----------------------------------------------------------------------------
Init == pc = "stopped" /\ at = 1 /\ held = {}

Goto(from, to) == pc = from /\ pc' = to /\ at' = 1

StartOpenXr ==
  /\ Goto("stopped", "attach")
  /\ held' = {The("activity")}

(* run() *)
Attach ==
  \/ Goto("attach", "initialize") /\ held' = held \union {The("attached")}
  \/ Goto("attach", "ended") /\ UNCHANGED held

(* One step of a table; the step after the last leads on. *)
Create(here, table, failed, done) ==
  \/ /\ pc = here /\ at <= Len(table)
     /\ \/ /\ held' = held \union table[at].sure \union table[at].made
           /\ at' = at + 1 /\ UNCHANGED pc
        \/ /\ held' = held \union table[at].sure
           /\ Goto(here, failed)
  \/ at > Len(table) /\ Goto(here, done) /\ UNCHANGED held

InitializeStep == Create("initialize", Initialize, "cleanup", "codec")

(* initialize() succeeds without codec surfaces, and what was made stays *)
CodecStep == Create("codec", CreateCodecSurfaceResources, "loop", "loop")

(* mutant: run() detaches the thread before cleanup() *)
LeaveDetached == Goto("loop", "cleanup") /\ held' = held \ {The("attached")}

Leave == Goto("loop", "cleanup") /\ UNCHANGED held

(* mutant: the display is not terminated *)
CleanupStepShort ==
  \/ /\ pc = "cleanup" /\ at < Len(Cleanup)
     /\ held' = held \ Cleanup[at] /\ at' = at + 1 /\ UNCHANGED pc
  \/ at = Len(Cleanup) /\ Goto("cleanup", "detach") /\ UNCHANGED held

CleanupStep ==
  \/ /\ pc = "cleanup" /\ at <= Len(Cleanup)
     /\ held' = held \ Cleanup[at] /\ at' = at + 1 /\ UNCHANGED pc
  \/ at > Len(Cleanup) /\ Goto("cleanup", "detach") /\ UNCHANGED held

Detach == Goto("detach", "ended") /\ held' = held \ {The("attached")}

(* the join, and the reference to the activity *)
StopOpenXr == Goto("ended", "stopped") /\ held' = held \ {The("activity")}

Next == \/ StartOpenXr \/ Attach \/ InitializeStep \/ CodecStep \/ Leave
        \/ CleanupStep \/ Detach \/ StopOpenXr

Spec == Init /\ [][Next]_vars

-----------------------------------------------------------------------------
(* What must exist as long as r does, or for r to be released: parents of  *)
(* OpenXR handles, the graphics binding of a session, the display of EGL   *)
(* objects, a current context for GL objects, the class and the attached   *)
(* thread for releases through Java, the activity the instance was given.   *)
Needs(r) ==
  LET kind == r[1] IN
  CASE kind = "action" -> {The("actionSet")}
    [] kind = "actionSet" -> {The("instance")}
    [] kind = "session" -> {The("instance"), The("context")}
    [] kind = "instance" -> {The("activity")}
    [] kind \in {"context", "pbuffer"} -> {The("display")}
    [] kind = "current" -> {The("context"), The("pbuffer")}
    [] kind \in {"framebuffer", "videoTextures", "codecTextures", "program"} ->
         {The("current")}
    [] kind \in {"space", "swapchain", "grip", "aim"} -> {The("session")}
    [] kind \in {"texture", "surface"} -> {The("bridgeClass")}
    [] kind = "bridgeClass" -> {The("attached")}
    [] OTHER -> {}

(* Nothing is released before what still needs it, wherever initialize()    *)
(* failed (cleanup 1033-1132 against the order of creation 126-237).        *)
DependantsFirst == \A r \in held : Needs(r) \subseteq held

(* When stopOpenXr() returns nothing is left, wherever initialize() or the  *)
(* codec surfaces failed: all that was made has its release in cleanup(),   *)
(* run() or stopOpenXr() itself (1033-1132, 97-123, 1290-1304).             *)
NothingLeft == pc = "stopped" => held = {}
=============================================================================
