------------------------ MODULE OpenXrResourcesProofs ------------------------
(***************************************************************************)
(* NothingLeft and DependantsFirst of OpenXrResources for any number of     *)
(* views: everything the tables of creation make has an entry in the table *)
(* of releases, what a resource needs is made by an earlier step of those   *)
(* tables, and released by a later entry of this one.                      *)
(***************************************************************************)
EXTENDS OpenXrResources, SequenceTheorems, TLAPS

Released == UNION {Cleanup[k] : k \in 1..21}

Steps == [sure : SUBSET Released, made : SUBSET Released]

(* The table of releases has 21 entries. *)
LEMMA CleanupEntries ==
  /\ Len(Cleanup) = 21
  /\ Cleanup[1] = {"surface"} \X Eyes
  /\ Cleanup[2] = {"texture"} \X Eyes
  /\ Cleanup[3] = {The("bridgeClass")}
  /\ Cleanup[4] = {"window"} \X Eyes
  /\ Cleanup[5] = {<<"program", "external">>}
  /\ Cleanup[6] = {<<"program", "waiting">>}
  /\ Cleanup[7] = {<<"program", "video">>}
  /\ Cleanup[8] = {The("codecTextures")}
  /\ Cleanup[9] = {The("videoTextures")}
  /\ Cleanup[10] = {The("framebuffer")}
  /\ Cleanup[11] = {"swapchain"} \X (1..Views)
  /\ Cleanup[12] = {The("space")}
  /\ Cleanup[13] = {"grip", "aim"} \X Eyes
  /\ Cleanup[14] = {"action"} \X Inputs
  /\ Cleanup[15] = {The("actionSet")}
  /\ Cleanup[16] = {The("session")}
  /\ Cleanup[17] = {The("instance")}
  /\ Cleanup[18] = {The("current")}
  /\ Cleanup[19] = {The("pbuffer")}
  /\ Cleanup[20] = {The("context")}
  /\ Cleanup[21] = {The("display")}
BY DEF Cleanup

(* Each kind of resource is in one of them. *)
LEMMA EntryReleased ==
  ASSUME NEW k \in 1..21, NEW r \in Cleanup[k]
  PROVE  r \in Released
BY DEF Released

LEMMA TheReleased ==
  ASSUME NEW kind \in {"bridgeClass", "codecTextures", "videoTextures",
                       "framebuffer", "space", "actionSet", "session",
                       "instance", "current", "pbuffer", "context", "display"}
  PROVE  The(kind) \in Released
<1>1. \E k \in {3, 8, 9, 10, 12, 15, 16, 17, 18, 19, 20, 21} :
        The(kind) \in Cleanup[k]
  BY CleanupEntries
<1> QED BY <1>1, EntryReleased

LEMMA EyeReleased ==
  ASSUME NEW kind \in {"surface", "texture", "window", "grip", "aim"},
         NEW eye \in Eyes
  PROVE  <<kind, eye>> \in Released
<1>1. \E k \in {1, 2, 4, 13} : <<kind, eye>> \in Cleanup[k]
  BY CleanupEntries
<1> QED BY <1>1, EntryReleased

LEMMA OtherReleased ==
  /\ \A p \in {"video", "external", "waiting"} : <<"program", p>> \in Released
  /\ \A i \in Inputs : <<"action", i>> \in Released
  /\ \A v \in 1..Views : <<"swapchain", v>> \in Released
<1>1. ASSUME NEW p \in {"video", "external", "waiting"}
      PROVE  <<"program", p>> \in Released
  <2>1. \E k \in {5, 6, 7} : <<"program", p>> \in Cleanup[k]
    BY CleanupEntries
  <2> QED BY <2>1, EntryReleased
<1>2. ASSUME NEW i \in Inputs PROVE <<"action", i>> \in Released
  <2>1. <<"action", i>> \in Cleanup[14]
    BY CleanupEntries
  <2> QED BY <2>1, EntryReleased
<1>3. ASSUME NEW v \in 1..Views PROVE <<"swapchain", v>> \in Released
  <2>1. <<"swapchain", v>> \in Cleanup[11]
    BY CleanupEntries
  <2> QED BY <2>1, EntryReleased
<1> QED BY <1>1, <1>2, <1>3

-----------------------------------------------------------------------------
(* The tables of creation make nothing else. *)
LEMMA StepType ==
  /\ Check \in Steps
  /\ \A kind, which : <<kind, which>> \in Released => Make(kind, which) \in Steps
  /\ \A kind : The(kind) \in Released => MakeThe(kind) \in Steps
  /\ \A kind, which, first :
       The(kind) \in Released /\ <<first, which>> \in Released
         => Step({The(kind)}, {<<first, which>>}) \in Steps
BY DEF Check, Make, MakeThe, Step, Steps, The

LEMMA EglType == CreateEglContext \in Seq(Steps)
<1>1. \A kind \in {"display", "context", "pbuffer", "current"} :
        MakeThe(kind) \in Steps
  BY StepType, TheReleased
<1> QED BY <1>1, StepType DEF CreateEglContext

LEMMA ActionsType == CreateActions \in Seq(Steps)
<1>1. \A i \in Inputs : Make("action", i) \in Steps
  BY StepType, OtherReleased
<1>2. \A kind \in {"grip", "aim"}, eye \in Eyes : Make(kind, eye) \in Steps
  BY StepType, EyeReleased
<1>3. MakeThe("actionSet") \in Steps
  BY StepType, TheReleased
<1> QED BY <1>1, <1>2, <1>3, StepType DEF CreateActions, Inputs, Eyes

LEMMA SwapchainsType == CreateSwapchains \in Seq(Steps)
<1> DEFINE chains == [i \in 1..2 * Views |->
                        IF i % 2 = 1 THEN Make("swapchain", (i + 1) \div 2)
                                     ELSE Check]
<1>1. ASSUME NEW i \in 1..2 * Views, i % 2 = 1
      PROVE  Make("swapchain", (i + 1) \div 2) \in Steps
  <2>1. (i + 1) \div 2 \in 1..Views
    BY <1>1, ViewsAssumption
  <2> QED BY <2>1, StepType, OtherReleased
<1>2. chains \in [1..2 * Views -> Steps]
  BY <1>1, StepType
<1>3. chains \in Seq(Steps)
  <2>1. 2 * Views \in Nat
    BY ViewsAssumption
  <2> QED BY <1>2, <2>1
<1>4. <<Check>> \in Seq(Steps)
  BY StepType
<1> QED BY <1>3, <1>4, ConcatProperties DEF CreateSwapchains

LEMMA ProgramsType == CreatePrograms \in Seq(Steps)
<1>1. Step({The("videoTextures")}, {<<"program", "video">>}) \in Steps
  BY StepType, TheReleased, OtherReleased
<1>2. \A p \in {"external", "waiting"} : Make("program", p) \in Steps
  BY StepType, OtherReleased
<1> QED BY <1>1, <1>2 DEF CreatePrograms

LEMMA InitializeType == Initialize \in Seq(Steps)
<1>1. \A kind \in {"instance", "session", "space", "framebuffer"} :
        MakeThe(kind) \in Steps
  BY StepType, TheReleased
<1>2. /\ <<MakeThe("instance"), Check>> \in Seq(Steps)
      /\ <<Check, MakeThe("session"), MakeThe("space")>> \in Seq(Steps)
      /\ <<MakeThe("framebuffer")>> \in Seq(Steps)
  BY <1>1, StepType
<1> QED
  BY <1>2, EglType, ActionsType, SwapchainsType, ProgramsType, ConcatProperties
     DEF Initialize

LEMMA CodecType == CreateCodecSurfaceResources \in Seq(Steps)
<1>1. \A kind \in {"texture", "surface", "window"}, eye \in Eyes :
        Make(kind, eye) \in Steps
  BY StepType, EyeReleased
<1>2. Step({The("codecTextures")}, {<<"texture", "left">>}) \in Steps
  BY StepType, TheReleased, EyeReleased DEF Eyes
<1>3. MakeThe("bridgeClass") \in Steps
  BY StepType, TheReleased
<1> QED
  BY <1>1, <1>2, <1>3, StepType DEF CreateCodecSurfaceResources, Eyes

-----------------------------------------------------------------------------
(* What may exist at each place, and during cleanup() that what the entries *)
(* already passed release is gone.                                         *)
Thread == {The("attached"), The("activity")}

Where ==
  /\ at \in Nat \ {0}
  /\ held \subseteq Released \union Thread
  /\ pc \in {"stopped", "attach", "initialize", "codec", "loop", "cleanup",
            "detach", "ended"}

Gone ==
  /\ pc = "stopped" => held = {}
  /\ pc \in {"attach", "ended"} => held \subseteq {The("activity")}
  /\ pc = "detach" => held \subseteq Thread
  /\ pc = "cleanup" =>
       at <= 22 /\ \A k \in 1..21 : k < at => held \intersect Cleanup[k] = {}

Left == Where /\ Gone

(* A step of a table adds what cleanup() releases. *)
LEMMA CreateLeft ==
  ASSUME NEW table \in Seq(Steps), NEW here \in {"initialize", "codec"},
         NEW failed \in {"cleanup", "loop"}, NEW done \in {"codec", "loop"},
         Left, Create(here, table, failed, done)
  PROVE  Left'
<1>1. CASE pc = here /\ at <= Len(table)
                 /\ held' = held \union table[at].sure \union table[at].made
                 /\ at' = at + 1 /\ UNCHANGED pc
  <2>1. table[at] \in Steps
    BY <1>1 DEF Left, Where
  <2>2. table[at].sure \subseteq Released /\ table[at].made \subseteq Released
    BY <2>1 DEF Steps
  <2> QED BY <1>1, <2>2 DEF Left, Where, Gone
<1>2. CASE pc = here /\ at <= Len(table)
                 /\ held' = held \union table[at].sure /\ Goto(here, failed)
  <2>1. table[at] \in Steps
    BY <1>2 DEF Left, Where
  <2>2. table[at].sure \subseteq Released
    BY <2>1 DEF Steps
  <2> QED BY <1>2, <2>2 DEF Left, Where, Gone, Goto
<1>3. CASE Goto(here, done) /\ UNCHANGED held
  BY <1>3 DEF Left, Where, Gone, Goto
<1> QED BY <1>1, <1>2, <1>3 DEF Create

(* A step of cleanup() leaves nothing of its entry; after the last nothing  *)
(* but the thread's attachment and the activity is left.                    *)
LEMMA CleanupLeft == ASSUME Left, CleanupStep PROVE Left'
<1>1. Len(Cleanup) = 21
  BY CleanupEntries
<1>2. CASE pc = "cleanup" /\ at <= Len(Cleanup)
           /\ held' = held \ Cleanup[at] /\ at' = at + 1 /\ UNCHANGED pc
  <2>1. Where'
    BY <1>2 DEF Left, Where
  <2>2. ASSUME NEW k \in 1..21, k < at'
        PROVE  held' \intersect Cleanup[k] = {}
    <3>1. CASE k = at
      BY <1>2, <3>1
    <3>2. CASE k # at
      <4>1. k < at
        BY <1>2, <2>2, <3>2 DEF Left, Where
      <4>2. held \intersect Cleanup[k] = {}
        BY <1>2, <4>1 DEF Left, Gone
      <4> QED BY <1>2, <4>2
    <3> QED BY <3>1, <3>2
  <2>3. at' <= 22
    BY <1>1, <1>2 DEF Left, Where
  <2> QED BY <1>2, <2>1, <2>2, <2>3 DEF Left, Gone
<1>3. CASE at > Len(Cleanup) /\ Goto("cleanup", "detach") /\ UNCHANGED held
  <2>1. \A k \in 1..21 : held \intersect Cleanup[k] = {}
    BY <1>1, <1>3 DEF Left, Where, Gone, Goto
  <2>2. held \subseteq Thread
    BY <2>1 DEF Left, Where, Released
  <2> QED BY <1>3, <2>2 DEF Left, Where, Gone, Goto
<1> QED BY <1>2, <1>3 DEF CleanupStep

LEMMA LeftInit == Init => Left
BY DEF Init, Left, Where, Gone

LEMMA LeftStep == Left /\ [Next]_vars => Left'
<1> SUFFICES ASSUME Left, [Next]_vars PROVE Left'
  OBVIOUS
<1>1. CASE StartOpenXr
  BY <1>1 DEF StartOpenXr, Goto, Left, Where, Gone, Thread
<1>2. CASE Attach
  BY <1>2 DEF Attach, Goto, Left, Where, Gone, Thread
<1>3. CASE InitializeStep
  BY <1>3, CreateLeft, InitializeType DEF InitializeStep
<1>4. CASE CodecStep
  BY <1>4, CreateLeft, CodecType DEF CodecStep
<1>5. CASE Leave
  BY <1>5 DEF Leave, Goto, Left, Where, Gone
<1>6. CASE CleanupStep
  BY <1>6, CleanupLeft
<1>7. CASE Detach
  BY <1>7 DEF Detach, Goto, Left, Where, Gone, Thread
<1>8. CASE StopOpenXr
  BY <1>8 DEF StopOpenXr, Goto, Left, Where, Gone
<1>9. CASE UNCHANGED vars
  BY <1>9 DEF vars, Left, Where, Gone
<1> QED
  BY <1>1, <1>2, <1>3, <1>4, <1>5, <1>6, <1>7, <1>8, <1>9 DEF Next

(* Wherever initialize() or the codec surfaces fail, nothing is left when  *)
(* stopOpenXr() returns, for any number of views of the runtime             *)
(* (initialize 126-237, cleanup 1033-1132).                                 *)
THEOREM NothingIsLeft == Spec => []NothingLeft
<1>1. Left => NothingLeft
  BY DEF Left, Gone, NothingLeft
<1> QED BY <1>1, LeftInit, LeftStep, PTL DEF Spec

-----------------------------------------------------------------------------
(* The order of release.  Rank is the entry of Cleanup that releases r.     *)
Rank(r) ==
  CASE r[1] = "surface" -> 1
    [] r[1] = "texture" -> 2
    [] r[1] = "bridgeClass" -> 3
    [] r[1] = "window" -> 4
    [] r[1] = "program" ->
         CASE r[2] = "external" -> 5 [] r[2] = "waiting" -> 6 [] OTHER -> 7
    [] r[1] = "codecTextures" -> 8
    [] r[1] = "videoTextures" -> 9
    [] r[1] = "framebuffer" -> 10
    [] r[1] = "swapchain" -> 11
    [] r[1] = "space" -> 12
    [] r[1] \in {"grip", "aim"} -> 13
    [] r[1] = "action" -> 14
    [] r[1] = "actionSet" -> 15
    [] r[1] = "session" -> 16
    [] r[1] = "instance" -> 17
    [] r[1] = "current" -> 18
    [] r[1] = "pbuffer" -> 19
    [] r[1] = "context" -> 20
    [] r[1] = "display" -> 21
    [] OTHER -> 22

LEMMA EntryRank ==
  ASSUME NEW k \in 1..21, NEW r \in Cleanup[k]
  PROVE  Rank(r) = k
<1>1. CASE k = 1
  BY <1>1, CleanupEntries DEF Rank
<1>2. CASE k = 2
  BY <1>2, CleanupEntries DEF Rank
<1>3. CASE k = 3
  BY <1>3, CleanupEntries DEF Rank, The
<1>4. CASE k = 4
  BY <1>4, CleanupEntries DEF Rank
<1>5. CASE k = 5
  BY <1>5, CleanupEntries DEF Rank
<1>6. CASE k = 6
  BY <1>6, CleanupEntries DEF Rank
<1>7. CASE k = 7
  BY <1>7, CleanupEntries DEF Rank
<1>8. CASE k \in {8, 9, 10}
  BY <1>8, CleanupEntries DEF Rank, The
<1>9. CASE k = 11
  BY <1>9, CleanupEntries DEF Rank
<1>10. CASE k = 12
  BY <1>10, CleanupEntries DEF Rank, The
<1>11. CASE k = 13
  BY <1>11, CleanupEntries DEF Rank
<1>12. CASE k = 14
  BY <1>12, CleanupEntries DEF Rank
<1>13. CASE k \in {15, 16, 17}
  BY <1>13, CleanupEntries DEF Rank, The
<1>14. CASE k \in {18, 19, 20, 21}
  BY <1>14, CleanupEntries DEF Rank, The
<1> QED
  BY <1>1, <1>2, <1>3, <1>4, <1>5, <1>6, <1>7, <1>8, <1>9, <1>10, <1>11, <1>12,
     <1>13, <1>14

(* What a resource needs is released after it: by a later entry, or it is   *)
(* of those that cleanup() does not release.                               *)
LEMMA NeedsRank ==
  ASSUME NEW k \in 1..21, NEW r \in Cleanup[k], NEW n \in Needs(r)
  PROVE  Rank(n) \in Nat /\ Rank(n) > k
<1>1. CASE k = 1
  BY <1>1, CleanupEntries DEF Rank, Needs, The
<1>2. CASE k = 2
  BY <1>2, CleanupEntries DEF Rank, Needs, The
<1>3. CASE k = 3
  BY <1>3, CleanupEntries DEF Rank, Needs, The
<1>4. CASE k = 4
  BY <1>4, CleanupEntries DEF Rank, Needs, The
<1>5. CASE k \in {5, 6, 7}
  BY <1>5, CleanupEntries DEF Rank, Needs, The
<1>6. CASE k \in {8, 9, 10}
  BY <1>6, CleanupEntries DEF Rank, Needs, The
<1>7. CASE k = 11
  BY <1>7, CleanupEntries DEF Rank, Needs, The
<1>8. CASE k = 12
  BY <1>8, CleanupEntries DEF Rank, Needs, The
<1>9. CASE k = 13
  BY <1>9, CleanupEntries DEF Rank, Needs, The
<1>10. CASE k = 14
  BY <1>10, CleanupEntries DEF Rank, Needs, The
<1>11. CASE k \in {15, 16}
  BY <1>11, CleanupEntries DEF Rank, Needs, The
<1>12. CASE k = 17
  BY <1>12, CleanupEntries DEF Rank, Needs, The
<1>13. CASE k \in {18, 19, 20, 21}
  BY <1>13, CleanupEntries DEF Rank, Needs, The
<1> QED
  BY <1>1, <1>2, <1>3, <1>4, <1>5, <1>6, <1>7, <1>8, <1>9, <1>10, <1>11, <1>12,
     <1>13

LEMMA ThreadNeeds == \A r \in Thread : Needs(r) = {}
BY DEF Thread, Needs, The

-----------------------------------------------------------------------------
(* The order of creation.  A step stands on base if what it makes needs     *)
(* nothing but base and what the step makes itself; a table is sound if     *)
(* each step stands on base and the steps before it.                        *)
Gives(step) == step.sure \union step.made
Stands(step, base) ==
  /\ \A r \in step.sure : Needs(r) \subseteq base \union step.sure
  /\ \A r \in step.made : Needs(r) \subseteq base \union Gives(step)

Given(table, n) == UNION {Gives(table[j]) : j \in 1..n}
Provided(table) == Given(table, Len(table))
Sound(table, base) ==
  \A k \in 1..Len(table) : Stands(table[k], base \union Given(table, k - 1))

LEMMA StandsOnMore ==
  ASSUME NEW step, NEW base, NEW more, Stands(step, base), base \subseteq more
  PROVE  Stands(step, more)
BY DEF Stands

(* A table that needs no more than its base and what another table provides *)
(* may follow that one.                                                    *)
LEMMA SoundConcat ==
  ASSUME NEW s \in Seq(Steps), NEW t \in Seq(Steps), NEW base, NEW needed,
         Sound(s, base), Sound(t, needed), needed \subseteq base \union Provided(s)
  PROVE  /\ s \o t \in Seq(Steps)
         /\ Sound(s \o t, base)
         /\ Provided(s \o t) = Provided(s) \union Provided(t)
<1> DEFINE m == Len(s)
           n == Len(t)
           u == s \o t
<1>1. /\ m \in Nat /\ n \in Nat /\ u \in Seq(Steps) /\ Len(u) = m + n
      /\ \A k \in 1..m : u[k] = s[k]
      /\ \A k \in 1..n : u[m + k] = t[k]
  BY ConcatProperties
<1> HIDE DEF u, m, n
<1>2. Provided(s) = Given(s, m) /\ Provided(t) = Given(t, n) /\ Provided(u) = Given(u, m + n)
  BY <1>1 DEF Provided, m, n
<1>3. \A k \in 0..m : Given(u, k) = Given(s, k)
  BY <1>1 DEF Given
<1>4. \A k \in 0..n : Given(u, m + k) = Given(s, m) \union Given(t, k)
  <2> SUFFICES ASSUME NEW k \in 0..n
               PROVE  Given(u, m + k) = Given(s, m) \union Given(t, k)
    OBVIOUS
  <2>1. ASSUME NEW r \in Given(u, m + k) PROVE r \in Given(s, m) \union Given(t, k)
    <3>1. PICK j \in 1..m + k : r \in Gives(u[j])
      BY <2>1 DEF Given
    <3>2. CASE j <= m
      BY <1>1, <3>1, <3>2 DEF Given
    <3>3. CASE j > m
      <4>1. j - m \in 1..k /\ u[j] = t[j - m]
        <5>1. j - m \in 1..n /\ j - m \in 1..k
          BY <1>1, <3>3
        <5>2. u[m + (j - m)] = t[j - m]
          BY <1>1, <5>1
        <5>3. m + (j - m) = j
          BY <1>1
        <5> QED BY <5>1, <5>2, <5>3
      <4> QED BY <3>1, <4>1 DEF Given
    <3> QED BY <1>1, <3>2, <3>3
  <2>2. ASSUME NEW r \in Given(s, m) PROVE r \in Given(u, m + k)
    <3>1. PICK j \in 1..m : r \in Gives(s[j])
      BY <2>2 DEF Given
    <3>2. j \in 1..m + k /\ u[j] = s[j]
      BY <1>1
    <3> QED BY <3>1, <3>2 DEF Given
  <2>3. ASSUME NEW r \in Given(t, k) PROVE r \in Given(u, m + k)
    <3>1. PICK j \in 1..k : r \in Gives(t[j])
      BY <2>3 DEF Given
    <3>2. m + j \in 1..m + k /\ u[m + j] = t[j]
      BY <1>1
    <3> QED BY <3>1, <3>2 DEF Given
  <2> QED BY <2>1, <2>2, <2>3
<1>5. Provided(u) = Provided(s) \union Provided(t)
  BY <1>1, <1>2, <1>4
<1>6. ASSUME NEW k \in 1..m + n
      PROVE  Stands(u[k], base \union Given(u, k - 1))
  <2>1. CASE k <= m
    <3>1. k \in 1..m /\ k - 1 \in 0..m
      BY <1>1, <2>1
    <3>2. Stands(s[k], base \union Given(s, k - 1))
      BY <3>1 DEF Sound, m
    <3> QED BY <1>1, <1>3, <3>1, <3>2
  <2>2. CASE k > m
    <3> DEFINE j == k - m
    <3>1. j \in 1..n /\ j - 1 \in 0..n /\ m + j = k /\ m + (j - 1) = k - 1
      BY <1>1, <2>2
    <3> HIDE DEF j
    <3>2. Stands(t[j], needed \union Given(t, j - 1))
      BY <3>1 DEF Sound, n
    <3>3. u[k] = t[j]
      BY <1>1, <3>1
    <3>4. Given(u, k - 1) = Given(s, m) \union Given(t, j - 1)
      BY <1>4, <3>1
    <3>5. needed \union Given(t, j - 1) \subseteq base \union Given(u, k - 1)
      BY <1>2, <3>4
    <3> QED BY <3>2, <3>3, <3>5, StandsOnMore
  <2> QED BY <1>1, <2>1, <2>2
<1>7. Sound(u, base)
  BY <1>1, <1>6 DEF Sound
<1> QED BY <1>1, <1>5, <1>7 DEF u

(* A table of one step is sound if the step stands on the base; a table may *)
(* be put together from its steps.                                         *)
LEMMA StandsMake ==
  /\ \A kind, which, base :
       Needs(<<kind, which>>) \subseteq base => Stands(Make(kind, which), base)
  /\ \A kind, base :
       Needs(The(kind)) \subseteq base => Stands(MakeThe(kind), base)
  /\ \A base : Stands(Check, base)
  /\ \A sure, made, base :
       Needs(sure) \union Needs(made) \subseteq base \union {sure}
         => Stands(Step({sure}, {made}), base)
BY DEF Stands, Make, MakeThe, Check, Step, Gives

LEMMA GivesMake ==
  /\ \A kind, which : Gives(Make(kind, which)) = {<<kind, which>>}
  /\ \A kind : Gives(MakeThe(kind)) = {The(kind)}
  /\ Gives(Check) = {}
  /\ \A sure, made : Gives(Step({sure}, {made})) = {sure, made}
BY DEF Gives, Make, MakeThe, Check, Step, The

LEMMA GivenEarlier ==
  ASSUME NEW table, NEW n \in Nat, NEW j \in 1..n
  PROVE  Gives(table[j]) \subseteq Given(table, n)
BY DEF Given

LEMMA EglSound ==
  /\ Sound(CreateEglContext, {})
  /\ {The("display"), The("context"), The("pbuffer"), The("current")}
       \subseteq Provided(CreateEglContext)
<1> DEFINE t == CreateEglContext
<1>1. /\ Len(t) = 5 /\ t[1] = MakeThe("display") /\ t[2] = Check
      /\ t[3] = MakeThe("context") /\ t[4] = MakeThe("pbuffer")
      /\ t[5] = MakeThe("current")
  BY DEF CreateEglContext
<1> HIDE DEF t
<1>2. /\ The("display") \in Given(t, 2) /\ The("display") \in Given(t, 3)
      /\ The("context") \in Given(t, 4) /\ The("pbuffer") \in Given(t, 4)
  BY <1>1, GivesMake, GivenEarlier
<1>3. /\ Needs(The("display")) = {} /\ Needs(The("context")) = {The("display")}
      /\ Needs(The("pbuffer")) = {The("display")}
      /\ Needs(The("current")) = {The("context"), The("pbuffer")}
  BY DEF Needs, The
<1>4. ASSUME NEW k \in 1..5 PROVE Stands(t[k], {} \union Given(t, k - 1))
  <2>1. CASE k = 1
    BY <1>1, <1>3, <2>1, StandsMake
  <2>2. CASE k = 2
    BY <1>1, <2>2, StandsMake
  <2>3. CASE k = 3
    BY <1>1, <1>2, <1>3, <2>3, StandsMake
  <2>4. CASE k = 4
    BY <1>1, <1>2, <1>3, <2>4, StandsMake
  <2>5. CASE k = 5
    BY <1>1, <1>2, <1>3, <2>5, StandsMake
  <2> QED BY <2>1, <2>2, <2>3, <2>4, <2>5
<1>5. {The("display"), The("context"), The("pbuffer"), The("current")}
        \subseteq Given(t, 5)
  BY <1>1, GivesMake, GivenEarlier
<1> QED BY <1>1, <1>4, <1>5 DEF Sound, Provided, t

LEMMA InstanceSound ==
  LET t == <<MakeThe("instance"), Check>> IN
  /\ Sound(t, {The("activity")}) /\ The("instance") \in Provided(t)
<1> DEFINE t == <<MakeThe("instance"), Check>>
<1>1. Len(t) = 2 /\ t[1] = MakeThe("instance") /\ t[2] = Check
  OBVIOUS
<1> HIDE DEF t
<1>2. Needs(The("instance")) = {The("activity")}
  BY DEF Needs, The
<1>3. ASSUME NEW k \in 1..2
      PROVE  Stands(t[k], {The("activity")} \union Given(t, k - 1))
  BY <1>1, <1>2, StandsMake
<1>4. The("instance") \in Given(t, 2)
  BY <1>1, GivesMake, GivenEarlier
<1>5. Sound(t, {The("activity")}) /\ The("instance") \in Provided(t)
  BY <1>1, <1>3, <1>4 DEF Sound, Provided
<1> QED BY <1>5 DEF t

LEMMA SessionSound ==
  LET t == <<Check, MakeThe("session"), MakeThe("space")>> IN
  /\ Sound(t, {The("instance"), The("context")}) /\ The("session") \in Provided(t)
<1> DEFINE t == <<Check, MakeThe("session"), MakeThe("space")>>
           base == {The("instance"), The("context")}
<1>1. /\ Len(t) = 3 /\ t[1] = Check /\ t[2] = MakeThe("session")
      /\ t[3] = MakeThe("space")
  OBVIOUS
<1> HIDE DEF t
<1>2. Needs(The("session")) = base /\ Needs(The("space")) = {The("session")}
  BY DEF Needs, The
<1>3. The("session") \in Given(t, 2) /\ The("session") \in Given(t, 3)
  BY <1>1, GivesMake, GivenEarlier
<1>4. ASSUME NEW k \in 1..3 PROVE Stands(t[k], base \union Given(t, k - 1))
  <2> HIDE DEF base
  <2>1. CASE k = 1
    BY <1>1, <2>1, StandsMake
  <2>2. CASE k = 2
    BY <1>1, <1>2, <2>2, StandsMake
  <2>3. CASE k = 3
    BY <1>1, <1>2, <1>3, <2>3, StandsMake
  <2> QED BY <2>1, <2>2, <2>3
<1>5. Sound(t, base) /\ The("session") \in Provided(t)
  BY <1>1, <1>3, <1>4 DEF Sound, Provided
<1> QED BY <1>5 DEF t

LEMMA ActionsSound ==
  Sound(CreateActions, {The("session"), The("instance")})
<1> DEFINE t == CreateActions
           base == {The("session"), The("instance")}
<1>1. Len(t) = 14 /\ t[1] = Check /\ t[2] = MakeThe("actionSet")
  BY DEF CreateActions
<1>2. \A k \in 3..8 : \E i : t[k] = Make("action", i)
  <2>1. ASSUME NEW k \in 3..8 PROVE \E i : t[k] = Make("action", i)
    <3>1. k = 3 \/ k = 4 \/ k = 5 \/ k = 6 \/ k = 7 \/ k = 8
      OBVIOUS
    <3> QED BY <3>1 DEF CreateActions
  <2> QED BY <2>1
<1>3. \A k \in 9..14 : t[k] = Check \/ \E kind \in {"grip", "aim"} : \E i : t[k] = Make(kind, i)
  <2>1. ASSUME NEW k \in 9..14
        PROVE  t[k] = Check \/ \E kind \in {"grip", "aim"} : \E i : t[k] = Make(kind, i)
    <3>1. CASE k = 9 \/ k = 14
      BY <3>1 DEF CreateActions
    <3>2. CASE k = 10 \/ k = 11
      BY <3>2 DEF CreateActions
    <3>3. CASE k = 12 \/ k = 13
      BY <3>3 DEF CreateActions
    <3> QED BY <3>1, <3>2, <3>3
  <2> QED BY <2>1
<1> HIDE DEF t
<1>4. /\ Needs(The("actionSet")) = {The("instance")}
      /\ \A i : Needs(<<"action", i>>) = {The("actionSet")}
      /\ \A kind \in {"grip", "aim"} : \A i : Needs(<<kind, i>>) = {The("session")}
  BY DEF Needs, The
<1>5. \A n \in Nat : n >= 2 => The("actionSet") \in Given(t, n)
  BY <1>1, GivesMake, GivenEarlier
<1>6. ASSUME NEW k \in 1..14 PROVE Stands(t[k], base \union Given(t, k - 1))
  <2>1. CASE k = 1
    BY <1>1, <2>1, StandsMake
  <2>2. CASE k = 2
    <3>1. Needs(The("actionSet")) \subseteq base \union Given(t, k - 1)
      BY <1>4
    <3> QED BY <1>1, <2>2, <3>1, StandsMake
  <2>3. CASE k \in 3..8
    <3>1. PICK i : t[k] = Make("action", i)
      BY <1>2, <2>3
    <3>2. Needs(<<"action", i>>) \subseteq base \union Given(t, k - 1)
      BY <1>4, <1>5, <2>3
    <3> QED BY <3>1, <3>2, StandsMake
  <2>4. CASE k \in 9..14
    <3>1. CASE t[k] = Check
      BY <3>1, StandsMake
    <3>2. ASSUME NEW kind \in {"grip", "aim"}, NEW i, t[k] = Make(kind, i)
          PROVE  Stands(t[k], base \union Given(t, k - 1))
      <4>1. Needs(<<kind, i>>) \subseteq base \union Given(t, k - 1)
        BY <1>4
      <4> QED BY <3>2, <4>1, StandsMake
    <3> QED BY <1>3, <2>4, <3>1, <3>2
  <2> QED BY <2>1, <2>2, <2>3, <2>4
<1>7. Sound(t, base)
  BY <1>1, <1>6 DEF Sound
<1> QED BY <1>7 DEF t

LEMMA SwapchainsSound == Sound(CreateSwapchains, {The("session")})
<1> DEFINE chains == [i \in 1..2 * Views |->
                        IF i % 2 = 1 THEN Make("swapchain", (i + 1) \div 2)
                                     ELSE Check]
           t == <<Check>> \o chains
<1>1. chains \in Seq(Steps) /\ Len(chains) = 2 * Views /\ <<Check>> \in Seq(Steps)
  <2>1. CreateSwapchains \in Seq(Steps)
    BY SwapchainsType
  <2>2. 2 * Views \in Nat
    BY ViewsAssumption
  <2>3. Len(chains) = 2 * Views /\ chains \in Seq({chains[i] : i \in 1..2 * Views})
    BY <2>2
  <2>4. \A i \in 1..2 * Views : chains[i] \in Steps
    <3>1. ASSUME NEW i \in 1..2 * Views, i % 2 = 1
          PROVE  Make("swapchain", (i + 1) \div 2) \in Steps
      <4>1. (i + 1) \div 2 \in 1..Views
        BY <3>1, ViewsAssumption
      <4> QED BY <4>1, StepType, OtherReleased
    <3> QED BY <3>1, StepType
  <2> QED BY <2>2, <2>3, <2>4, StepType
<1>2. \A which : Needs(<<"swapchain", which>>) = {The("session")}
  BY DEF Needs, The
<1>3. \A i \in 1..2 * Views :
        chains[i] = Check \/ \E which : chains[i] = Make("swapchain", which)
  OBVIOUS
<1> HIDE DEF chains
<1>4. ASSUME NEW k \in 1..Len(t)
      PROVE  Stands(t[k], {The("session")} \union Given(t, k - 1))
  <2>1. t[k] = Check \/ \E which : t[k] = Make("swapchain", which)
    <3>1. Len(t) = 1 + 2 * Views /\ 2 * Views \in Nat
      BY <1>1, ConcatProperties, ViewsAssumption
    <3>2. CASE k = 1
      BY <1>1, <3>2
    <3>3. CASE k > 1
      <4>1. k - 1 \in 1..2 * Views /\ t[k] = chains[k - 1]
        BY <1>1, <3>1, <3>3
      <4> QED BY <1>3, <4>1
    <3> QED BY <3>1, <3>2, <3>3
  <2>2. CASE t[k] = Check
    BY <2>2, StandsMake
  <2>3. ASSUME NEW which, t[k] = Make("swapchain", which)
        PROVE  Stands(t[k], {The("session")} \union Given(t, k - 1))
    <3>1. Needs(<<"swapchain", which>>) \subseteq {The("session")} \union Given(t, k - 1)
      BY <1>2
    <3> QED BY <2>3, <3>1, StandsMake
  <2> QED BY <2>1, <2>2, <2>3
<1>5. Sound(t, {The("session")})
  BY <1>4 DEF Sound
<1> QED BY <1>5 DEF CreateSwapchains, chains, t

LEMMA FramebufferSound == Sound(<<MakeThe("framebuffer")>>, {The("current")})
<1> DEFINE t == <<MakeThe("framebuffer")>>
<1>1. Len(t) = 1 /\ t[1] = MakeThe("framebuffer")
  OBVIOUS
<1> HIDE DEF t
<1>2. Needs(The("framebuffer")) = {The("current")}
  BY DEF Needs, The
<1>3. Stands(t[1], {The("current")} \union Given(t, 1 - 1))
  BY <1>1, <1>2, StandsMake
<1>4. Sound(t, {The("current")})
  BY <1>1, <1>3 DEF Sound
<1> QED BY <1>4 DEF t

LEMMA ProgramsSound == Sound(CreatePrograms, {The("current")})
<1> DEFINE t == CreatePrograms
           base == {The("current")}
<1>1. /\ Len(t) = 3 /\ t[1] = Step({The("videoTextures")}, {<<"program", "video">>})
      /\ t[2] = Make("program", "external") /\ t[3] = Make("program", "waiting")
  BY DEF CreatePrograms
<1> HIDE DEF t
<1>2. Needs(The("videoTextures")) = base /\ \A p : Needs(<<"program", p>>) = base
  BY DEF Needs, The
<1> HIDE DEF base
<1>3. ASSUME NEW k \in 1..3 PROVE Stands(t[k], base \union Given(t, k - 1))
  <2> DEFINE under == base \union Given(t, k - 1)
  <2>1. /\ Needs(The("videoTextures")) \subseteq under
        /\ \A p : Needs(<<"program", p>>) \subseteq under
    BY <1>2
  <2> HIDE DEF under
  <2>2. CASE k = 1
    <3>1. Stands(Step({The("videoTextures")}, {<<"program", "video">>}), under)
      BY <2>1, StandsMake
    <3> QED BY <1>1, <2>2, <3>1 DEF under
  <2>3. CASE k = 2 \/ k = 3
    <3>1. \A p : Stands(Make("program", p), under)
      BY <2>1, StandsMake
    <3> QED BY <1>1, <2>3, <3>1 DEF under
  <2> QED BY <2>2, <2>3
<1>4. Sound(t, base)
  BY <1>1, <1>3 DEF Sound
<1> QED BY <1>4 DEF t, base

LEMMA CodecSound ==
  Sound(CreateCodecSurfaceResources, {The("attached"), The("current")})
<1> DEFINE t == CreateCodecSurfaceResources
           base == {The("attached"), The("current")}
<1>1. /\ Len(t) = 8 /\ t[1] = MakeThe("bridgeClass") /\ t[2] = Check
      /\ t[3] = Step({The("codecTextures")}, {<<"texture", "left">>})
  BY DEF CreateCodecSurfaceResources
<1>2. \A k \in 4..8 :
        \E kind \in {"surface", "window", "texture"}, i \in {"left", "right"} :
          t[k] = Make(kind, i)
  <2>1. ASSUME NEW k \in 4..8
        PROVE  \E kind \in {"surface", "window", "texture"}, i \in {"left", "right"} :
                 t[k] = Make(kind, i)
    <3>1. CASE k = 4 \/ k = 7
      BY <3>1 DEF CreateCodecSurfaceResources
    <3>2. CASE k = 5 \/ k = 8
      BY <3>2 DEF CreateCodecSurfaceResources
    <3>3. CASE k = 6
      BY <3>3 DEF CreateCodecSurfaceResources
    <3> QED BY <3>1, <3>2, <3>3
  <2> QED BY <2>1
<1> HIDE DEF t
<1>3. /\ Needs(The("bridgeClass")) = {The("attached")}
      /\ Needs(The("codecTextures")) = {The("current")}
      /\ \A kind \in {"surface", "texture"} : \A i :
           Needs(<<kind, i>>) = {The("bridgeClass")}
      /\ \A i : Needs(<<"window", i>>) = {}
  BY DEF Needs, The
<1>4. \A n \in Nat : n >= 1 => The("bridgeClass") \in Given(t, n)
  BY <1>1, GivesMake, GivenEarlier
<1>5. ASSUME NEW k \in 1..8 PROVE Stands(t[k], base \union Given(t, k - 1))
  <2>1. CASE k = 1
    <3>1. Needs(The("bridgeClass")) \subseteq base \union Given(t, k - 1)
      BY <1>3
    <3> QED BY <1>1, <2>1, <3>1, StandsMake
  <2>2. CASE k = 2
    BY <1>1, <2>2, StandsMake
  <2>3. CASE k = 3
    <3>1. /\ Needs(The("codecTextures")) \subseteq base \union Given(t, k - 1)
          /\ Needs(<<"texture", "left">>) \subseteq base \union Given(t, k - 1)
      BY <1>3, <1>4, <2>3
    <3> QED BY <1>1, <2>3, <3>1, StandsMake
  <2>4. CASE k \in 4..8
    <3>1. PICK kind \in {"surface", "window", "texture"}, i \in {"left", "right"} :
            t[k] = Make(kind, i)
      BY <1>2, <2>4
    <3>2. Needs(<<kind, i>>) \subseteq base \union Given(t, k - 1)
      BY <1>3, <1>4, <2>4
    <3> QED BY <3>1, <3>2, StandsMake
  <2> QED BY <2>1, <2>2, <2>3, <2>4
<1>6. Sound(t, base)
  BY <1>1, <1>5 DEF Sound
<1> QED BY <1>6 DEF t

(* initialize() stands on the activity, and makes a context current; the    *)
(* codec surfaces stand on that and the attached thread.                   *)
LEMMA InitializeSound ==
  /\ Sound(Initialize, {The("activity")})
  /\ The("current") \in Provided(Initialize)
<1> DEFINE base == {The("activity")}
           a == <<MakeThe("instance"), Check>>
           b == CreateEglContext
           c == <<Check, MakeThe("session"), MakeThe("space")>>
           d == CreateActions
           e == CreateSwapchains
           f == <<MakeThe("framebuffer")>>
           g == CreatePrograms
<1>1. /\ a \in Seq(Steps) /\ c \in Seq(Steps) /\ f \in Seq(Steps)
      /\ b \in Seq(Steps) /\ d \in Seq(Steps) /\ e \in Seq(Steps)
      /\ g \in Seq(Steps)
  <2>1. \A kind \in {"instance", "session", "space", "framebuffer"} :
          MakeThe(kind) \in Steps
    BY StepType, TheReleased
  <2> QED BY <2>1, StepType, EglType, ActionsType, SwapchainsType, ProgramsType
<1>2. /\ Sound(a, base) /\ The("instance") \in Provided(a)
      /\ Sound(b, {}) /\ {The("context"), The("current")} \subseteq Provided(b)
      /\ Sound(c, {The("instance"), The("context")}) /\ The("session") \in Provided(c)
      /\ Sound(d, {The("session"), The("instance")})
      /\ Sound(e, {The("session")})
      /\ Sound(f, {The("current")}) /\ Sound(g, {The("current")})
  BY InstanceSound, EglSound, SessionSound, ActionsSound, SwapchainsSound,
     FramebufferSound, ProgramsSound
<1>3. Initialize = a \o b \o c \o d \o e \o f \o g
  BY DEF Initialize
<1> HIDE DEF a, b, c, d, e, f, g, base
<1> DEFINE ab == a \o b
           ac == ab \o c
           ad == ac \o d
           ae == ad \o e
           af == ae \o f
<1>4. /\ ab \in Seq(Steps) /\ Sound(ab, base)
      /\ {The("instance"), The("context"), The("current")} \subseteq Provided(ab)
  <2>1. /\ ab \in Seq(Steps) /\ Sound(ab, base)
        /\ Provided(ab) = Provided(a) \union Provided(b)
    BY <1>1, <1>2, SoundConcat
  <2> QED BY <1>2, <2>1
<1> HIDE DEF ab
<1>5. /\ ac \in Seq(Steps) /\ Sound(ac, base)
      /\ {The("instance"), The("session"), The("current")} \subseteq Provided(ac)
  <2>1. {The("instance"), The("context")} \subseteq base \union Provided(ab)
    BY <1>4
  <2>2. /\ ac \in Seq(Steps) /\ Sound(ac, base)
        /\ Provided(ac) = Provided(ab) \union Provided(c)
    BY <1>1, <1>2, <1>4, <2>1, SoundConcat
  <2> QED BY <1>2, <1>4, <2>2
<1> HIDE DEF ac
<1>6. /\ ad \in Seq(Steps) /\ Sound(ad, base)
      /\ {The("session"), The("current")} \subseteq Provided(ad)
  <2>1. {The("session"), The("instance")} \subseteq base \union Provided(ac)
    BY <1>5
  <2>2. /\ ad \in Seq(Steps) /\ Sound(ad, base)
        /\ Provided(ad) = Provided(ac) \union Provided(d)
    BY <1>1, <1>2, <1>5, <2>1, SoundConcat
  <2> QED BY <1>5, <2>2
<1> HIDE DEF ad
<1>7. ae \in Seq(Steps) /\ Sound(ae, base) /\ The("current") \in Provided(ae)
  <2>1. {The("session")} \subseteq base \union Provided(ad)
    BY <1>6
  <2>2. /\ ae \in Seq(Steps) /\ Sound(ae, base)
        /\ Provided(ae) = Provided(ad) \union Provided(e)
    BY <1>1, <1>2, <1>6, <2>1, SoundConcat
  <2> QED BY <1>6, <2>2
<1> HIDE DEF ae
<1>8. af \in Seq(Steps) /\ Sound(af, base) /\ The("current") \in Provided(af)
  <2>1. {The("current")} \subseteq base \union Provided(ae)
    BY <1>7
  <2>2. /\ af \in Seq(Steps) /\ Sound(af, base)
        /\ Provided(af) = Provided(ae) \union Provided(f)
    BY <1>1, <1>2, <1>7, <2>1, SoundConcat
  <2> QED BY <1>7, <2>2
<1> HIDE DEF af
<1>9. Sound(af \o g, base) /\ The("current") \in Provided(af \o g)
  <2>1. {The("current")} \subseteq base \union Provided(af)
    BY <1>8
  <2>2. /\ Sound(af \o g, base)
        /\ Provided(af \o g) = Provided(af) \union Provided(g)
    BY <1>1, <1>2, <1>8, <2>1, SoundConcat
  <2> QED BY <1>8, <2>2
<1> QED BY <1>3, <1>9 DEF base, ab, ac, ad, ae, af

-----------------------------------------------------------------------------
(* What exists stands; what the steps already passed give exists; and so    *)
(* do the activity and the attached thread, from startOpenXr and run() to    *)
(* stopOpenXr and the end of run().                                        *)
Surrounded ==
  /\ pc \notin {"stopped"} => The("activity") \in held
  /\ pc \in {"initialize", "codec", "loop", "cleanup", "detach"}
       => The("attached") \in held

Progress ==
  /\ pc = "initialize" =>
       at <= Len(Initialize) + 1 /\ Given(Initialize, at - 1) \subseteq held
  /\ pc = "codec" =>
       /\ at <= Len(CreateCodecSurfaceResources) + 1
       /\ The("current") \in held
       /\ Given(CreateCodecSurfaceResources, at - 1) \subseteq held

Built == Left /\ Surrounded /\ Progress /\ DependantsFirst

(* Adding what a step gives, or only what it makes sure, to what stands.    *)
LEMMA DependantsKept ==
  ASSUME NEW step, NEW base, Stands(step, base), base \subseteq held,
         DependantsFirst,
         \/ held' = held \union step.sure \union step.made
         \/ held' = held \union step.sure
  PROVE  DependantsFirst'
BY DEF DependantsFirst, Stands, Gives

(* A step of a sound table. *)
LEMMA CreateBuilt ==
  ASSUME NEW table \in Seq(Steps), NEW base, Sound(table, base), base \subseteq held,
         at \in 1..Len(table), Given(table, at - 1) \subseteq held,
         DependantsFirst,
         \/ held' = held \union table[at].sure \union table[at].made
         \/ held' = held \union table[at].sure
  PROVE  DependantsFirst'
<1>1. Stands(table[at], base \union Given(table, at - 1))
  BY DEF Sound
<1> QED BY <1>1, DependantsKept

LEMMA GivenNext ==
  ASSUME NEW table, NEW n \in Nat
  PROVE  Given(table, n + 1) = Given(table, n) \union Gives(table[n + 1])
<1>1. 1..n + 1 = 1..n \union {n + 1}
  OBVIOUS
<1> QED BY <1>1 DEF Given

LEMMA InitializeBuilt == ASSUME Built, InitializeStep PROVE Built'
<1> DEFINE table == Initialize
<1>1. table \in Seq(Steps) /\ Sound(table, {The("activity")})
      /\ The("current") \in Provided(table)
  BY InitializeType, InitializeSound
<1>2. Left'
  BY LeftStep DEF Built, Next
<1>3. pc = "initialize" /\ Create("initialize", table, "cleanup", "codec")
  BY DEF InitializeStep, Create, Goto
<1> HIDE DEF table
<1>4. /\ at \in Nat \ {0} /\ at <= Len(table) + 1 /\ Len(table) \in Nat
      /\ Given(table, at - 1) \subseteq held
      /\ {The("activity"), The("attached")} \subseteq held
  BY <1>1, <1>3 DEF Built, Progress, Surrounded, Left, Where, table
<1>5. CASE at <= Len(table) /\ held' = held \union table[at].sure \union table[at].made
           /\ at' = at + 1 /\ UNCHANGED pc
  <2>1. DependantsFirst'
    BY <1>1, <1>4, <1>5, CreateBuilt DEF Built
  <2>2. Surrounded'
    BY <1>5 DEF Built, Surrounded
  <2>3. Given(table, at' - 1) \subseteq held'
    <3>1. Given(table, at - 1 + 1) = Given(table, at - 1) \union Gives(table[at - 1 + 1])
      BY <1>4, GivenNext
    <3>2. at - 1 + 1 = at /\ at' - 1 = at
      BY <1>4, <1>5
    <3> QED BY <1>4, <1>5, <3>1, <3>2 DEF Gives
  <2>4. Progress'
    BY <1>3, <1>4, <1>5, <2>3 DEF Progress, table
  <2> QED BY <1>2, <2>1, <2>2, <2>4 DEF Built
<1>6. CASE at <= Len(table) /\ held' = held \union table[at].sure
           /\ Goto("initialize", "cleanup")
  <2>1. DependantsFirst'
    BY <1>1, <1>4, <1>6, CreateBuilt DEF Built
  <2>2. Surrounded' /\ Progress'
    BY <1>4, <1>6 DEF Surrounded, Progress, Goto
  <2> QED BY <1>2, <2>1, <2>2 DEF Built
<1>7. CASE at > Len(table) /\ Goto("initialize", "codec") /\ UNCHANGED held
  <2>1. at - 1 = Len(table)
    BY <1>4, <1>7
  <2>2. The("current") \in held
    BY <1>1, <1>4, <2>1 DEF Provided
  <2>3. Given(CreateCodecSurfaceResources, 0) = {}
    BY DEF Given
  <2>4. 1 <= Len(CreateCodecSurfaceResources) + 1
    BY CodecType
  <2>5. Progress'
    BY <1>7, <2>2, <2>3, <2>4 DEF Progress, Goto
  <2>6. Surrounded' /\ DependantsFirst'
    BY <1>4, <1>7 DEF Built, Surrounded, Goto, DependantsFirst
  <2> QED BY <1>2, <2>5, <2>6 DEF Built
<1> QED BY <1>3, <1>5, <1>6, <1>7 DEF Create

LEMMA CodecBuilt == ASSUME Built, CodecStep PROVE Built'
<1> DEFINE table == CreateCodecSurfaceResources
           base == {The("attached"), The("current")}
<1>1. table \in Seq(Steps) /\ Sound(table, base)
  BY CodecType, CodecSound
<1>2. Left'
  BY LeftStep DEF Built, Next
<1>3. pc = "codec" /\ Create("codec", table, "loop", "loop")
  BY DEF CodecStep, Create, Goto
<1> HIDE DEF table
<1>4. /\ at \in Nat \ {0} /\ at <= Len(table) + 1 /\ Len(table) \in Nat
      /\ Given(table, at - 1) \subseteq held /\ base \subseteq held
      /\ {The("activity"), The("attached"), The("current")} \subseteq held
  BY <1>1, <1>3 DEF Built, Progress, Surrounded, Left, Where, table
<1> HIDE DEF base
<1>5. CASE at <= Len(table) /\ held' = held \union table[at].sure \union table[at].made
           /\ at' = at + 1 /\ UNCHANGED pc
  <2>1. DependantsFirst'
    BY <1>1, <1>4, <1>5, CreateBuilt DEF Built
  <2>2. Surrounded'
    BY <1>5 DEF Built, Surrounded
  <2>3. Given(table, at' - 1) \subseteq held'
    <3>1. Given(table, at - 1 + 1) = Given(table, at - 1) \union Gives(table[at - 1 + 1])
      BY <1>4, GivenNext
    <3>2. at - 1 + 1 = at /\ at' - 1 = at
      BY <1>4, <1>5
    <3> QED BY <1>4, <1>5, <3>1, <3>2 DEF Gives
  <2>4. Progress'
    BY <1>3, <1>4, <1>5, <2>3 DEF Progress, table
  <2> QED BY <1>2, <2>1, <2>2, <2>4 DEF Built
<1>6. CASE at <= Len(table) /\ held' = held \union table[at].sure
           /\ Goto("codec", "loop")
  <2>1. DependantsFirst'
    BY <1>1, <1>4, <1>6, CreateBuilt DEF Built
  <2>2. Surrounded' /\ Progress'
    BY <1>4, <1>6 DEF Surrounded, Progress, Goto
  <2> QED BY <1>2, <2>1, <2>2 DEF Built
<1>7. CASE at > Len(table) /\ Goto("codec", "loop") /\ UNCHANGED held
  <2>1. Surrounded' /\ Progress' /\ DependantsFirst'
    BY <1>4, <1>7 DEF Built, Surrounded, Progress, Goto, DependantsFirst
  <2> QED BY <1>2, <2>1 DEF Built
<1> QED BY <1>3, <1>5, <1>6, <1>7 DEF Create

-----------------------------------------------------------------------------
(* cleanup(): what a resource that remains needs is of a later entry.       *)
LEMMA CleanupBuilt == ASSUME Built, CleanupStep PROVE Built'
<1>1. Left'
  BY LeftStep DEF Built, Next
<1>2. Len(Cleanup) = 21 /\ pc = "cleanup" /\ at \in Nat \ {0}
  BY CleanupEntries DEF CleanupStep, Goto, Built, Left, Where
<1>3. CASE at <= Len(Cleanup) /\ held' = held \ Cleanup[at] /\ at' = at + 1
           /\ UNCHANGED pc
  <2>1. at \in 1..21
    BY <1>2, <1>3
  <2>2. ASSUME NEW r \in held', NEW n \in Needs(r) PROVE n \in held'
    <3>1. r \in held /\ r \notin Cleanup[at] /\ n \in held
      BY <1>3, <2>2 DEF Built, DependantsFirst
    <3>2. r \notin Thread
      BY <2>2, ThreadNeeds
    <3>3. PICK j \in 1..21 : r \in Cleanup[j]
      BY <3>1, <3>2 DEF Built, Left, Where, Released
    <3>4. j > at
      <4>1. ~(j < at)
        BY <1>2, <3>1, <3>3 DEF Built, Left, Gone
      <4> QED BY <2>1, <3>1, <3>3, <4>1
    <3>5. Rank(n) \in Nat /\ Rank(n) > j
      BY <3>3, NeedsRank
    <3>6. n \notin Cleanup[at]
      <4>1. n \in Cleanup[at] => Rank(n) = at
        BY <2>1, EntryRank
      <4> QED BY <2>1, <3>4, <3>5, <4>1
    <3> QED BY <1>3, <3>1, <3>6
  <2>3. ASSUME NEW r \in Thread PROVE r \notin Cleanup[at]
    <3>1. Rank(r) = 22
      BY DEF Thread, Rank, The
    <3>2. r \in Cleanup[at] => Rank(r) = at
      BY <2>1, EntryRank
    <3> QED BY <2>1, <3>1, <3>2
  <2>4. Surrounded' /\ Progress'
    BY <1>2, <1>3, <2>3 DEF Built, Surrounded, Progress, Thread
  <2> QED BY <1>1, <2>2, <2>4 DEF Built, DependantsFirst
<1>4. CASE at > Len(Cleanup) /\ Goto("cleanup", "detach") /\ UNCHANGED held
  BY <1>1, <1>4 DEF Built, Surrounded, Progress, DependantsFirst, Goto
<1> QED BY <1>2, <1>3, <1>4 DEF CleanupStep

LEMMA BuiltInit == Init => Built
BY LeftInit DEF Init, Built, Surrounded, Progress, DependantsFirst

LEMMA BuiltStep == Built /\ [Next]_vars => Built'
<1> SUFFICES ASSUME Built, [Next]_vars PROVE Built'
  OBVIOUS
<1>0. Left'
  BY LeftStep DEF Built
<1>1. CASE StartOpenXr
  BY <1>0, <1>1, ThreadNeeds
     DEF StartOpenXr, Goto, Built, Surrounded, Progress, DependantsFirst, Thread
<1>2. CASE Attach
  <2>1. Given(Initialize, 0) = {} /\ Len(Initialize) \in Nat
    BY InitializeType DEF Given
  <2>2. Progress'
    BY <1>2, <2>1 DEF Attach, Goto, Progress
  <2> QED BY <1>0, <1>2, <2>2, ThreadNeeds
     DEF Attach, Goto, Built, Surrounded, DependantsFirst, Thread
<1>3. CASE InitializeStep
  BY <1>3, InitializeBuilt
<1>4. CASE CodecStep
  BY <1>4, CodecBuilt
<1>5. CASE Leave
  BY <1>0, <1>5 DEF Leave, Goto, Built, Surrounded, Progress, DependantsFirst
<1>6. CASE CleanupStep
  BY <1>6, CleanupBuilt
<1>7. CASE Detach \/ StopOpenXr
  <2>1. held \subseteq Thread
    BY <1>7 DEF Detach, StopOpenXr, Goto, Built, Left, Gone, Thread
  <2>2. DependantsFirst'
    BY <1>7, <2>1, ThreadNeeds DEF Detach, StopOpenXr, DependantsFirst
  <2>3. The("activity") # The("attached")
    BY DEF The
  <2> QED BY <1>0, <1>7, <2>2, <2>3
     DEF Detach, StopOpenXr, Goto, Built, Surrounded, Progress
<1>8. CASE UNCHANGED vars
  BY <1>0, <1>8 DEF vars, Built, Surrounded, Progress, DependantsFirst
<1> QED
  BY <1>1, <1>2, <1>3, <1>4, <1>5, <1>6, <1>7, <1>8 DEF Next

(* No resource is released while another that needs it exists, and none is  *)
(* made before what it needs: wherever initialize(), the codec surfaces or  *)
(* the attachment fail, for any number of views of the runtime (initialize  *)
(* 126-237, cleanup 1033-1132).                                            *)
THEOREM DependantsComeFirst == Spec => []DependantsFirst
<1>1. Built => DependantsFirst
  BY DEF Built
<1> QED BY <1>1, BuiltInit, BuiltStep, PTL DEF Spec
=============================================================================
