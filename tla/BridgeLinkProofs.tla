-------------------------- MODULE BridgeLinkProofs --------------------------
(***************************************************************************)
(* Theorems about BridgeLink, for any number of connections, any size of   *)
(* the buffers and any number of poses: its type, that no connection is    *)
(* leaked or out of send()'s reach, that the host sees poses in order, and *)
(* that nothing opens a closed ring of blocked writes; and about what      *)
(* travels on it (WireFormat), for any data: the parsers read the same of  *)
(* any text in the senders' form, and any stream of packets arrives        *)
(* however recv() cuts it.                                                 *)
(*                                                                         *)
(* A lemma for each part of the invariant has a case for every action that *)
(* touches the part, and one for all the others.  The loops of WireFormat  *)
(* are functions of the step, Runs; what holds of every step of such a     *)
(* function holds of its end, or there would be a least step it fails at.  *)
(***************************************************************************)
EXTENDS MCBridgeLink, SequenceTheorems, WellFoundedInduction, TLAPS

-----------------------------------------------------------------------------
(* TypeOK in four parts. *)
TypeHost ==
  /\ h264 \in BOOLEAN
  /\ main \in {"start", "run", "joinVideo", "lock", "listen", "join", "done"}
  /\ gRunning \in BOOLEAN /\ running \in BOOLEAN /\ lsock \in {"none", "listen", "closed"}
  /\ clientFd \in 0..MaxConn /\ mutex \in {"free", "video", "worker"}
  /\ vpc \in {"top", "lock", "write", "off"}
  /\ wpc \in {"top", "accept", "publish", "loop", "read", "handle", "lock",
              "write", "leave", "off"}
  /\ wfd \in 0..MaxConn /\ got \in 0..MaxPose
  /\ (vpc = "write") <=> (mutex = "video")
  /\ (wpc = "write") <=> (mutex = "worker")
TypeNet ==
  /\ sock \in [Conns -> {"none", "backlog", "open", "closed"}]
  /\ peer \in [Conns -> {"away", "up", "gone"}]
TypeQuest ==
  /\ qrun \in BOOLEAN /\ qfd \in 0..MaxConn /\ acks \in 0..1
  /\ qpc \in {"connect", "hello", "top", "recv", "ack", "lastAck", "beat",
              "pose", "sendPose", "close", "off"}
  /\ qfd = 0 <=> qpc \in {"connect", "off"}
  /\ qpose \in 0..MaxPose /\ mail \in 0..MaxPose /\ posed \in 0..MaxPose
TypeQueues ==
  /\ wpkt \in Packets
  /\ h2q \in [Conns -> Seq({"VIDEO", "HELLO", "BEAT"})] /\ q2h \in [Conns -> Seq(Packets)]
  /\ \A c \in Conns : Len(h2q[c]) <= Cap /\ Len(q2h[c]) <= Cap

LEMMA TypeParts == TypeOK <=> TypeHost /\ TypeNet /\ TypeQuest /\ TypeQueues
BY DEF TypeOK, TypeHost, TypeNet, TypeQuest, TypeQueues

(* Between acceptLoop's accept() and its cleanup the worker has the only     *)
(* open connection, and client_fd_ is that one or nothing.                 *)
Busy == {"publish", "loop", "read", "handle", "lock", "write", "leave"}

Serving ==
  /\ main = "start" => wpc = "off" /\ vpc = "off"
  /\ wpc \in {"lock", "write"} => wpkt.kind \in {"HELLO", "BEAT", "POSE"}
  /\ wpc \in Busy => wfd \in Conns
  /\ clientFd # 0 => /\ clientFd = wfd /\ wpc \in Busy \ {"publish"}
                     /\ sock[clientFd] = "open"
  /\ wpc = "publish" => sock[wfd] = "open"
  /\ OpenIsServed

Linked == TypeHost /\ TypeNet /\ TypeQuest /\ TypeQueues /\ Serving

LEMMA InitLinked == Init => Linked
<1> SUFFICES ASSUME Init PROVE Linked
  OBVIOUS
<1>0. 0 \in 0..MaxConn /\ 0 \in 0..MaxPose /\ 0 \in 0..1
  BY BoundsAssumption
<1>1. TypeHost /\ TypeNet /\ TypeQuest
  <2>1. TypeHost
    BY <1>0 DEF Init, TypeHost
  <2>2. TypeNet
    BY DEF Init, TypeNet
  <2>3. TypeQuest
    BY <1>0 DEF Init, TypeQuest
  <2> QED BY <2>1, <2>2, <2>3
<1>2. TypeQueues
  BY BoundsAssumption DEF Init, TypeQueues, Conns, Packets, NoPacket
<1>3. Serving
  BY DEF Init, Serving, OpenIsServed, Busy
<1> QED BY <1>1, <1>2, <1>3 DEF Linked

LEMMA Appended ==
  ASSUME NEW S, NEW q \in [Conns -> Seq(S)], NEW c \in Conns, NEW x \in S,
         \A d \in Conns : Len(q[d]) <= Cap, Len(q[c]) < Cap,
         NEW r, r = [q EXCEPT ![c] = Append(q[c], x)]
  PROVE  r \in [Conns -> Seq(S)] /\ \A d \in Conns : Len(r[d]) <= Cap
<1>1. Append(q[c], x) \in Seq(S) /\ Len(Append(q[c], x)) = Len(q[c]) + 1
  OBVIOUS
<1>2. Len(q[c]) \in Nat /\ Cap \in Nat
  BY BoundsAssumption
<1>3. Len(Append(q[c], x)) <= Cap
  BY <1>1, <1>2
<1> QED BY <1>1, <1>3

LEMMA Consumed ==
  ASSUME NEW S, NEW q \in [Conns -> Seq(S)], NEW c \in Conns, q[c] # <<>>,
         \A d \in Conns : Len(q[d]) <= Cap,
         NEW r, r = [q EXCEPT ![c] = Tail(q[c])]
  PROVE  /\ r \in [Conns -> Seq(S)] /\ \A d \in Conns : Len(r[d]) <= Cap
         /\ Head(q[c]) \in S
<1>1. /\ Tail(q[c]) \in Seq(S) /\ Len(Tail(q[c])) = Len(q[c]) - 1 /\ Head(q[c]) \in S
      /\ Len(q[c]) \in Nat \ {0}
  OBVIOUS
<1>2. Len(Tail(q[c])) <= Cap
  <2>1. Len(q[c]) <= Cap /\ Cap \in Nat
    BY BoundsAssumption
  <2> QED BY <1>1, <2>1
<1> QED BY <1>1, <1>2

-----------------------------------------------------------------------------

LEMMA ServingNext ==
  ASSUME Linked, [Next]_vars
  PROVE  Serving'
<1> USE BoundsAssumption DEF Linked, TypeHost, TypeNet, TypeQueues, Serving,
           OpenIsServed, Conns, Busy, mainVars, workVars, netVars, questVars,
           HostVars, Goto, QGoto, MainGoto
<1>1. CASE WorkerTop
  BY <1>1 DEF WorkerTop, CloseConn
<1>2. CASE WorkerAcceptFails
  BY <1>2 DEF WorkerAcceptFails, CloseConn
<1>3. CASE WorkerPublish
  BY <1>3 DEF WorkerPublish, CloseConn
<1>4. CASE WorkerLoop
  BY <1>4 DEF WorkerLoop, CloseConn
<1>5. CASE WorkerReadEnds
  BY <1>5 DEF WorkerReadEnds, CloseConn
<1>6. CASE WorkerLock
  BY <1>6 DEF WorkerLock, CloseConn
<1>7. CASE WorkerLeave
  BY <1>7 DEF WorkerLeave, CloseConn
<1>8. CASE Start
  BY <1>8 DEF Start, CloseConn
<1>9. CASE StopClient
  BY <1>9 DEF StopClient, CloseConn
<1>10. CASE WorkerAccept
  BY <1>10 DEF WorkerAccept, Backlog
<1>11. CASE StopListen
  BY <1>11 DEF StopListen, Backlog
<1>12. CASE WorkerRead
  BY <1>12 DEF WorkerRead
<1>13. CASE WorkerHandle
  BY <1>13 DEF WorkerHandle, Answers
<1>14. CASE WorkerWrite
  BY <1>14 DEF WorkerWrite
<1>15. CASE QuestConnect
  BY <1>15 DEF QuestConnect
<1>16. CASE VideoTop
  BY <1>16 DEF VideoTop
<1>17. CASE VideoLock
  BY <1>17 DEF VideoLock
<1>18. CASE VideoWrite
  BY <1>18 DEF VideoWrite
<1>19. CASE Signal \/ MainLeaves \/ StopBegin \/ StopJoin
  BY <1>19 DEF Signal, MainLeaves, StopBegin, StopJoin, QuestWrite
<1>20. CASE QuestHello \/ QuestTop \/ QuestReceive \/ QuestNothing
  BY <1>20 DEF QuestHello, QuestTop, QuestReceive, QuestNothing, QuestWrite
<1>21. CASE QuestAck \/ QuestBeat \/ QuestTakePose
  BY <1>21 DEF QuestAck, QuestBeat, QuestTakePose, QuestWrite
<1>22. CASE QuestSendPose \/ QuestClose \/ PublishPose \/ StopTransport
  BY <1>22 DEF QuestSendPose, QuestClose, PublishPose, StopTransport, QuestWrite
<1>23. CASE UNCHANGED vars
  BY <1>23 DEF vars
<1> QED BY <1>1, <1>2, <1>3, <1>4, <1>5, <1>6, <1>7, <1>8, <1>9, <1>10, <1>11,
        <1>12, <1>13, <1>14, <1>15, <1>16, <1>17, <1>18, <1>19, <1>20, <1>21, <1>22,
        <1>23 DEF Next, Video, Worker, WorkerLocks, Main, Quest

LEMMA HostNext ==
  ASSUME Linked, [Next]_vars
  PROVE  TypeHost'
<1> USE BoundsAssumption DEF Linked, TypeHost, TypeQueues, Serving, Conns, Busy,
           mainVars, workVars, netVars, questVars, HostVars, Goto, QGoto, MainGoto
<1>1. CASE VideoTop
  BY <1>1 DEF VideoTop
<1>2. CASE VideoLock
  BY <1>2 DEF VideoLock
<1>3. CASE VideoWrite
  BY <1>3 DEF VideoWrite
<1>4. CASE WorkerTop
  BY <1>4 DEF WorkerTop
<1>5. CASE WorkerAcceptFails
  BY <1>5 DEF WorkerAcceptFails
<1>6. CASE WorkerPublish
  BY <1>6 DEF WorkerPublish
<1>7. CASE WorkerLoop
  BY <1>7 DEF WorkerLoop
<1>8. CASE WorkerRead
  BY <1>8 DEF WorkerRead
<1>9. CASE WorkerReadEnds
  BY <1>9 DEF WorkerReadEnds
<1>10. CASE WorkerLock
  BY <1>10 DEF WorkerLock
<1>11. CASE WorkerWrite
  BY <1>11 DEF WorkerWrite
<1>12. CASE WorkerLeave
  BY <1>12 DEF WorkerLeave
<1>13. CASE Start
  BY <1>13 DEF Start
<1>14. CASE MainLeaves
  BY <1>14 DEF MainLeaves
<1>15. CASE StopBegin
  BY <1>15 DEF StopBegin
<1>16. CASE StopClient
  BY <1>16 DEF StopClient
<1>17. CASE StopListen
  BY <1>17 DEF StopListen
<1>18. CASE StopJoin
  BY <1>18 DEF StopJoin
<1>19. CASE WorkerAccept
  BY <1>19 DEF WorkerAccept, Backlog
<1>20. CASE WorkerHandle
  BY <1>20 DEF WorkerHandle, Answers, Packets
<1>21. CASE Signal
  BY <1>21 DEF Signal, QuestWrite
<1>22. CASE QuestConnect \/ QuestHello \/ QuestTop \/ QuestReceive
  <2>1. UNCHANGED HostVars
    BY <1>22 DEF QuestConnect, QuestHello, QuestTop, QuestReceive
  <2> QED BY <2>1
<1>23. CASE QuestNothing \/ QuestAck \/ QuestBeat
  <2>1. UNCHANGED HostVars
    BY <1>23 DEF QuestNothing, QuestAck, QuestBeat
  <2> QED BY <2>1
<1>24. CASE QuestTakePose \/ QuestSendPose \/ QuestClose \/ PublishPose \/
           StopTransport
  <2>1. UNCHANGED HostVars
    BY <1>24 DEF QuestTakePose, QuestSendPose, QuestClose, PublishPose,
         StopTransport
  <2> QED BY <2>1
<1>25. CASE UNCHANGED vars
  BY <1>25 DEF vars
<1> QED BY <1>1, <1>2, <1>3, <1>4, <1>5, <1>6, <1>7, <1>8, <1>9, <1>10, <1>11,
        <1>12, <1>13, <1>14, <1>15, <1>16, <1>17, <1>18, <1>19, <1>20, <1>21, <1>22,
        <1>23, <1>24, <1>25 DEF Next, Video, Worker, WorkerLocks, Main, Quest

LEMMA NetNext ==
  ASSUME Linked, [Next]_vars
  PROVE  TypeNet'
<1> USE BoundsAssumption DEF Linked, TypeHost, TypeNet, TypeQuest, Conns, mainVars,
           workVars, netVars, questVars, HostVars, Goto, QGoto, MainGoto
<1>1. CASE WorkerPublish
  BY <1>1 DEF WorkerPublish, CloseConn
<1>2. CASE WorkerLeave
  BY <1>2 DEF WorkerLeave, CloseConn
<1>3. CASE StopClient
  BY <1>3 DEF StopClient, CloseConn
<1>4. CASE WorkerAccept
  BY <1>4 DEF WorkerAccept, Backlog
<1>5. CASE StopListen
  BY <1>5 DEF StopListen, Backlog
<1>6. CASE QuestConnect
  BY <1>6 DEF QuestConnect
<1>7. CASE QuestClose
  BY <1>7 DEF QuestClose
<1>8. CASE VideoTop \/ VideoLock \/ VideoWrite \/ WorkerTop \/ WorkerAcceptFails \/
           WorkerLoop \/ WorkerRead \/ WorkerReadEnds \/ WorkerHandle \/ WorkerLock
           \/ WorkerWrite \/ Start \/ Signal \/ MainLeaves \/ StopBegin \/ StopJoin
  BY <1>8 DEF VideoTop, VideoLock, VideoWrite, WorkerTop, WorkerAcceptFails,
         WorkerLoop, WorkerRead, WorkerReadEnds, WorkerHandle, WorkerLock,
         WorkerWrite, Start, Signal, MainLeaves, StopBegin, StopJoin
<1>9. CASE QuestHello \/ QuestTop \/ QuestReceive \/ QuestNothing
  BY <1>9 DEF QuestHello, QuestTop, QuestReceive, QuestNothing
<1>10. CASE QuestAck \/ QuestBeat \/ QuestTakePose
  BY <1>10 DEF QuestAck, QuestBeat, QuestTakePose
<1>11. CASE QuestSendPose \/ PublishPose \/ StopTransport
  BY <1>11 DEF QuestSendPose, PublishPose, StopTransport
<1>12. CASE UNCHANGED vars
  BY <1>12 DEF vars
<1> QED BY <1>1, <1>2, <1>3, <1>4, <1>5, <1>6, <1>7, <1>8, <1>9, <1>10, <1>11, <1>12
        DEF Next, Video, Worker, WorkerLocks, Main, Quest

LEMMA QuestNext ==
  ASSUME Linked, [Next]_vars
  PROVE  TypeQuest'
<1> USE BoundsAssumption DEF Linked, TypeQuest, TypeNet, Conns, mainVars, workVars,
           netVars, questVars, HostVars, Goto, QGoto, MainGoto
<1>1. CASE QuestConnect
  BY <1>1 DEF QuestConnect
<1>2. CASE QuestHello
  BY <1>2 DEF QuestHello
<1>3. CASE QuestTop
  BY <1>3 DEF QuestTop
<1>4. CASE QuestReceive
  BY <1>4 DEF QuestReceive
<1>5. CASE QuestNothing
  BY <1>5 DEF QuestNothing
<1>6. CASE QuestTakePose
  BY <1>6 DEF QuestTakePose
<1>7. CASE QuestClose
  BY <1>7 DEF QuestClose
<1>8. CASE PublishPose
  BY <1>8 DEF PublishPose
<1>9. CASE QuestAck
  BY <1>9 DEF QuestAck, QuestWrite
<1>10. CASE QuestBeat
  BY <1>10 DEF QuestBeat, QuestWrite
<1>11. CASE QuestSendPose
  BY <1>11 DEF QuestSendPose, QuestWrite
<1>12. CASE VideoTop \/ VideoLock \/ VideoWrite \/ WorkerTop \/ WorkerAccept \/
           WorkerAcceptFails \/ WorkerPublish \/ WorkerLoop \/ WorkerRead \/
           WorkerReadEnds \/ WorkerHandle \/ WorkerLock \/ WorkerWrite \/
           WorkerLeave \/ Start \/ Signal \/ MainLeaves \/ StopBegin \/ StopClient
           \/ StopListen \/ StopJoin
  BY <1>12 DEF VideoTop, VideoLock, VideoWrite, WorkerTop, WorkerAccept,
         WorkerAcceptFails, WorkerPublish, WorkerLoop, WorkerRead, WorkerReadEnds,
         WorkerHandle, WorkerLock, WorkerWrite, WorkerLeave, Start, Signal,
         MainLeaves, StopBegin, StopClient, StopListen, StopJoin
<1>13. CASE StopTransport
  BY <1>13 DEF StopTransport
<1>14. CASE UNCHANGED vars
  BY <1>14 DEF vars
<1> QED BY <1>1, <1>2, <1>3, <1>4, <1>5, <1>6, <1>7, <1>8, <1>9, <1>10, <1>11,
        <1>12, <1>13, <1>14 DEF Next, Video, Worker, WorkerLocks, Main, Quest

LEMMA QueuesNext ==
  ASSUME Linked, [Next]_vars
  PROVE  TypeQueues'
<1> USE BoundsAssumption DEF Linked, TypeQueues, mainVars, workVars, netVars,
           questVars, HostVars, Goto, QGoto, MainGoto
<1>1. CASE VideoWrite
  <2>1. clientFd \in Conns \/ clientFd = 0
    BY DEF Conns, TypeHost
  <2>2. CASE UNCHANGED h2q
    BY <1>1, <2>2 DEF VideoWrite
  <2>3. ASSUME NEW x \in {"VIDEO", "HELLO", "BEAT"}, clientFd # 0, Len(h2q[clientFd]) < Cap,
               h2q' = [h2q EXCEPT ![clientFd] = Append(@, x)]
        PROVE  TypeQueues'
    <3>1. clientFd \in Conns /\ h2q' = [h2q EXCEPT ![clientFd] = Append(h2q[clientFd], x)]
      BY <2>1, <2>3
    <3>2. h2q' \in [Conns -> Seq({"VIDEO", "HELLO", "BEAT"})]
          /\ \A d \in Conns : Len(h2q'[d]) <= Cap
      BY <2>3, <3>1, Appended
    <3> QED BY <1>1, <3>2 DEF VideoWrite
  <2> QED BY <1>1, <2>2, <2>3 DEF VideoWrite, HostWrite, Serving
<1>2. CASE WorkerWrite
  <2>1. clientFd \in Conns \/ clientFd = 0
    BY DEF Conns, TypeHost
  <2>2. CASE UNCHANGED h2q
    BY <1>2, <2>2 DEF WorkerWrite
  <2>3. ASSUME NEW x \in {"VIDEO", "HELLO", "BEAT"}, clientFd # 0, Len(h2q[clientFd]) < Cap,
               h2q' = [h2q EXCEPT ![clientFd] = Append(@, x)]
        PROVE  TypeQueues'
    <3>1. clientFd \in Conns /\ h2q' = [h2q EXCEPT ![clientFd] = Append(h2q[clientFd], x)]
      BY <2>1, <2>3
    <3>2. h2q' \in [Conns -> Seq({"VIDEO", "HELLO", "BEAT"})]
          /\ \A d \in Conns : Len(h2q'[d]) <= Cap
      BY <2>3, <3>1, Appended
    <3> QED BY <1>2, <3>2 DEF WorkerWrite
  <2> QED BY <1>2, <2>2, <2>3 DEF WorkerWrite, HostWrite, Serving
<1>3. CASE WorkerRead
  <2>1. wfd \in Conns /\ q2h' = [q2h EXCEPT ![wfd] = Tail(q2h[wfd])] /\ q2h[wfd] # <<>>
    BY <1>3 DEF WorkerRead, Serving, Busy
  <2>2. /\ q2h' \in [Conns -> Seq(Packets)] /\ \A d \in Conns : Len(q2h'[d]) <= Cap
        /\ Head(q2h[wfd]) \in Packets
    BY <2>1, Consumed
  <2> QED BY <1>3, <2>2 DEF WorkerRead
<1>4. CASE QuestReceive
  <2>1. qfd \in Conns /\ h2q' = [h2q EXCEPT ![qfd] = Tail(h2q[qfd])] /\ h2q[qfd] # <<>>
    BY <1>4 DEF QuestReceive, TypeQuest, Conns
  <2>2. /\ h2q' \in [Conns -> Seq({"VIDEO", "HELLO", "BEAT"})]
        /\ \A d \in Conns : Len(h2q'[d]) <= Cap
    BY <2>1, Consumed
  <2> QED BY <1>4, <2>2 DEF QuestReceive
<1>5. CASE QuestHello
  <2>1. qfd \in Conns
    BY <1>5 DEF TypeQuest, Conns, QuestHello
  <2>2. CASE UNCHANGED q2h
    BY <1>5, <2>2 DEF QuestHello
  <2>3. CASE Len(q2h[qfd]) < Cap /\ q2h' = [q2h EXCEPT ![qfd] = Append(@, Packet("HELLO"))]
    <3>1. Packet("HELLO") \in Packets
      BY DEF TypeQuest, Packets, Packet, PosePacket
    <3>2. q2h' = [q2h EXCEPT ![qfd] = Append(q2h[qfd], Packet("HELLO"))]
      BY <2>3
    <3>3. q2h' \in [Conns -> Seq(Packets)] /\ \A d \in Conns : Len(q2h'[d]) <= Cap
      BY <2>1, <2>3, <3>1, <3>2, Appended
    <3> QED BY <1>5, <3>3 DEF QuestHello
  <2> QED BY <1>5, <2>2, <2>3 DEF QuestHello
<1>6. CASE QuestAck
  <2>1. qfd \in Conns
    BY <1>6 DEF TypeQuest, Conns, QuestAck, QuestWrite
  <2>2. CASE UNCHANGED q2h
    BY <1>6, <2>2 DEF QuestAck
  <2>3. CASE Len(q2h[qfd]) < Cap /\ q2h' = [q2h EXCEPT ![qfd] = Append(@, Packet("ACK"))]
    <3>1. Packet("ACK") \in Packets
      BY DEF TypeQuest, Packets, Packet, PosePacket
    <3>2. q2h' = [q2h EXCEPT ![qfd] = Append(q2h[qfd], Packet("ACK"))]
      BY <2>3
    <3>3. q2h' \in [Conns -> Seq(Packets)] /\ \A d \in Conns : Len(q2h'[d]) <= Cap
      BY <2>1, <2>3, <3>1, <3>2, Appended
    <3> QED BY <1>6, <3>3 DEF QuestAck
  <2> QED BY <1>6, <2>2, <2>3 DEF QuestAck, QuestWrite
<1>7. CASE QuestBeat
  <2>1. qfd \in Conns
    BY <1>7 DEF TypeQuest, Conns, QuestBeat, QuestWrite
  <2>2. CASE UNCHANGED q2h
    BY <1>7, <2>2 DEF QuestBeat
  <2>3. CASE Len(q2h[qfd]) < Cap /\ q2h' = [q2h EXCEPT ![qfd] = Append(@, Packet("BEAT"))]
    <3>1. Packet("BEAT") \in Packets
      BY DEF TypeQuest, Packets, Packet, PosePacket
    <3>2. q2h' = [q2h EXCEPT ![qfd] = Append(q2h[qfd], Packet("BEAT"))]
      BY <2>3
    <3>3. q2h' \in [Conns -> Seq(Packets)] /\ \A d \in Conns : Len(q2h'[d]) <= Cap
      BY <2>1, <2>3, <3>1, <3>2, Appended
    <3> QED BY <1>7, <3>3 DEF QuestBeat
  <2> QED BY <1>7, <2>2, <2>3 DEF QuestBeat, QuestWrite
<1>8. CASE QuestSendPose
  <2>1. qfd \in Conns
    BY <1>8 DEF TypeQuest, Conns, QuestSendPose, QuestWrite
  <2>2. CASE UNCHANGED q2h
    BY <1>8, <2>2 DEF QuestSendPose
  <2>3. CASE Len(q2h[qfd]) < Cap /\ q2h' = [q2h EXCEPT ![qfd] = Append(@, PosePacket(qpose))]
    <3>1. PosePacket(qpose) \in Packets
      BY DEF TypeQuest, Packets, Packet, PosePacket
    <3>2. q2h' = [q2h EXCEPT ![qfd] = Append(q2h[qfd], PosePacket(qpose))]
      BY <2>3
    <3>3. q2h' \in [Conns -> Seq(Packets)] /\ \A d \in Conns : Len(q2h'[d]) <= Cap
      BY <2>1, <2>3, <3>1, <3>2, Appended
    <3> QED BY <1>8, <3>3 DEF QuestSendPose
  <2> QED BY <1>8, <2>2, <2>3 DEF QuestSendPose, QuestWrite
<1>9. CASE VideoTop \/ VideoLock \/ WorkerTop \/ WorkerAccept \/ WorkerAcceptFails
           \/ WorkerPublish \/ WorkerLoop \/ WorkerReadEnds \/ WorkerHandle \/
           WorkerLock \/ WorkerLeave \/ Start \/ Signal \/ MainLeaves \/ StopBegin
           \/ StopClient \/ StopListen \/ StopJoin
  BY <1>9 DEF VideoTop, VideoLock, WorkerTop, WorkerAccept, WorkerAcceptFails,
         WorkerPublish, WorkerLoop, WorkerReadEnds, WorkerHandle, WorkerLock,
         WorkerLeave, Start, Signal, MainLeaves, StopBegin, StopClient, StopListen,
         StopJoin
<1>10. CASE QuestConnect \/ QuestTop \/ QuestNothing \/ QuestTakePose \/ QuestClose
           \/ PublishPose \/ StopTransport
  BY <1>10 DEF QuestConnect, QuestTop, QuestNothing, QuestTakePose, QuestClose,
         PublishPose, StopTransport
<1>11. CASE UNCHANGED vars
  BY <1>11 DEF vars
<1> QED BY <1>1, <1>2, <1>3, <1>4, <1>5, <1>6, <1>7, <1>8, <1>9, <1>10, <1>11 DEF
        Next, Video, Worker, WorkerLocks, Main, Quest

LEMMA AlwaysLinked == Spec => []Linked
<1>1. ASSUME Linked, [Next]_vars PROVE Linked'
  BY <1>1, HostNext, NetNext, QuestNext, QueuesNext, ServingNext DEF Linked
<1> QED BY <1>1, InitLinked, PTL DEF Spec

(* Every reachable state is of the model's type; no buffer runs over, the    *)
(* holder of send_mutex_ is the thread that is writing.                    *)
THEOREM LinkTypeCorrect == Spec => []TypeOK
<1>1. Linked => TypeOK
  BY TypeParts DEF Linked
<1> QED BY <1>1, AlwaysLinked, PTL

(* No connection is leaked by the host and none is open without send()      *)
(* reaching it, whatever the other threads do (tcp_server.cpp 118-182).    *)
THEOREM LinkServesOpen == Spec => []OpenIsServed
<1>1. Linked => OpenIsServed
  BY DEF Linked, Serving
<1> QED BY <1>1, AlwaysLinked, PTL

-----------------------------------------------------------------------------
(* The order of poses.  In(q, i, n): the i-th packet of q is pose n.        *)
In(q, i, n) == i \in 1..Len(q) /\ q[i].kind = "POSE" /\ q[i].pose = n
Pos(c, i, n) == In(q2h[c], i, n)

(* n is older than whatever is on its way to a buffer *)
Older(n) == n <= posed /\ (qpose # 0 => n < qpose) /\ (mail # 0 => n < mail)

Alive(c) == sock[c] \in {"backlog", "open"}
Handled == wpc = "handle" /\ wpkt.kind = "POSE"

(* Connections are used one after the other, by the headset and, in the     *)
(* same order, by the worker.                                              *)
Lined ==
  /\ \A c, d \in Conns : sock[c] = "none" /\ c < d => sock[d] = "none"
  /\ \A c \in Conns : sock[c] = "none" => q2h[c] = <<>>
  /\ \A c \in Conns : sock[c] = "backlog" => c > wfd
  /\ wfd # 0 => sock[wfd] # "none"
  /\ qfd # 0 => sock[qfd] # "none" /\ \A c \in Conns : c > qfd => sock[c] = "none"

Increasing ==
  /\ \A c, d \in Conns : \A i, j, m, n \in Nat :
       Pos(c, i, m) /\ Pos(d, j, n) /\ (c < d \/ (c = d /\ i < j)) => m < n
  /\ \A c \in Conns : \A i, n \in Nat : Pos(c, i, n) =>
       /\ Older(n)
       /\ Alive(c) => got < n /\ (Handled => wpkt.pose < n)
  /\ Older(got)
  /\ Handled => got < wpkt.pose /\ Older(wpkt.pose)
  /\ qpose <= posed /\ mail <= posed /\ (qpose # 0 /\ mail # 0 => qpose < mail)
  /\ qpc = "sendPose" => qpose # 0

InOrder == Linked /\ Lined /\ Increasing

LEMMA SameLines ==
  ASSUME Lined, UNCHANGED <<q2h, wfd, qfd>>,
         wfd # 0 => wfd \in Conns, qfd # 0 => qfd \in Conns,
         \A c \in Conns : /\ (sock'[c] = "none") <=> (sock[c] = "none")
                          /\ sock'[c] = "backlog" => sock[c] = "backlog"
  PROVE  Lined'
<1>1. \A c, d \in Conns : sock'[c] = "none" /\ c < d => sock'[d] = "none"
  BY DEF Lined
<1>2. \A c \in Conns : /\ sock'[c] = "none" => q2h'[c] = <<>>
                       /\ sock'[c] = "backlog" => c > wfd'
  BY DEF Lined
<1>3. wfd' # 0 => sock'[wfd'] # "none"
  BY DEF Lined
<1>4. qfd' # 0 => sock'[qfd'] # "none" /\ \A c \in Conns : c > qfd' => sock'[c] = "none"
  BY DEF Lined
<1> QED BY <1>1, <1>2, <1>3, <1>4 DEF Lined

(* the oldest connection of the backlog becomes the worker's *)
LEMMA AcceptedLine ==
  ASSUME Lined, Conns \subseteq Nat, qfd # 0 => qfd \in Conns, UNCHANGED <<q2h, qfd>>,
         NEW c \in Conns, sock[c] = "backlog", \A d \in Conns : sock[d] = "backlog" => c <= d,
         wfd' = c, \A d \in Conns : sock'[d] = IF d = c THEN "open" ELSE sock[d]
  PROVE  Lined'
<1>1. \A a, b \in Conns : sock'[a] = "none" /\ a < b => sock'[b] = "none"
  <2>1. SUFFICES ASSUME NEW a \in Conns, NEW b \in Conns, sock'[a] = "none", a < b
                 PROVE  sock'[b] = "none"
    OBVIOUS
  <2>2. sock[a] = "none"
    BY <2>1
  <2>3. sock[b] = "none"
    BY <2>1, <2>2 DEF Lined
  <2> QED BY <2>3
<1>2. \A a \in Conns : sock'[a] = "none" => q2h'[a] = <<>>
  BY DEF Lined
<1>3. \A a \in Conns : sock'[a] = "backlog" => a > wfd'
  <2>1. SUFFICES ASSUME NEW a \in Conns, sock'[a] = "backlog" PROVE a > c
    OBVIOUS
  <2>2. a # c /\ sock[a] = "backlog"
    BY <2>1
  <2>3. c <= a /\ a \in Nat /\ c \in Nat
    BY <2>2
  <2> QED BY <2>2, <2>3
<1>4. wfd' # 0 => sock'[wfd'] # "none"
  OBVIOUS
<1>5. qfd' # 0 => sock'[qfd'] # "none" /\ \A a \in Conns : a > qfd' => sock'[a] = "none"
  <2>1. SUFFICES ASSUME qfd # 0
                 PROVE  sock'[qfd] # "none"
                        /\ \A a \in Conns : a > qfd => sock'[a] = "none"
    OBVIOUS
  <2>2. sock[qfd] # "none" /\ \A a \in Conns : a > qfd => sock[a] = "none"
    BY <2>1 DEF Lined
  <2>3. sock'[qfd] # "none"
    BY <2>1, <2>2
  <2>4. \A a \in Conns : a > qfd => sock'[a] = "none"
    BY <2>1, <2>2
  <2> QED BY <2>3, <2>4
<1> QED BY <1>1, <1>2, <1>3, <1>4, <1>5 DEF Lined

LEMMA ClosedSlots ==
  ASSUME NEW f, f # 0 => sock[f] # "none", sock' = CloseConn(f)
  PROVE  \A c \in Conns : /\ (sock'[c] = "none") <=> (sock[c] = "none")
                          /\ sock'[c] = "backlog" => sock[c] = "backlog"
<1>1. \A c \in Conns : c # 0 /\ sock'[c] = IF c = f THEN "closed" ELSE sock[c]
  BY BoundsAssumption DEF CloseConn, Conns
<1> QED BY <1>1

LEMMA LinedNext ==
  ASSUME InOrder, [Next]_vars
  PROVE  Lined'
<1> USE BoundsAssumption DEF InOrder, Lined, mainVars, workVars, netVars, questVars,
           HostVars, Goto, QGoto, MainGoto
<1>0. /\ Conns = 1..MaxConn /\ MaxConn \in Nat
      /\ sock \in [Conns -> {"none", "backlog", "open", "closed"}]
      /\ q2h \in [Conns -> Seq(Packets)]
      /\ wfd \in 0..MaxConn /\ qfd \in 0..MaxConn /\ (qfd = 0 <=> qpc \in {"connect", "off"})
      /\ clientFd # 0 => clientFd \in Conns /\ sock[clientFd] = "open"
      /\ wpc = "read" => wfd \in Conns
  BY DEF Linked, TypeHost, TypeNet, TypeQuest, TypeQueues, Serving, Busy, Conns
<1>1. CASE WorkerPublish
  <2>1. \A c \in Conns : /\ (sock'[c] = "none") <=> (sock[c] = "none")
                         /\ sock'[c] = "backlog" => sock[c] = "backlog"
    <3>1. sock' = CloseConn(clientFd)
      BY <1>1 DEF WorkerPublish
    <3>2. clientFd # 0 => sock[clientFd] # "none"
      BY <1>0
    <3> QED BY <3>1, <3>2, ClosedSlots
  <2>2. UNCHANGED <<q2h, wfd, qfd>>
    BY <1>1 DEF WorkerPublish
  <2>3. Lined /\ (wfd # 0 => wfd \in Conns) /\ (qfd # 0 => qfd \in Conns)
    BY <1>0
  <2> HIDE DEF Lined, InOrder
  <2> QED BY <2>1, <2>2, <2>3, SameLines
<1>2. CASE WorkerLeave
  <2>1. \A c \in Conns : /\ (sock'[c] = "none") <=> (sock[c] = "none")
                         /\ sock'[c] = "backlog" => sock[c] = "backlog"
    <3>1. CASE UNCHANGED sock
      BY <3>1
    <3>2. CASE clientFd = wfd /\ sock' = CloseConn(wfd)
      BY <1>0, <3>2, ClosedSlots
    <3> QED BY <1>2, <3>1, <3>2 DEF WorkerLeave
  <2>2. UNCHANGED <<q2h, wfd, qfd>>
    BY <1>2 DEF WorkerLeave
  <2>3. Lined /\ (wfd # 0 => wfd \in Conns) /\ (qfd # 0 => qfd \in Conns)
    BY <1>0
  <2> HIDE DEF Lined, InOrder
  <2> QED BY <2>1, <2>2, <2>3, SameLines
<1>3. CASE StopClient
  <2>1. \A c \in Conns : /\ (sock'[c] = "none") <=> (sock[c] = "none")
                         /\ sock'[c] = "backlog" => sock[c] = "backlog"
    <3>1. sock' = CloseConn(clientFd)
      BY <1>3 DEF StopClient
    <3>2. clientFd # 0 => sock[clientFd] # "none"
      BY <1>0
    <3> QED BY <3>1, <3>2, ClosedSlots
  <2>2. UNCHANGED <<q2h, wfd, qfd>>
    BY <1>3 DEF StopClient
  <2>3. Lined /\ (wfd # 0 => wfd \in Conns) /\ (qfd # 0 => qfd \in Conns)
    BY <1>0
  <2> HIDE DEF Lined, InOrder
  <2> QED BY <2>1, <2>2, <2>3, SameLines
<1>4. CASE WorkerAccept
  <2>1. PICK c \in Conns : /\ sock[c] = "backlog"
                           /\ \A d \in Conns : sock[d] = "backlog" => c <= d
                           /\ wfd' = c /\ sock' = [sock EXCEPT ![c] = "open"]
    BY <1>4 DEF WorkerAccept, Backlog
  <2>2. UNCHANGED <<q2h, qfd>>
    BY <1>4 DEF WorkerAccept
  <2>3. \A d \in Conns : sock'[d] = IF d = c THEN "open" ELSE sock[d]
    BY <1>0, <2>1
  <2>4. Lined /\ Conns \subseteq Nat /\ (qfd # 0 => qfd \in Conns)
    BY <1>0
  <2> HIDE DEF Lined, InOrder
  <2> QED BY <2>1, <2>2, <2>3, <2>4, AcceptedLine
<1>5. CASE StopListen
  <2>1. \A c \in Conns : /\ (sock'[c] = "none") <=> (sock[c] = "none")
                         /\ sock'[c] = "backlog" => sock[c] = "backlog"
    BY <1>0, <1>5 DEF StopListen, Backlog
  <2>2. UNCHANGED <<q2h, wfd, qfd>>
    BY <1>5 DEF StopListen
  <2>3. Lined /\ (wfd # 0 => wfd \in Conns) /\ (qfd # 0 => qfd \in Conns)
    BY <1>0
  <2> HIDE DEF Lined, InOrder
  <2> QED BY <2>1, <2>2, <2>3, SameLines
<1>6. CASE QuestConnect
  <2>1. CASE UNCHANGED <<sock, qfd>>
    BY <1>0, <1>6, <2>1 DEF QuestConnect
  <2>2. ASSUME NEW c \in Conns, sock[c] = "none", \A d \in Conns : d < c => sock[d] # "none",
               sock' = [sock EXCEPT ![c] = "backlog"], qfd' = c
        PROVE  Lined'
    <3>1. UNCHANGED <<q2h, wfd>>
      BY <1>6 DEF QuestConnect
    <3>2. /\ \A d \in Conns : sock'[d] = IF d = c THEN "backlog" ELSE sock[d]
          /\ \A d \in Conns : d \in Nat
      BY <1>0, <2>2
    <3>3. \A d \in Conns : d > c => sock[d] = "none"
      BY <1>0, <2>2
    <3>4. c > wfd
      BY <1>0, <2>2, <3>3
    <3>5. \A a, b \in Conns : sock'[a] = "none" /\ a < b => sock'[b] = "none"
      <4>1. SUFFICES ASSUME NEW a \in Conns, NEW b \in Conns, sock'[a] = "none", a < b
                     PROVE  sock'[b] = "none"
        OBVIOUS
      <4>2. a # c /\ sock[a] = "none"
        BY <3>2, <4>1
      <4>3. a > c /\ b # c
        BY <2>2, <3>2, <4>1, <4>2
      <4> QED BY <3>2, <3>3, <4>1, <4>2, <4>3
    <3>6. \A a \in Conns : /\ sock'[a] = "none" => q2h[a] = <<>>
                           /\ sock'[a] = "backlog" => a > wfd
      BY <1>0, <3>2, <3>4
    <3>7. wfd # 0 => sock'[wfd] # "none"
      BY <1>0, <3>2
    <3>8. qfd' # 0 => sock'[qfd'] # "none" /\ \A a \in Conns : a > qfd' => sock'[a] = "none"
      BY <2>2, <3>2, <3>3
    <3> QED BY <3>1, <3>5, <3>6, <3>7, <3>8
  <2> QED BY <1>6, <2>1, <2>2 DEF QuestConnect
<1>7. CASE WorkerRead
  BY <1>0, <1>7 DEF WorkerRead
<1>8. CASE QuestClose
  BY <1>0, <1>8 DEF QuestClose
<1>9. CASE QuestHello
  BY <1>0, <1>9 DEF QuestHello
<1>10. CASE QuestAck
  BY <1>0, <1>10 DEF QuestAck, QuestWrite
<1>11. CASE QuestBeat
  BY <1>0, <1>11 DEF QuestBeat, QuestWrite
<1>12. CASE QuestSendPose
  BY <1>0, <1>12 DEF QuestSendPose, QuestWrite
<1>13. CASE VideoTop \/ VideoLock \/ VideoWrite \/ WorkerTop \/ WorkerAcceptFails \/
           WorkerLoop \/ WorkerReadEnds \/ WorkerHandle \/ WorkerLock \/ WorkerWrite
           \/ Start \/ Signal \/ MainLeaves \/ StopBegin \/ StopJoin
  BY <1>13 DEF VideoTop, VideoLock, VideoWrite, WorkerTop, WorkerAcceptFails,
         WorkerLoop, WorkerReadEnds, WorkerHandle, WorkerLock, WorkerWrite, Start,
         Signal, MainLeaves, StopBegin, StopJoin
<1>14. CASE QuestTop \/ QuestReceive \/ QuestNothing \/ QuestTakePose \/ PublishPose
           \/ StopTransport
  BY <1>14 DEF QuestTop, QuestReceive, QuestNothing, QuestTakePose, PublishPose,
         StopTransport
<1>15. CASE UNCHANGED vars
  BY <1>15 DEF vars
<1> QED BY <1>1, <1>2, <1>3, <1>4, <1>5, <1>6, <1>7, <1>8, <1>9, <1>10, <1>11,
        <1>12, <1>13, <1>14, <1>15 DEF Next, Video, Worker, WorkerLocks, Main, Quest

LEMMA AppendIn ==
  ASSUME NEW q \in Seq(Packets), NEW p \in Packets
  PROVE  \A i, n \in Nat : In(Append(q, p), i, n) =>
           \/ In(q, i, n)
           \/ i = Len(q) + 1 /\ p.kind = "POSE" /\ p.pose = n
<1>1. /\ Len(Append(q, p)) = Len(q) + 1 /\ Len(q) \in Nat
      /\ \A k \in 1..Len(q) : Append(q, p)[k] = q[k]
      /\ Append(q, p)[Len(q) + 1] = p
  OBVIOUS
<1>2. ASSUME NEW i \in Nat, NEW n \in Nat, In(Append(q, p), i, n)
      PROVE  In(q, i, n) \/ (i = Len(q) + 1 /\ p.kind = "POSE" /\ p.pose = n)
  <2>1. CASE i \in 1..Len(q)
    BY <1>1, <1>2, <2>1 DEF In
  <2>2. CASE i = Len(q) + 1
    BY <1>1, <1>2, <2>2 DEF In
  <2> QED BY <1>1, <1>2, <2>1, <2>2 DEF In
<1> QED BY <1>2

LEMMA TailIn ==
  ASSUME NEW q \in Seq(Packets), q # <<>>
  PROVE  /\ \A i, n \in Nat : In(Tail(q), i, n) => In(q, i + 1, n) /\ i >= 1
         /\ Head(q).kind = "POSE" => In(q, 1, Head(q).pose)
<1>1. /\ Len(Tail(q)) = Len(q) - 1 /\ Len(q) \in Nat \ {0} /\ Head(q) = q[1]
      /\ \A k \in 1..Len(Tail(q)) : Tail(q)[k] = q[k + 1]
  OBVIOUS
<1>2. ASSUME NEW i \in Nat, NEW n \in Nat, In(Tail(q), i, n)
      PROVE  In(q, i + 1, n) /\ i >= 1
  <2>1. i >= 1 /\ i + 1 <= Len(q) /\ i \in 1..Len(Tail(q))
    BY <1>1, <1>2 DEF In
  <2>2. Tail(q)[i] = q[i + 1] /\ i + 1 \in 1..Len(q)
    BY <1>1, <2>1
  <2> QED BY <1>2, <2>1, <2>2 DEF In
<1>3. Head(q).kind = "POSE" => In(q, 1, Head(q).pose)
  BY <1>1 DEF In
<1> QED BY <1>2, <1>3

(* steps that move no pose *)
LEMMA QuietKeeps ==
  ASSUME InOrder, UNCHANGED <<q2h, got, qpose, mail, posed, wpkt>>,
         wpc' = "handle" => wpc = "handle",
         qpc' = "sendPose" => qpc = "sendPose",
         \A c \in Conns : sock'[c] \in {"backlog", "open"} => Alive(c) \/ q2h[c] = <<>>
  PROVE  Increasing'
<1>1. \A c \in Conns : \A i, n \in Nat : q2h[c] = <<>> => ~Pos(c, i, n)
  BY DEF Pos, In
<1> QED BY <1>1 DEF InOrder, Increasing, Older, Alive, Handled, Pos, In

(* a packet that is no pose *)
LEMMA OtherWritten ==
  ASSUME InOrder, UNCHANGED <<sock, got, qpose, mail, posed, wpkt, wpc>>,
         qpc' # "sendPose",
         NEW p \in Packets, p.kind # "POSE",
         q2h' = [q2h EXCEPT ![qfd] = Append(@, p)], qfd \in Conns
  PROVE  Increasing'
<1>1. q2h \in [Conns -> Seq(Packets)]
  BY DEF InOrder, Linked, TypeQueues
<1>2. ASSUME NEW c \in Conns, NEW i \in Nat, NEW n \in Nat, In(q2h'[c], i, n)
      PROVE  Pos(c, i, n)
  BY <1>1, <1>2, AppendIn DEF Pos
<1>3. Increasing
  BY DEF InOrder
<1> QED BY <1>2, <1>3 DEF Increasing, Older, Alive, Handled, Pos

LEMMA ReadKeeps == ASSUME InOrder, WorkerRead PROVE Increasing'
<1>1. /\ wfd \in Conns /\ q2h \in [Conns -> Seq(Packets)] /\ q2h[wfd] # <<>>
      /\ sock[wfd] = "open" /\ wpkt' = Head(q2h[wfd])
      /\ q2h' = [q2h EXCEPT ![wfd] = Tail(q2h[wfd])]
      /\ UNCHANGED <<got, qpose, mail, posed, qpc, sock, wfd>>
  BY DEF WorkerRead, Goto, InOrder, Linked, Serving, Busy, TypeQueues, netVars, questVars
<1>2. Head(q2h[wfd]) \in Packets /\ wpkt'.pose \in Nat
  <2>1. Head(q2h[wfd]) \in Packets
    BY <1>1
  <2> QED BY <1>1, <2>1, BoundsAssumption DEF Packets
<1>3. ASSUME NEW c \in Conns, c # wfd
      PROVE  \A i, n \in Nat : In(q2h'[c], i, n) <=> Pos(c, i, n)
  BY <1>1, <1>3 DEF Pos
<1>4. \A i, n \in Nat : In(q2h'[wfd], i, n) => Pos(wfd, i + 1, n) /\ i >= 1
  BY <1>1, TailIn DEF Pos
<1>5. wpkt'.kind = "POSE" => Pos(wfd, 1, wpkt'.pose)
  BY <1>1, TailIn DEF Pos
<1>6. Increasing /\ Lined /\ OpenIsServed
  BY DEF InOrder, Linked, Serving
<1>7. ASSUME NEW c \in Conns, NEW d \in Conns, NEW i \in Nat, NEW j \in Nat,
             NEW m \in Nat, NEW n \in Nat,
             In(q2h'[c], i, m), In(q2h'[d], j, n), c < d \/ (c = d /\ i < j)
      PROVE  m < n
  <2>1. PICK k \in Nat : Pos(c, k, m) /\ k = IF c = wfd THEN i + 1 ELSE i
    BY <1>3, <1>4, <1>7
  <2>2. PICK l \in Nat : Pos(d, l, n) /\ l = IF d = wfd THEN j + 1 ELSE j
    BY <1>3, <1>4, <1>7
  <2>3. c < d \/ (c = d /\ k < l)
    <3>1. CASE c = d /\ i < j
      <4>1. CASE c = wfd
        BY <2>1, <2>2, <3>1, <4>1
      <4>2. CASE c # wfd
        BY <2>1, <2>2, <3>1, <4>2
      <4> QED BY <3>1, <4>1, <4>2
    <3> QED BY <1>7, <3>1, Zenon
  <2> QED BY <1>6, <2>1, <2>2, <2>3 DEF Increasing
<1>8. ASSUME NEW c \in Conns, NEW i \in Nat, NEW n \in Nat, In(q2h'[c], i, n)
      PROVE  /\ Older(n)
             /\ Alive(c) => got < n /\ (wpkt'.kind = "POSE" => wpkt'.pose < n)
  <2>1. PICK k \in Nat : Pos(c, k, n) /\ k = IF c = wfd THEN i + 1 ELSE i
    BY <1>3, <1>4, <1>8
  <2>2. Older(n) /\ (Alive(c) => got < n)
    BY <1>6, <2>1 DEF Increasing
  <2>3. ASSUME Alive(c), wpkt'.kind = "POSE" PROVE wpkt'.pose < n
    <3>1. CASE c = wfd
      <4>1. k > 1
        BY <1>4, <1>8, <2>1, <3>1
      <4> QED BY <1>2, <1>5, <1>6, <2>1, <2>3, <3>1, <4>1 DEF Increasing
    <3>2. CASE c # wfd
      <4>1. c > wfd
        BY <1>1, <1>6, <2>3, <3>2 DEF Alive, Lined, OpenIsServed
      <4>2. wfd < c /\ Pos(wfd, 1, wpkt'.pose) /\ Pos(c, k, n) /\ 1 \in Nat
        BY <1>5, <2>1, <2>3, <4>1
      <4>3. \A i1, j1, m1, n1 \in Nat : Pos(wfd, i1, m1) /\ Pos(c, j1, n1) => m1 < n1
        BY <1>1, <1>6, <4>2 DEF Increasing
      <4> QED BY <1>2, <4>2, <4>3
    <3> QED BY <3>1, <3>2
  <2> QED BY <2>2, <2>3
<1>9. wpkt'.kind = "POSE" => got < wpkt'.pose /\ Older(wpkt'.pose)
  BY <1>1, <1>2, <1>5, <1>6 DEF Increasing, Alive
<1> QED BY <1>1, <1>6, <1>7, <1>8, <1>9 DEF Increasing, Older, Alive, Handled, Pos

LEMMA SendPoseKeeps ==
  ASSUME InOrder, QuestSendPose
  PROVE  Increasing'
<1>1. /\ qfd \in Conns /\ q2h \in [Conns -> Seq(Packets)]
      /\ UNCHANGED <<got, mail, posed, sock, wpc, wpkt>> /\ qpose' = 0 /\ qpc' # "sendPose"
      /\ qpose \in Nat /\ qpose # 0 /\ mail \in Nat /\ posed \in Nat
      /\ qpose \in 0..MaxPose
  BY BoundsAssumption
     DEF QuestSendPose, QuestWrite, QGoto, HostVars, workVars, InOrder, Linked, TypeQuest,
         TypeQueues, Increasing, Conns
<1>2. Increasing /\ Lined
  BY DEF InOrder
<1>3. CASE UNCHANGED q2h
  BY <1>1, <1>2, <1>3 DEF Increasing, Older, Alive, Handled, Pos
<1>4. CASE q2h' = [q2h EXCEPT ![qfd] = Append(@, PosePacket(qpose))]
  <2>1. PosePacket(qpose) \in Packets /\ PosePacket(qpose).pose = qpose
    BY <1>1 DEF PosePacket, Packets
  <2>2. ASSUME NEW c \in Conns, NEW i \in Nat, NEW n \in Nat, In(q2h'[c], i, n)
        PROVE  Pos(c, i, n) \/ (c = qfd /\ i = Len(q2h[qfd]) + 1 /\ n = qpose)
    BY <1>1, <1>4, <2>1, <2>2, AppendIn DEF Pos
  <2>3. \A c \in Conns : \A i, n \in Nat : Pos(c, i, n) =>
          /\ Older(n) /\ n < qpose /\ c <= qfd
          /\ c = qfd => i <= Len(q2h[qfd])
    <3>1. \A c \in Conns : \A i, n \in Nat : Pos(c, i, n) => Older(n) /\ n < qpose
      BY <1>1, <1>2 DEF Increasing, Older
    <3>2. ASSUME NEW c \in Conns, c > qfd PROVE \A i, n \in Nat : ~Pos(c, i, n)
      <4>1. q2h[c] = <<>>
        BY <1>1, <1>2, <3>2 DEF Lined, Conns
      <4> QED BY <4>1 DEF Pos, In
    <3>3. \A i, n \in Nat : Pos(qfd, i, n) => i <= Len(q2h[qfd])
      BY DEF Pos, In
    <3>4. \A c \in Conns : c \in Nat
      BY DEF Conns
    <3> QED BY <1>1, <3>1, <3>2, <3>3, <3>4
  <2>4. ASSUME NEW c \in Conns, NEW d \in Conns, NEW i \in Nat, NEW j \in Nat,
               NEW m \in Nat, NEW n \in Nat,
               In(q2h'[c], i, m), In(q2h'[d], j, n), c < d \/ (c = d /\ i < j)
        PROVE  m < n
    <3>1. c \in Nat /\ d \in Nat /\ qfd \in Nat /\ Len(q2h[qfd]) \in Nat
      BY <1>1 DEF Conns
    <3>2. CASE Pos(c, i, m) /\ Pos(d, j, n)
      BY <1>2, <2>4, <3>2 DEF Increasing
    <3>3. CASE Pos(c, i, m) /\ d = qfd /\ n = qpose
      BY <2>3, <3>3
    <3>4. CASE c = qfd /\ i = Len(q2h[qfd]) + 1 /\ Pos(d, j, n)
      BY <2>3, <2>4, <3>1, <3>4
    <3>5. CASE c = qfd /\ i = Len(q2h[qfd]) + 1 /\ d = qfd /\ j = Len(q2h[qfd]) + 1
      BY <2>4, <3>1, <3>5
    <3> QED BY <2>2, <2>4, <3>2, <3>3, <3>4, <3>5
  <2>5. ASSUME NEW c \in Conns, NEW i \in Nat, NEW n \in Nat, In(q2h'[c], i, n)
        PROVE  /\ n <= posed /\ (mail # 0 => n < mail)
               /\ Alive(c) => got < n /\ (Handled => wpkt.pose < n)
    <3>1. CASE Pos(c, i, n)
      BY <1>2, <3>1 DEF Increasing, Older
    <3>2. CASE n = qpose
      BY <1>1, <1>2, <3>2 DEF Increasing, Older
    <3> QED BY <2>2, <2>5, <3>1, <3>2
  <2> QED BY <1>1, <1>2, <2>4, <2>5 DEF Increasing, Older, Alive, Handled, Pos
<1> QED BY <1>3, <1>4 DEF QuestSendPose, QuestWrite

LEMMA MailKeeps ==
  ASSUME InOrder, QuestTakePose \/ PublishPose \/ WorkerHandle
  PROVE  Increasing'
<1>1. /\ posed \in Nat /\ mail \in Nat /\ qpose \in Nat /\ got \in Nat
      /\ UNCHANGED <<q2h, sock, wpkt>> /\ Increasing
  BY BoundsAssumption
     DEF QuestTakePose, PublishPose, WorkerHandle, HostVars, workVars, netVars, InOrder,
         Linked, TypeQuest, TypeHost
<1>2. CASE QuestTakePose
  BY <1>1, <1>2 DEF QuestTakePose, QGoto, HostVars, workVars, Increasing, Older, Alive,
                    Handled, Pos
<1>3. CASE PublishPose
  <2>1. /\ posed' = posed + 1 /\ mail' = posed + 1
        /\ UNCHANGED <<got, wpc, qpose, qpc>>
    BY <1>3 DEF PublishPose, HostVars, workVars
  <2>2. \A n \in Nat : Older(n) => Older(n)'
    BY <1>1, <2>1 DEF Older
  <2>3. Handled => wpkt.pose \in Nat
    BY BoundsAssumption DEF InOrder, Linked, TypeQueues, Packets
  <2> QED BY <1>1, <2>1, <2>2, <2>3 DEF Increasing, Alive, Handled, Pos
<1>4. CASE WorkerHandle
  <2>1. /\ wpc = "handle" /\ wpc' # "handle"
        /\ got' = IF wpkt.kind = "POSE" THEN wpkt.pose ELSE got
        /\ UNCHANGED <<qpose, mail, posed, qpc>>
    BY <1>4 DEF WorkerHandle, Goto, Answers, questVars
  <2> QED BY <1>1, <2>1 DEF Increasing, Older, Alive, Handled, Pos
<1> QED BY <1>2, <1>3, <1>4

LEMMA IncreasingNext ==
  ASSUME InOrder, [Next]_vars
  PROVE  Increasing'
<1> USE BoundsAssumption DEF InOrder, Alive, mainVars, workVars, netVars, questVars,
           HostVars, Goto, QGoto, MainGoto
<1>1. CASE WorkerPublish
  BY <1>1, QuietKeeps DEF WorkerPublish, CloseConn, Conns
<1>2. CASE WorkerLeave
  BY <1>2, QuietKeeps DEF WorkerLeave, CloseConn, Conns
<1>3. CASE StopClient
  BY <1>3, QuietKeeps DEF StopClient, CloseConn, Conns
<1>4. CASE WorkerAccept
  BY <1>4, QuietKeeps DEF WorkerAccept, Backlog
<1>5. CASE StopListen
  BY <1>5, QuietKeeps DEF StopListen, Backlog
<1>6. CASE QuestConnect
  <2>1. \A c \in Conns : sock'[c] \in {"backlog", "open"} => Alive(c) \/ q2h[c] = <<>>
    BY <1>6 DEF QuestConnect, Lined, Linked, TypeNet
  <2> QED BY <1>6, <2>1, QuietKeeps DEF QuestConnect
<1>7. CASE WorkerRead
  BY <1>7, ReadKeeps
<1>8. CASE QuestSendPose
  BY <1>8, SendPoseKeeps
<1>9. CASE QuestTakePose \/ WorkerHandle \/ PublishPose
  BY <1>9, MailKeeps
<1>10. CASE QuestHello
  <2>1. qfd \in Conns /\ qpc' # "sendPose" /\ UNCHANGED <<sock, got, qpose, mail, posed, wpkt, wpc>>
    BY <1>10 DEF Linked, TypeQuest, Conns, QuestHello
  <2>2. CASE UNCHANGED q2h
    BY <2>1, <2>2, QuietKeeps DEF Alive
  <2>3. CASE q2h' = [q2h EXCEPT ![qfd] = Append(@, Packet("HELLO"))]
    <3>1. Packet("HELLO") \in Packets /\ Packet("HELLO").kind # "POSE"
      BY BoundsAssumption DEF Packets, Packet
    <3> QED BY <2>1, <2>3, <3>1, OtherWritten
  <2> QED BY <1>10, <2>2, <2>3 DEF QuestHello
<1>11. CASE QuestAck
  <2>1. qfd \in Conns /\ qpc' # "sendPose" /\ UNCHANGED <<sock, got, qpose, mail, posed, wpkt, wpc>>
    BY <1>11 DEF Linked, TypeQuest, Conns, QuestAck, QuestWrite
  <2>2. CASE UNCHANGED q2h
    BY <2>1, <2>2, QuietKeeps DEF Alive
  <2>3. CASE q2h' = [q2h EXCEPT ![qfd] = Append(@, Packet("ACK"))]
    <3>1. Packet("ACK") \in Packets /\ Packet("ACK").kind # "POSE"
      BY BoundsAssumption DEF Packets, Packet
    <3> QED BY <2>1, <2>3, <3>1, OtherWritten
  <2> QED BY <1>11, <2>2, <2>3 DEF QuestAck, QuestWrite
<1>12. CASE QuestBeat
  <2>1. qfd \in Conns /\ qpc' # "sendPose" /\ UNCHANGED <<sock, got, qpose, mail, posed, wpkt, wpc>>
    BY <1>12 DEF Linked, TypeQuest, Conns, QuestBeat, QuestWrite
  <2>2. CASE UNCHANGED q2h
    BY <2>1, <2>2, QuietKeeps DEF Alive
  <2>3. CASE q2h' = [q2h EXCEPT ![qfd] = Append(@, Packet("BEAT"))]
    <3>1. Packet("BEAT") \in Packets /\ Packet("BEAT").kind # "POSE"
      BY BoundsAssumption DEF Packets, Packet
    <3> QED BY <2>1, <2>3, <3>1, OtherWritten
  <2> QED BY <1>12, <2>2, <2>3 DEF QuestBeat, QuestWrite
<1>13. CASE VideoTop \/ VideoLock \/ VideoWrite \/ WorkerTop \/ WorkerAcceptFails \/
           WorkerLoop \/ WorkerReadEnds \/ WorkerLock \/ WorkerWrite \/ Start \/
           Signal \/ MainLeaves \/ StopBegin \/ StopJoin
  BY <1>13, QuietKeeps DEF VideoTop, VideoLock, VideoWrite, WorkerTop,
         WorkerAcceptFails, WorkerLoop, WorkerReadEnds, WorkerLock, WorkerWrite,
         Start, Signal, MainLeaves, StopBegin, StopJoin, QuestWrite
<1>14. CASE QuestTop \/ QuestReceive \/ QuestNothing \/ QuestClose \/ StopTransport
  BY <1>14, QuietKeeps DEF QuestTop, QuestReceive, QuestNothing, QuestClose,
         StopTransport, QuestWrite
<1>15. CASE UNCHANGED vars
  BY <1>15, QuietKeeps DEF vars
<1> QED BY <1>1, <1>2, <1>3, <1>4, <1>5, <1>6, <1>7, <1>8, <1>9, <1>10, <1>11,
        <1>12, <1>13, <1>14, <1>15 DEF Next, Video, Worker, WorkerLocks, Main, Quest

LEMMA InitInOrder == Init => InOrder
<1> SUFFICES ASSUME Init PROVE InOrder
  OBVIOUS
<1>1. Lined
  BY DEF Init, Lined
<1>2. \A c \in Conns : \A i, n \in Nat : ~Pos(c, i, n)
  BY DEF Init, Pos, In
<1>3. Increasing
  BY <1>2 DEF Init, Increasing, Older, Handled
<1> QED BY <1>1, <1>3, InitLinked DEF InOrder

LEMMA AlwaysInOrder == Spec => []InOrder
<1>1. ASSUME InOrder, [Next]_vars PROVE InOrder'
  <2>1. Linked'
    BY <1>1, HostNext, NetNext, QuestNext, QueuesNext, ServingNext DEF Linked, InOrder
  <2> QED BY <1>1, <2>1, LinedNext, IncreasingNext DEF InOrder
<1> QED BY <1>1, InitInOrder, PTL DEF Spec

(* The host handles the poses in the order in which they were published,    *)
(* each at most once, over any number of connections (native_main.cpp 36-41, *)
(* tcp_server.cpp 151-207).                                                *)
THEOREM LinkPosesInOrder == Spec => PosesInOrder
<1>1. ASSUME InOrder PROVE [Handling /\ wpkt.kind = "POSE" => wpkt.pose > got]_vars
  <2>1. ASSUME Handling, wpkt.kind = "POSE" PROVE wpkt.pose > got
    <3>1. got < wpkt.pose
      BY <1>1, <2>1 DEF InOrder, Increasing, Handled, Handling
    <3>2. got \in Nat /\ wpkt.pose \in Nat
      BY <1>1, BoundsAssumption DEF InOrder, Linked, TypeHost, TypeQueues, Packets
    <3> QED BY <3>1, <3>2
  <2> QED BY <2>1
<1> QED BY <1>1, AlwaysInOrder, PTL DEF PosesInOrder

-----------------------------------------------------------------------------
(* The ring closed: the transport thread is in a write for which there is   *)
(* no room.  (At "beat" it may find that no heartbeat is due.)             *)
Blocked == Ring /\ qpc # "beat" /\ (qpc \in {"ack", "lastAck"} => acks = 1)

Reached == /\ qfd # 0 => peer[qfd] = "up"
           /\ main = "done" => wpc = "off"

LEMMA ReachedStep == Linked /\ Reached /\ [Next]_vars => Reached'
<1> SUFFICES ASSUME Linked, Reached, [Next]_vars PROVE Reached'
  OBVIOUS
<1> USE DEF Reached, mainVars, workVars, netVars, questVars, HostVars
<1>0. peer \in [Conns -> {"away", "up", "gone"}] /\ qfd \in 0..MaxConn
      /\ (main = "start" => wpc = "off")
  BY DEF Linked, TypeNet, TypeQuest, Serving
<1>1. CASE VideoTop \/ VideoLock \/ VideoWrite
  BY <1>1 DEF VideoTop, VideoLock, VideoWrite
<1>2. CASE WorkerTop \/ WorkerAccept \/ WorkerAcceptFails \/ WorkerLoop \/ WorkerHandle
  BY <1>2 DEF WorkerTop, WorkerAccept, WorkerAcceptFails, WorkerLoop, WorkerHandle, Goto
<1>3. CASE WorkerRead \/ WorkerReadEnds \/ WorkerWrite \/ WorkerLocks
  BY <1>3 DEF WorkerRead, WorkerReadEnds, WorkerWrite, WorkerLocks, WorkerPublish,
              WorkerLock, WorkerLeave, Goto
<1>4. CASE Signal \/ MainLeaves \/ StopBegin \/ StopClient \/ StopListen \/ StopJoin
  BY <1>4 DEF Signal, MainLeaves, StopBegin, StopClient, StopListen, StopJoin, MainGoto
<1>5. CASE Start
  BY <1>0, <1>5 DEF Start, MainGoto
<1>6. CASE QuestConnect \/ QuestClose
  BY <1>0, <1>6 DEF QuestConnect, QuestClose, QGoto, Conns
<1>7. CASE QuestHello \/ QuestTop \/ QuestReceive \/ QuestNothing \/ QuestAck
  BY <1>7 DEF QuestHello, QuestTop, QuestReceive, QuestNothing, QuestAck
<1>8. CASE QuestBeat \/ QuestTakePose \/ QuestSendPose \/ PublishPose \/ StopTransport
  BY <1>8 DEF QuestBeat, QuestTakePose, QuestSendPose, PublishPose, StopTransport
<1>9. CASE UNCHANGED vars
  BY <1>9 DEF vars
<1> QED BY <1>1, <1>2, <1>3, <1>4, <1>5, <1>6, <1>7, <1>8, <1>9
        DEF Next, Video, Worker, Main, Quest

(* Neither end of the ring can move, and nothing else opens it. *)
LEMMA BlockedStays == Linked /\ Reached /\ Blocked /\ [Next]_vars => Blocked'
<1> SUFFICES ASSUME Linked, Reached, Blocked, [Next]_vars PROVE Blocked'
  OBVIOUS
<1> USE DEF mainVars, workVars, netVars, questVars, HostVars
<1>1. /\ qfd # 0 /\ clientFd = qfd /\ qfd \in Conns
      /\ peer[qfd] = "up" /\ sock[qfd] = "open"
      /\ ~(Len(q2h[qfd]) < Cap) /\ ~(Len(h2q[qfd]) < Cap)
      /\ mutex # "free" /\ wpc \in {"lock", "leave", "write"}
      /\ wpc # "write" => vpc = "write"
      /\ main \notin {"start", "done"}
      /\ qpc \in {"ack", "lastAck", "sendPose"}
      /\ qpc \in {"ack", "lastAck"} => acks = 1
  BY BoundsAssumption DEF Linked, TypeHost, TypeQuest, Serving, Reached, Blocked, Ring, Conns
<1>2. ~HostWrite("VIDEO")
      /\ ~HostWrite(IF wpkt.kind = "POSE" THEN "VIDEO" ELSE wpkt.kind)
  BY <1>1 DEF HostWrite
<1>3. \A p, here, sent : ~QuestWrite(p, here, sent)
  BY <1>1 DEF QuestWrite
<1>4. UNCHANGED <<qfd, clientFd, q2h, h2q, qpc, acks, wpc>> /\ (wpc # "write" => vpc' = vpc)
  <2>1. CASE Video
    BY <1>1, <1>2, <2>1 DEF Video, VideoTop, VideoLock, VideoWrite
  <2>2. CASE Worker
    BY <1>1, <1>2, <2>2
       DEF Worker, WorkerTop, WorkerAccept, WorkerAcceptFails, WorkerLoop, WorkerRead,
           WorkerReadEnds, WorkerHandle, WorkerWrite, WorkerLocks, WorkerPublish,
           WorkerLock, WorkerLeave, Goto
  <2>3. CASE Signal \/ Main
    BY <1>1, <2>3 DEF Signal, Main, Start, MainLeaves, StopBegin, StopClient, StopListen,
                      StopJoin, MainGoto
  <2>4. CASE Quest
    <3>1. ~QuestAck /\ ~QuestSendPose
      BY <1>1, <1>3 DEF QuestAck, QuestSendPose, QGoto
    <3>2. ~QuestConnect /\ ~QuestHello /\ ~QuestTop /\ ~QuestTakePose /\ ~QuestClose
      BY <1>1 DEF QuestConnect, QuestHello, QuestTop, QuestTakePose, QuestClose, QGoto
    <3>3. ~QuestReceive /\ ~QuestNothing
      BY <1>1 DEF QuestReceive, QuestNothing, QGoto
    <3>4. ~QuestBeat
      BY <1>1, <1>3 DEF QuestBeat, QGoto
    <3> QED BY <2>4, <3>1, <3>2, <3>3, <3>4 DEF Quest
  <2>5. CASE PublishPose \/ StopTransport
    BY <1>1, <2>5 DEF PublishPose, StopTransport
  <2>6. CASE UNCHANGED vars
    BY <2>6 DEF vars
  <2> QED BY <2>1, <2>2, <2>3, <2>4, <2>5, <2>6 DEF Next
<1> QED BY <1>1, <1>4 DEF Blocked, Ring

(* Once the ring is closed nothing resolves it, not a signal and not        *)
(* stopTransport(): neither TcpServer::stop() nor the join of the headset's *)
(* transport thread returns (tcp_server.cpp 118-130, native_main.cpp        *)
(* 233-240).                                                               *)
THEOREM RingIsForever == Spec => [](Blocked => [](Blocked /\ main # "done" /\ qpc # "off"))
<1>1. Init => Reached
  BY DEF Init, Reached
<1>2. Reached /\ Blocked => main # "done" /\ qpc # "off"
  BY DEF Reached, Blocked, Ring
<1> QED BY <1>1, <1>2, AlwaysLinked, ReachedStep, BlockedStays, PTL DEF Spec

-----------------------------------------------------------------------------
(* Recursion: a function computed from its value before. *)
Less == {q \in Nat \X Nat : q[1] < q[2]}

LEMMA Least ==
  ASSUME NEW T, T \subseteq Nat, T # {}
  PROVE  \E m \in T : \A y \in T : y >= m
<1>1. Less = OpToRel(<, Nat)
  BY DEF Less, OpToRel
<1>2. IsWellFoundedOn(Less, Nat)
  BY <1>1, NatLessThanWellFounded
<1>3. PICK m \in T : \A y \in T : ~(<<y, m>> \in Less)
  BY <1>2, WFMin
<1>4. ASSUME NEW y \in T PROVE y >= m
  <2>1. ~(<<y, m>> \in Less) /\ y \in Nat /\ m \in Nat
    BY <1>3
  <2> QED BY <2>1 DEF Less
<1> QED BY <1>4

(* g is x and then, for n steps, step[k] of its value before. *)
Runs(g, n, x, step) ==
  g[0] = x /\ \A k \in 1..n : g[k] = step[k][g[k - 1]]

LEMMA RunExists ==
  ASSUME NEW n \in Nat, NEW S, NEW x \in S, NEW step \in [1..n -> [S -> S]]
  PROVE  \E g \in [0..n -> S] : Runs(g, n, x, step)
<1> DEFINE T == {k \in 0..n : ~ \E g \in [0..k -> S] : Runs(g, k, x, step)}
<1>1. ASSUME T # {} PROVE FALSE
  <2>1. PICK k \in T : \A y \in T : y >= k
    <3>1. T \subseteq Nat
      OBVIOUS
    <3> QED BY <1>1, <3>1, Least
  <2>2. k # 0
    <3>1. ASSUME k = 0 PROVE FALSE
      <4>1. [i \in 0..0 |-> x] \in [0..0 -> S] /\ Runs([i \in 0..0 |-> x], 0, x, step)
        BY DEF Runs
      <4> QED BY <3>1, <4>1
    <3> QED BY <3>1
  <2>3. k - 1 \in 0..n /\ k - 1 \notin T /\ k \in 1..n
    <3>1. k \in 0..n /\ ~(k - 1 >= k)
      OBVIOUS
    <3>2. k - 1 \in 0..n
      BY <2>2, <3>1
    <3> QED BY <2>1, <2>2, <3>1, <3>2
  <2>4. PICK g \in [0..k - 1 -> S] : Runs(g, k - 1, x, step)
    BY <2>3
  <2> DEFINE t == [i \in 0..k |-> IF i = k THEN step[k][g[k - 1]] ELSE g[i]]
  <2>5. g[k - 1] \in S /\ step[k] \in [S -> S]
    BY <2>3
  <2>6. t \in [0..k -> S]
    BY <2>3, <2>5
  <2>7. \A i \in 0..k - 1 : t[i] = g[i]
    BY <2>3
  <2>8. t[k] = step[k][g[k - 1]]
    BY <2>3
  <2> HIDE DEF t
  <2>9. t[0] = x
    BY <2>3, <2>4, <2>7 DEF Runs
  <2>10. ASSUME NEW i \in 1..k PROVE t[i] = step[i][t[i - 1]]
    <3>1. CASE i = k
      BY <2>3, <2>7, <2>8, <3>1
    <3>2. CASE i # k
      <4>1. i \in 1..k - 1 /\ i \in 0..k - 1 /\ i - 1 \in 0..k - 1
        BY <2>3, <3>2
      <4> QED BY <2>4, <2>7, <4>1 DEF Runs
    <3> QED BY <3>1, <3>2
  <2>11. Runs(t, k, x, step)
    BY <2>9, <2>10 DEF Runs
  <2> QED BY <2>6, <2>11
<1> QED BY <1>1

LEMMA RunUnique ==
  ASSUME NEW n \in Nat, NEW x, NEW step, NEW g, NEW h,
         Runs(g, n, x, step), Runs(h, n, x, step)
  PROVE  \A k \in 0..n : g[k] = h[k]
<1> DEFINE T == {k \in 0..n : g[k] # h[k]}
<1>1. ASSUME T # {} PROVE FALSE
  <2>1. PICK k \in T : \A y \in T : y >= k
    <3>1. T \subseteq Nat
      OBVIOUS
    <3> QED BY <1>1, <3>1, Least
  <2>2. k \in 0..n /\ g[k] # h[k] /\ k # 0
    BY DEF Runs
  <2>3. k - 1 \in 0..n /\ k \in 1..n
    BY <2>2
  <2>4. g[k - 1] = h[k - 1]
    <3>1. ~(k - 1 >= k)
      BY <2>2
    <3> QED BY <2>1, <2>3, <3>1
  <2>5. g[k] = step[k][g[k - 1]] /\ h[k] = step[k][h[k - 1]]
    BY <2>3 DEF Runs
  <2> QED BY <2>2, <2>4, <2>5
<1> QED BY <1>1

(* A function that takes these steps as long as its values are in S stays in S. *)
RunsIn(h, n, S, x, step) ==
  h[0] = x /\ \A k \in 1..n : h[k - 1] \in S => h[k] = step[k][h[k - 1]]

LEMMA RunStays ==
  ASSUME NEW n \in Nat, NEW S, NEW x \in S, NEW step \in [1..n -> [S -> S]],
         NEW h, RunsIn(h, n, S, x, step)
  PROVE  Runs(h, n, x, step) /\ \A k \in 0..n : h[k] \in S
<1> DEFINE T == {k \in 0..n : h[k] \notin S}
<1>1. ASSUME T # {} PROVE FALSE
  <2>1. PICK k \in T : \A y \in T : y >= k
    <3>1. T \subseteq Nat
      OBVIOUS
    <3> QED BY <1>1, <3>1, Least
  <2>2. k \in 0..n /\ h[k] \notin S /\ k # 0
    BY DEF RunsIn
  <2>3. k - 1 \in 0..n /\ k \in 1..n /\ ~(k - 1 >= k)
    BY <2>2
  <2>4. h[k - 1] \in S
    BY <2>1, <2>3
  <2>5. h[k] = step[k][h[k - 1]] /\ step[k] \in [S -> S]
    BY <2>3, <2>4 DEF RunsIn
  <2> QED BY <2>2, <2>4, <2>5
<1>2. \A k \in 0..n : h[k] \in S
  BY <1>1
<1>3. ASSUME NEW k \in 1..n PROVE h[k] = step[k][h[k - 1]]
  <2>1. k - 1 \in 0..n
    OBVIOUS
  <2> QED BY <1>2, <2>1 DEF RunsIn
<1> QED BY <1>2, <1>3 DEF Runs, RunsIn

-----------------------------------------------------------------------------
(* The fields of a text hold its letters but the separators. *)
Split(fields, text, separators) ==
  fields = [k \in 0..Len(text) |->
              IF k = 0 THEN << <<>> >>
              ELSE Extend(fields[k - 1], text[k], separators)]

LEMMA FieldsIs ==
  ASSUME NEW text, NEW separators
  PROVE  Fields(text, separators)
           = (CHOOSE fields : Split(fields, text, separators))[Len(text)]
BY DEF Fields, Split

FieldLists(A, separators) == {fs \in Seq(Seq(A \ separators)) : Len(fs) > 0}

FieldSteps(text, A, separators) ==
  [k \in 1..Len(text) |->
     [fs \in FieldLists(A, separators) |-> Extend(fs, text[k], separators)]]

LEMMA ExtendType ==
  ASSUME NEW A, NEW separators, NEW fs \in FieldLists(A, separators), NEW c \in A
  PROVE  Extend(fs, c, separators) \in FieldLists(A, separators)
<1> DEFINE B == Seq(A \ separators)
<1>1. fs \in Seq(B) /\ Len(fs) \in Nat /\ Len(fs) > 0
  BY DEF FieldLists
<1>2. CASE c \in separators
  <2>1. <<>> \in B
    OBVIOUS
  <2> HIDE DEF B
  <2>2. Append(fs, <<>>) \in Seq(B) /\ Len(Append(fs, <<>>)) = Len(fs) + 1
    BY <1>1, <2>1
  <2> QED BY <1>1, <1>2, <2>2 DEF Extend, FieldLists, B
<1>3. CASE c \notin separators
  <2>1. fs[Len(fs)] \in B
    BY <1>1
  <2>2. Append(fs[Len(fs)], c) \in B
    BY <1>3, <2>1
  <2> HIDE DEF B
  <2> DEFINE new == [fs EXCEPT ![Len(fs)] = Append(@, c)]
  <2>3. new \in [1..Len(fs) -> B]
    BY <1>1, <2>2
  <2>4. new \in Seq(B) /\ Len(new) = Len(fs)
    BY <1>1, <2>3
  <2> QED BY <1>1, <1>3, <2>4 DEF Extend, FieldLists, B
<1> QED BY <1>2, <1>3

LEMMA FieldsRun ==
  ASSUME NEW A, NEW separators, NEW text \in Seq(A)
  PROVE  \E g \in [0..Len(text) -> FieldLists(A, separators)] :
           /\ Runs(g, Len(text), << <<>> >>, FieldSteps(text, A, separators))
           /\ Fields(text, separators) = g[Len(text)]
<1> DEFINE n == Len(text)
           S == FieldLists(A, separators)
           step == FieldSteps(text, A, separators)
<1>0. n \in Nat /\ \A k \in 1..n : text[k] \in A
  OBVIOUS
<1>1. << <<>> >> \in S
  <2>1. << <<>> >> \in Seq(Seq(A \ separators)) /\ Len(<< <<>> >>) = 1
    OBVIOUS
  <2> QED BY <2>1 DEF FieldLists
<1>2. step \in [1..n -> [S -> S]]
  BY <1>0, ExtendType DEF FieldSteps
<1> HIDE DEF n, S
<1>3. PICK g \in [0..n -> S] : Runs(g, n, << <<>> >>, step)
  BY <1>0, <1>1, <1>2, RunExists
<1>4. \A k \in 1..n : g[k] = Extend(g[k - 1], text[k], separators)
  <2> TAKE k \in 1..n
  <2>1. k - 1 \in 0..n /\ g[k - 1] \in S
    BY <1>0, <1>3
  <2> QED BY <1>3, <2>1 DEF Runs, FieldSteps, n, S
<1>5. Split(g, text, separators)
  <2>1. g = [k \in 0..n |-> g[k]]
    BY <1>3
  <2>2. \A k \in 0..n : g[k] = IF k = 0 THEN << <<>> >>
                               ELSE Extend(g[k - 1], text[k], separators)
    BY <1>0, <1>3, <1>4 DEF Runs
  <2> QED BY <2>1, <2>2, Zenon DEF Split, n
<1>6. PICK h : h = (CHOOSE fields : Split(fields, text, separators))
               /\ Split(h, text, separators)
  BY <1>5, Zenon
<1>7. /\ h \in [0..n -> S]
      /\ Runs(h, n, << <<>> >>, step)
  <2>1. h[0] = << <<>> >> /\ DOMAIN h = 0..n
    BY <1>0, <1>6 DEF Split, n
  <2>2. ASSUME NEW k \in 1..n, h[k - 1] \in S PROVE h[k] = step[k][h[k - 1]]
    <3>1. k \in 0..n /\ k # 0
      BY <1>0
    <3>2. h[k] = Extend(h[k - 1], text[k], separators)
      BY <1>6, <3>1 DEF Split, n
    <3> QED BY <2>2, <3>2 DEF FieldSteps, n, S
  <2> DEFINE x == << <<>> >>
  <2>5. RunsIn(h, n, S, x, step) /\ x \in S
    BY <1>1, <2>1, <2>2 DEF RunsIn
  <2> HIDE DEF step, x
  <2>6. Runs(h, n, x, step) /\ \A k \in 0..n : h[k] \in S
    BY <1>0, <1>2, <2>5, RunStays
  <2>3. Runs(h, n, << <<>> >>, step) /\ \A k \in 0..n : h[k] \in S
    BY <2>6 DEF x
  <2>4. h = [k \in 0..n |-> h[k]]
    BY <1>6, <2>1 DEF Split
  <2> QED BY <2>3, <2>4
<1> QED BY <1>6, <1>7, FieldsIs DEF n, S

-----------------------------------------------------------------------------
(* A text without newlines and blanks. *)
Solid == Letters \ {"newline", "blank"}

LEMMA SeparatorsDoNotMatter ==
  ASSUME NEW A, NEW s, NEW t, \A c \in A : c \in s <=> c \in t,
         NEW text \in Seq(A)
  PROVE  Fields(text, s) = Fields(text, t)
<1>1. FieldLists(A, s) = FieldLists(A, t)
  <2>1. A \ s = A \ t
    OBVIOUS
  <2> QED BY <2>1 DEF FieldLists
<1>2. FieldSteps(text, A, s) = FieldSteps(text, A, t)
  <2>1. ASSUME NEW c \in A, NEW fs PROVE Extend(fs, c, s) = Extend(fs, c, t)
    BY DEF Extend
  <2>2. \A k \in 1..Len(text) : text[k] \in A
    OBVIOUS
  <2> QED BY <1>1, <2>1, <2>2 DEF FieldSteps
<1>3. PICK g \in [0..Len(text) -> FieldLists(A, s)] :
        /\ Runs(g, Len(text), << <<>> >>, FieldSteps(text, A, s))
        /\ Fields(text, s) = g[Len(text)]
  BY FieldsRun, Zenon
<1>4. PICK h \in [0..Len(text) -> FieldLists(A, t)] :
        /\ Runs(h, Len(text), << <<>> >>, FieldSteps(text, A, t))
        /\ Fields(text, t) = h[Len(text)]
  BY FieldsRun, Zenon
<1>5. Len(text) \in Nat /\ Len(text) \in 0..Len(text)
  OBVIOUS
<1>6. \A k \in 0..Len(text) : g[k] = h[k]
  <2> DEFINE n == Len(text)
             x == << <<>> >>
             step == FieldSteps(text, A, s)
  <2>1. n \in Nat /\ Runs(g, n, x, step) /\ Runs(h, n, x, step)
    BY <1>2, <1>3, <1>4, <1>5
  <2> HIDE DEF n, x, step
  <2>2. \A k \in 0..n : g[k] = h[k]
    BY <2>1, RunUnique
  <2> QED BY <2>2 DEF n
<1> QED BY <1>3, <1>4, <1>5, <1>6

LEMMA FieldsType ==
  ASSUME NEW A, NEW separators, NEW text \in Seq(A)
  PROVE  /\ Fields(text, separators) \in Seq(Seq(A \ separators))
         /\ \A k \in DOMAIN Fields(text, separators) :
              k \in Nat /\ Fields(text, separators)[k] \in Seq(A)
<1> DEFINE fields == Fields(text, separators)
<1>1. PICK g \in [0..Len(text) -> FieldLists(A, separators)] : fields = g[Len(text)]
  BY FieldsRun, Zenon
<1>2. Len(text) \in 0..Len(text)
  OBVIOUS
<1> HIDE DEF fields
<1>3. fields \in Seq(Seq(A \ separators))
  BY <1>1, <1>2 DEF FieldLists
<1>4. ASSUME NEW k \in DOMAIN fields PROVE k \in Nat /\ fields[k] \in Seq(A)
  <2> DEFINE B == Seq(A \ separators)
  <2>1. B \subseteq Seq(A)
    <3>1. ASSUME NEW t \in B PROVE t \in Seq(A)
      <4>1. Len(t) \in Nat /\ t \in [1..Len(t) -> A]
        OBVIOUS
      <4> QED BY <4>1
    <3> QED BY <3>1
  <2>2. fields \in Seq(B)
    BY <1>3
  <2> HIDE DEF B
  <2>3. k \in 1..Len(fields) /\ Len(fields) \in Nat /\ fields[k] \in B
    BY <2>2
  <2> QED BY <2>1, <2>3
<1> QED BY <1>3, <1>4 DEF fields

LEMMA KeyAndValue ==
  ASSUME NEW field \in Seq(Solid), HasEqual(field)
  PROVE  Key(field) \in Seq(Solid) /\ Value(field) \in Seq(Solid)
<1> DEFINE T == {i \in DOMAIN field : field[i] = "="}
<1>1. T \subseteq Nat /\ T # {} /\ DOMAIN field = 1..Len(field) /\ Len(field) \in Nat
  BY DEF HasEqual, Contains
<1>2. PICK m \in T : \A y \in T : y >= m
  BY <1>1, Least
<1>3. m \in DOMAIN field /\ field[m] = "=" /\ \A j \in 1..m - 1 : field[j] # "="
  <2>1. ASSUME NEW j \in 1..m - 1 PROVE field[j] # "="
    <3>1. j \in DOMAIN field /\ ~(j >= m)
      BY <1>1, <1>2
    <3> QED BY <1>2, <3>1
  <2> QED BY <1>2, <2>1
<1>4. Equal(field) \in DOMAIN field
  BY <1>3 DEF Equal
<1> DEFINE e == Equal(field)
<1> HIDE DEF e
<1>5. e \in 1..Len(field)
  BY <1>1, <1>4 DEF e
<1>6. SubSeq(field, 1, e - 1) \in Seq(Solid)
  BY <1>1, <1>5
<1>7. SubSeq(field, e + 1, Len(field)) \in Seq(Solid)
  BY <1>1, <1>5
<1> QED BY <1>6, <1>7 DEF Key, Value, e

LEMMA NothingToStrip ==
  ASSUME NEW text \in Seq(Solid)
  PROVE  Strip(text) = text
<1> DEFINE solid == {i \in DOMAIN text : text[i] # "blank"}
           n == Len(text)
<1>1. n \in Nat /\ solid = 1..n
  BY DEF Solid
<1>2. CASE n = 0
  <2>1. text = <<>> /\ solid = {}
    BY <1>1, <1>2
  <2> QED BY <2>1 DEF Strip
<1>3. CASE n > 0
  <2> HIDE DEF n, solid
  <2>1. Min(1..n) = 1
    <3>1. 1 \in 1..n /\ \A y \in 1..n : 1 <= y
      BY <1>1, <1>3
    <3>2. \A x \in 1..n : (\A y \in 1..n : x <= y) => x = 1
      BY <1>1, <1>3
    <3> QED BY <3>1, <3>2 DEF Min
  <2>2. Max(1..n) = n
    <3>1. n \in 1..n /\ \A y \in 1..n : n >= y
      BY <1>1, <1>3
    <3>2. \A x \in 1..n : (\A y \in 1..n : x >= y) => x = n
      BY <1>1, <1>3
    <3> QED BY <3>1, <3>2 DEF Max
  <2>3. solid # {}
    BY <1>1, <1>3
  <2>4. Strip(text) = SubSeq(text, 1, n)
    BY <1>1, <2>1, <2>2, <2>3 DEF Strip, solid
  <2>5. SubSeq(text, 1, n) = text
    BY <1>1 DEF n
  <2> QED BY <2>4, <2>5
<1> QED BY <1>1, <1>2, <1>3

(* The three parsers read the same of any text in the senders' form. *)
THEOREM ParsersReadTheSame ==
  ASSUME NEW text \in Seq(Letters), Written(text), NEW key
  PROVE  /\ FindKeyValue(text, key) = ParseKeyValue(text, key)
         /\ ParsePython(text, key) = ParseKeyValue(text, key)
<1>1. text \in Seq(Solid)
  <2>0. \A i \in DOMAIN text : text[i] \notin {"newline", "blank"}
    BY Zenon DEF Written
  <2>1. \A i \in 1..Len(text) : text[i] \in Solid
    BY <2>0 DEF Solid
  <2>2. text = [i \in 1..Len(text) |-> text[i]] /\ Len(text) \in Nat
    OBVIOUS
  <2> QED BY <2>1, <2>2
<1> DEFINE one == {";"}
           two == {";", "newline"}
           fields == Fields(text, one)
           found == {k \in DOMAIN fields : HasEqual(fields[k]) /\ Key(fields[k]) = key}
<1>2. Fields(text, two) = fields
  <2>1. \A c \in Solid : c \in one <=> c \in two
    BY Zenon DEF Solid
  <2> HIDE DEF one, two
  <2>2. Fields(text, two) = Fields(text, one)
    BY <1>1, <2>1, SeparatorsDoNotMatter, Zenon
  <2> QED BY <2>2
<1>3. FindKeyValue(text, key) = ParseKeyValue(text, key)
  BY <1>2 DEF FindKeyValue, ParseKeyValue
<1>4. \A k \in DOMAIN fields : k \in Nat /\ fields[k] \in Seq(Solid)
  BY <1>1, FieldsType, Zenon
<1>5. found = {k \in DOMAIN fields :
                 HasEqual(fields[k]) /\ Strip(Key(fields[k])) = key}
  BY <1>4, KeyAndValue, NothingToStrip
<1>6. \A j, k \in found : j = k
  BY DEF Written
<1> HIDE DEF fields
<1>7. ParsePython(text, key) = Strip(IF found = {} THEN <<>> ELSE Value(fields[Max(found)]))
  BY <1>2, <1>5 DEF ParsePython, Pick
<1>8. ParseKeyValue(text, key) = IF found = {} THEN <<>> ELSE Value(fields[Min(found)])
  BY DEF ParseKeyValue, Pick, fields
<1>9. CASE found = {}
  <2>1. Strip(<<>>) = <<>>
    <3>1. <<>> \in Seq(Solid)
      OBVIOUS
    <3> QED BY <3>1, NothingToStrip
  <2> QED BY <1>3, <1>7, <1>8, <1>9, <2>1
<1>10. ASSUME NEW k \in found PROVE ParsePython(text, key) = ParseKeyValue(text, key)
  <2>1. found = {k}
    BY <1>6
  <2>2. k \in Nat
    BY <1>4
  <2>3. Max({k}) = k /\ Min({k}) = k
    BY <2>2 DEF Max, Min
  <2>4. Strip(Value(fields[k])) = Value(fields[k])
    BY <1>4, KeyAndValue, NothingToStrip
  <2> QED BY <1>7, <1>8, <2>1, <2>3, <2>4
<1> QED BY <1>3, <1>9, <1>10

THEOREM ParsersAlwaysAgree == Spec => []ParsersAgree
<1>1. Disputed = {}
  <2>1. ASSUME NEW text \in Texts, Written(text), NEW key
        PROVE  /\ FindKeyValue(text, key) = ParseKeyValue(text, key)
               /\ ParsePython(text, key) = ParseKeyValue(text, key)
    <3>1. PICK m \in 0..6 : text \in [1..m -> Letters]
      BY DEF Texts, BoundedSeq, SeqOf
    <3>2. text \in Seq(Letters)
      BY <3>1
    <3> QED BY <2>1, <3>2, ParsersReadTheSame
  <2>2. Disputed \subseteq {}
    <3> SUFFICES ASSUME NEW text \in Disputed PROVE FALSE
      OBVIOUS
    <3>1. text \in Texts /\ Written(text)
      BY Zenon DEF Disputed
    <3>2. PICK key :
            \E a, b \in {FindKeyValue(text, key), ParseKeyValue(text, key),
                        ParsePython(text, key)} : a # b
      BY Zenon DEF Disputed
    <3> QED BY <2>1, <3>1, <3>2
  <2> QED BY <2>2
<1>2. ParsersAgree
  BY <1>1 DEF ParsersAgree
<1> QED BY <1>2, PTL

-----------------------------------------------------------------------------
(* Cutting a sequence and joining the parts. *)
LEMMA CutJoins ==
  ASSUME NEW A, NEW s \in Seq(A), NEW n \in 0..Len(s)
  PROVE  /\ SubSeq(s, 1, n) \in Seq(A) /\ Len(SubSeq(s, 1, n)) = n
         /\ SubSeq(s, n + 1, Len(s)) \in Seq(A)
         /\ SubSeq(s, 1, n) \o SubSeq(s, n + 1, Len(s)) = s
<1>1. Len(s) \in Nat /\ n \in Nat /\ n <= Len(s) /\ n + 1 \in Int /\ Len(s) \in Int
  BY LenProperties
<1>2. \A i \in 1..Len(s) : s[i] \in A
  BY ElementOfSeq
<1>3. SubSeq(s, 1, n) \in Seq(A) /\ Len(SubSeq(s, 1, n)) = n
  <2>1. \A i \in 1..n : s[i] \in A
    BY <1>1, <1>2
  <2>2. CASE n = 0
    BY <2>2
  <2>3. CASE n > 0
    BY <1>1, <2>1, <2>3, SubSeqProperties
  <2> QED BY <1>1, <2>2, <2>3
<1>4. SubSeq(s, n + 1, Len(s)) \in Seq(A)
  <2>1. \A i \in n + 1..Len(s) : s[i] \in A
    BY <1>1, <1>2
  <2> QED BY <1>1, <2>1, SubSeqProperties
<1>5. SubSeq(s, 1, n) \o SubSeq(s, n + 1, Len(s)) = SubSeq(s, 1, Len(s))
  <2>1. 1 \in 1..Len(s) + 1 /\ n \in 1 - 1..Len(s) /\ Len(s) \in n..Len(s)
    BY <1>1
  <2> QED BY <2>1, ConcatAdjacentSubSeq
<1>6. SubSeq(s, 1, Len(s)) = s
  BY SubSeqFull
<1> QED BY <1>3, <1>4, <1>5, <1>6

LEMMA JoinCancels ==
  ASSUME NEW A, NEW a \in Seq(A), NEW b \in Seq(A), NEW c \in Seq(A), NEW d \in Seq(A),
         a \o b = c \o d, Len(a) = Len(c)
  PROVE  a = c /\ b = d
<1>1. Len(a) \in Nat /\ Len(b) \in Nat /\ Len(d) \in Nat
      /\ Len(a \o b) = Len(a) + Len(b) /\ Len(c \o d) = Len(c) + Len(d)
  BY LenProperties, ConcatProperties
<1>2. Len(b) = Len(d)
  BY <1>1
<1>3. ASSUME NEW i \in 1..Len(a) PROVE a[i] = c[i]
  <2>1. i \in 1..Len(a) + Len(b) /\ i <= Len(a) /\ i <= Len(c)
        /\ i \in 1..Len(c) + Len(d)
    BY <1>1, <1>2
  <2>2. (a \o b)[i] = a[i] /\ (c \o d)[i] = c[i]
    BY <2>1, ConcatProperties
  <2> QED BY <2>2
<1>4. ASSUME NEW i \in 1..Len(b) PROVE b[i] = d[i]
  <2> DEFINE k == Len(a) + i
  <2>1. k \in 1..Len(a) + Len(b) /\ ~(k <= Len(a)) /\ ~(k <= Len(c))
        /\ k \in 1..Len(c) + Len(d) /\ k - Len(a) = i /\ k - Len(c) = i
    BY <1>1, <1>2
  <2> HIDE DEF k
  <2>2. (a \o b)[k] = b[k - Len(a)]
    BY <2>1, ConcatProperties
  <2>3. (c \o d)[k] = d[k - Len(c)]
    BY <2>1, ConcatProperties
  <2> QED BY <2>1, <2>2, <2>3
<1>5. a = c
  BY <1>3, SeqEqual
<1>6. b = d
  BY <1>2, <1>4, SeqEqual
<1> QED BY <1>5, <1>6

LEMMA JoinLength ==
  ASSUME NEW A, NEW a \in Seq(A), NEW b \in Seq(A)
  PROVE  Len(a \o b) = Len(a) + Len(b)
BY ConcatProperties

LEMMA JoinSecond ==
  ASSUME NEW A, NEW a \in Seq(A), NEW b \in Seq(A),
         NEW k \in 1..Len(a) + Len(b), ~(k <= Len(a))
  PROVE  (a \o b)[k] = b[k - Len(a)]
BY ConcatProperties

LEMMA JoinAssociates ==
  ASSUME NEW A, NEW a \in Seq(A), NEW b \in Seq(A), NEW c \in Seq(A)
  PROVE  (a \o b) \o c = a \o (b \o c)
BY ConcatAssociative

-----------------------------------------------------------------------------
(* readExact: got and what is left of the wire are always the wire.        *)
Receivers(C, P) ==
  [wire : Seq(C), cuts : Seq(Nat \ {0}), got : Seq(C), out : Seq(P), left : BOOLEAN]

LEMMA SmallestOf ==
  ASSUME NEW T, T \subseteq Nat, T # {}
  PROVE  Smallest(T) \in T /\ \A m \in T : Smallest(T) <= m
<1>1. PICK n \in T : \A m \in T : m >= n
  BY Least
<1>2. \E k \in T : \A m \in T : k <= m
  BY <1>1
<1> QED BY <1>2 DEF Smallest

LEMMA RecvCuts ==
  ASSUME NEW C, NEW P, NEW r \in Receivers(C, P), NEW want \in Nat \ {0}
  PROVE  /\ Recv(r, want) \in Receivers(C, P)
         /\ Recv(r, want).out = r.out
         /\ Recv(r, want).got \o Recv(r, want).wire = r.got \o r.wire
         /\ Recv(r, want).left => Len(r.wire) = 0
         /\ Len(Recv(r, want).got) <= Len(r.got) + want
         /\ Recv(r, want).left \/ Len(Recv(r, want).got) > Len(r.got)
<1> DEFINE T == {want, Len(r.wire)} \union {r.cuts[k] : k \in DOMAIN r.cuts \intersect {1}}
           n == Smallest(T)
           a == SubSeq(r.wire, 1, n)
           b == SubSeq(r.wire, n + 1, Len(r.wire))
           rest == IF r.cuts = <<>> THEN r.cuts ELSE Tail(r.cuts)
<1>1. /\ r.wire \in Seq(C) /\ r.got \in Seq(C) /\ r.cuts \in Seq(Nat \ {0})
      /\ Len(r.wire) \in Nat /\ Len(r.got) \in Nat /\ DOMAIN r.cuts = 1..Len(r.cuts)
      /\ r.out \in Seq(P)
  BY DEF Receivers
<1>2. T \subseteq Nat /\ \A t \in T : t = Len(r.wire) \/ t > 0
  BY <1>1
<1>3. n \in T /\ n <= want /\ n <= Len(r.wire)
  BY <1>2, SmallestOf
<1>4. n \in 0..Len(r.wire) /\ n \in 0..want /\ (n = 0 => Len(r.wire) = 0)
  <2> HIDE DEF n, T
  <2>1. n \in Nat /\ (n = Len(r.wire) \/ n > 0)
    BY <1>2, <1>3
  <2> QED BY <1>1, <1>3, <2>1
<1>5. rest \in Seq(Nat \ {0})
  BY <1>1
<1>6. Recv(r, want) = [r EXCEPT !.got = r.got \o a, !.wire = b, !.cuts = rest, !.left = n = 0]
  BY DEF Recv
<1> HIDE DEF T, n, a, b, rest
<1>7. a \in Seq(C) /\ Len(a) = n /\ b \in Seq(C) /\ a \o b = r.wire
  <2> DEFINE w == r.wire
  <2>1. w \in Seq(C) /\ n \in 0..Len(w)
    BY <1>1, <1>4
  <2> HIDE DEF w
  <2>2. /\ SubSeq(w, 1, n) \in Seq(C) /\ Len(SubSeq(w, 1, n)) = n
        /\ SubSeq(w, n + 1, Len(w)) \in Seq(C)
        /\ SubSeq(w, 1, n) \o SubSeq(w, n + 1, Len(w)) = w
    BY <2>1, CutJoins
  <2> QED BY <2>2 DEF w, a, b
<1>8. Len(r.got \o a) = Len(r.got) + n /\ r.got \o a \in Seq(C)
  BY <1>1, <1>7, ConcatProperties
<1>9. (r.got \o a) \o b = r.got \o r.wire
  <2> DEFINE u == r.got
  <2>1. u \in Seq(C) /\ a \in Seq(C) /\ b \in Seq(C)
    BY <1>1, <1>7
  <2> HIDE DEF u
  <2>2. (u \o a) \o b = u \o (a \o b)
    <3> HIDE <1>7
    <3> QED BY <2>1, JoinAssociates
  <2> QED BY <1>7, <2>2 DEF u
<1> DEFINE e == [r EXCEPT !.got = r.got \o a, !.wire = b, !.cuts = rest, !.left = n = 0]
<1>10. /\ e.got = r.got \o a /\ e.wire = b /\ e.out = r.out /\ (e.left <=> n = 0)
       /\ e \in Receivers(C, P)
  BY <1>5, <1>7, <1>8 DEF Receivers
<1> HIDE DEF e
<1>11. Recv(r, want) = e
  BY <1>6 DEF e
<1>12. /\ e.got \o e.wire = r.got \o r.wire
       /\ e.left => Len(r.wire) = 0
       /\ Len(e.got) <= Len(r.got) + want
       /\ e.left \/ Len(e.got) > Len(r.got)
  <2>1. e.got \o e.wire = r.got \o r.wire
    BY <1>9, <1>10
  <2>2. e.left => Len(r.wire) = 0
    BY <1>4, <1>10
  <2>3. Len(e.got) = Len(r.got) + n
    BY <1>8, <1>10
  <2> QED BY <1>1, <1>4, <1>10, <2>1, <2>2, <2>3
<1> QED BY <1>10, <1>11, <1>12

Reading(C, P, r, size) ==
  {e \in Receivers(C, P) :
     /\ e.out = r.out /\ e.got \o e.wire = r.wire /\ Len(e.got) <= size
     /\ e.left => Len(r.wire) < size}

LEMMA ReadSomeKeeps ==
  ASSUME NEW C, NEW P, NEW r \in Receivers(C, P), NEW size \in Nat,
         NEW e \in Reading(C, P, r, size)
  PROVE  /\ ReadSome(e, size) \in Reading(C, P, r, size)
         /\ LET s == ReadSome(e, size)
            IN  s.left \/ Len(s.got) = size \/ Len(s.got) > Len(e.got)
<1>1. /\ e \in Receivers(C, P) /\ e.out = r.out /\ e.got \o e.wire = r.wire
      /\ Len(e.got) <= size /\ (e.left => Len(r.wire) < size)
  BY DEF Reading
<1>2. CASE e.left \/ Len(e.got) = size
  BY <1>2 DEF ReadSome
<1>3. CASE ~(e.left \/ Len(e.got) = size)
  <2> DEFINE want == size - Len(e.got)
             s == Recv(e, want)
  <2>1. e.got \in Seq(C) /\ e.wire \in Seq(C) /\ Len(e.got) \in Nat /\ Len(e.wire) \in Nat
    BY <1>1 DEF Receivers
  <2>2. want \in Nat \ {0} /\ Len(e.got) + want = size
    BY <1>1, <1>3, <2>1
  <2>3. Len(r.wire) = Len(e.got) + Len(e.wire)
    <3>1. Len(e.got \o e.wire) = Len(e.got) + Len(e.wire)
      BY <2>1, JoinLength
    <3> QED BY <1>1, <3>1
  <2> HIDE DEF want
  <2>4. /\ s \in Receivers(C, P) /\ s.out = e.out
        /\ s.got \o s.wire = e.got \o e.wire
        /\ s.left => Len(e.wire) = 0
        /\ Len(s.got) <= Len(e.got) + want
        /\ s.left \/ Len(s.got) > Len(e.got)
    <3>1. e \in Receivers(C, P)
      BY <1>1
    <3> QED BY <2>2, <3>1, RecvCuts
  <2>5. ASSUME s.left PROVE Len(r.wire) < size
    <3>1. Len(r.wire) = Len(e.got)
      <4>1. Len(e.wire) = 0
        BY <2>4, <2>5
      <4> QED BY <2>1, <2>3, <4>1
    <3>2. Len(e.got) < size
      BY <1>1, <1>3, <2>1
    <3> QED BY <3>1, <3>2
  <2>6. ReadSome(e, size) = s
    BY <1>3 DEF ReadSome, want
  <2> HIDE DEF s
  <2>7. s \in Reading(C, P, r, size)
    BY <1>1, <2>2, <2>4, <2>5 DEF Reading
  <2> QED BY <2>4, <2>6, <2>7
<1> QED BY <1>2, <1>3

ReadRounds(f, r, size) ==
  f = [k \in 0..size |-> IF k = 0 THEN [r EXCEPT !.got = <<>>]
                         ELSE ReadSome(f[k - 1], size)]

LEMMA ReadExactIs ==
  ASSUME NEW r, NEW size
  PROVE  ReadExact(r, size) = (CHOOSE f : ReadRounds(f, r, size))[size]
BY DEF ReadExact, ReadRounds

(* What readExact returns: the next size bytes, or that there are not so    *)
(* many.                                                                   *)
LEMMA ReadExactReads ==
  ASSUME NEW C, NEW P, NEW r \in Receivers(C, P), NEW size \in Nat, ~r.left
  PROVE  LET e == ReadExact(r, size)
         IN  /\ e \in Receivers(C, P) /\ e.out = r.out
             /\ e.left <=> Len(r.wire) < size
             /\ ~e.left => e.got \o e.wire = r.wire /\ Len(e.got) = size
<1> DEFINE S == Reading(C, P, r, size)
           x == [r EXCEPT !.got = <<>>]
           step == [k \in 1..size |-> [e \in S |-> ReadSome(e, size)]]
<1>1. x \in S
  <2>1. x \in Receivers(C, P) /\ x.out = r.out /\ x.got = <<>> /\ x.wire = r.wire
        /\ ~x.left /\ r.wire \in Seq(C)
    <3>1. <<>> \in Seq(C)
      BY EmptySeq
    <3> QED BY <3>1 DEF Receivers
  <2>2. <<>> \o r.wire = r.wire /\ Len(<<>>) = 0
    BY <2>1, ConcatEmptySeq, EmptySeq
  <2> HIDE DEF x
  <2>3. x.got \o x.wire = r.wire /\ Len(x.got) <= size
    BY <2>1, <2>2
  <2> QED BY <2>1, <2>3 DEF Reading
<1>2. step \in [1..size -> [S -> S]]
  BY ReadSomeKeeps
<1> HIDE DEF S
<1>3. PICK g \in [0..size -> S] : Runs(g, size, x, step)
  BY <1>1, <1>2, RunExists
<1>4. ReadRounds(g, r, size)
  <2>1. ASSUME NEW k \in 1..size PROVE g[k] = ReadSome(g[k - 1], size)
    <3>1. k - 1 \in 0..size /\ g[k - 1] \in S
      BY <1>3
    <3> QED BY <1>3, <3>1 DEF Runs
  <2>2. \A k \in 0..size : g[k] = IF k = 0 THEN x ELSE ReadSome(g[k - 1], size)
    BY <1>3, <2>1 DEF Runs
  <2>3. g = [k \in 0..size |-> g[k]]
    BY <1>3
  <2> QED BY <2>2, <2>3, Zenon DEF ReadRounds
<1>5. PICK h : h = (CHOOSE f : ReadRounds(f, r, size)) /\ ReadRounds(h, r, size)
  BY <1>4, Zenon
<1>6. h[0] = x /\ \A k \in 1..size : h[k] = ReadSome(h[k - 1], size)
  <2> HIDE DEF x
  <2>1. h = [k \in 0..size |-> IF k = 0 THEN x ELSE ReadSome(h[k - 1], size)]
    BY <1>5 DEF ReadRounds, x
  <2> QED BY <2>1
<1>7. \A k \in 0..size : h[k] \in S
  <2>1. RunsIn(h, size, S, x, step)
    BY <1>6 DEF RunsIn
  <2> HIDE DEF step, x
  <2> QED BY <1>1, <1>2, <2>1, RunStays
<1> HIDE DEF step
<1>8. \A k \in 0..size : h[k].left \/ Len(h[k].got) >= k
  <2> DEFINE T == {k \in 0..size : ~(h[k].left \/ Len(h[k].got) >= k)}
  <2>1. ASSUME T # {} PROVE FALSE
    <3>1. PICK k \in T : \A y \in T : y >= k
      <4>1. T \subseteq Nat
        OBVIOUS
      <4> QED BY <2>1, <4>1, Least
    <3>2. k \in 0..size /\ h[k] \in S /\ ~h[k].left /\ ~(Len(h[k].got) >= k)
      BY <1>7
    <3>3. k # 0
      BY <1>6, <3>2
    <3>4. k - 1 \in 0..size /\ k \in 1..size /\ ~(k - 1 >= k)
      BY <3>2, <3>3
    <3>5. h[k - 1].left \/ Len(h[k - 1].got) >= k - 1
      BY <3>1, <3>4
    <3>6. h[k - 1] \in S /\ h[k] = ReadSome(h[k - 1], size)
      BY <1>6, <1>7, <3>4
    <3>7. ~h[k - 1].left
      BY <3>2, <3>6 DEF ReadSome
    <3>8. Len(h[k].got) = size \/ Len(h[k].got) > Len(h[k - 1].got)
      BY <3>2, <3>6, ReadSomeKeeps DEF S
    <3>9. Len(h[k].got) \in Nat /\ Len(h[k - 1].got) \in Nat
      BY <3>2, <3>6 DEF S, Reading, Receivers
    <3> QED BY <3>2, <3>4, <3>5, <3>7, <3>8, <3>9
  <2> QED BY <2>1
<1>9. ReadExact(r, size) = h[size]
  BY <1>5, ReadExactIs
<1> DEFINE e == h[size]
<1>10. e \in S /\ (e.left \/ Len(e.got) >= size)
  <2>1. size \in 0..size
    OBVIOUS
  <2> QED BY <1>7, <1>8, <2>1
<1> HIDE DEF e
<1>11. /\ e \in Receivers(C, P) /\ e.out = r.out /\ e.got \o e.wire = r.wire
       /\ Len(e.got) <= size /\ (e.left => Len(r.wire) < size)
       /\ e.got \in Seq(C) /\ e.wire \in Seq(C) /\ Len(e.got) \in Nat /\ Len(e.wire) \in Nat
  BY <1>10 DEF S, Reading, Receivers
<1>12. Len(r.wire) = Len(e.got) + Len(e.wire)
  <2>1. Len(e.got \o e.wire) = Len(e.got) + Len(e.wire)
    BY <1>11, JoinLength
  <2> QED BY <1>11, <2>1
<1>13. /\ e \in Receivers(C, P) /\ e.out = r.out
       /\ e.left <=> Len(r.wire) < size
       /\ ~e.left => e.got \o e.wire = r.wire /\ Len(e.got) = size
  <2>1. CASE e.left
    BY <1>11, <2>1
  <2>2. CASE ~e.left
    <3>1. Len(e.got) = size
      BY <1>10, <1>11, <2>2
    <3>2. ~(Len(r.wire) < size)
      BY <1>11, <1>12, <3>1
    <3> QED BY <1>11, <2>2, <3>1, <3>2
  <2> QED BY <2>1, <2>2
<1> QED BY <1>9, <1>13 DEF e

-----------------------------------------------------------------------------
(* The wire of the first packets of hs. *)
Cells(H) == H \X {"header", "payload"} \X Nat
Sized(H) == \A h \in H : h.size \in Nat
Part(hs, k) == Wire(SubSeq(hs, 1, k))

LEMMA FunctionIsSeq ==
  ASSUME NEW A, NEW n \in Nat, NEW f \in [1..n -> A]
  PROVE  f \in Seq(A) /\ Len(f) = n
OBVIOUS

LEMMA SendType ==
  ASSUME NEW H, Sized(H), NEW h \in H
  PROVE  /\ Pack(h) \in Seq(Cells(H)) /\ Len(Pack(h)) = 2
         /\ Payload(h) \in Seq(Cells(H)) /\ Len(Payload(h)) = h.size /\ h.size \in Nat
         /\ Send(h) \in Seq(Cells(H)) /\ Len(Send(h)) = 2 + h.size
<1>1. h.size \in Nat
  BY DEF Sized
<1> DEFINE C == Cells(H)
           p == Pack(h)
           q == Payload(h)
<1>2. \A k \in Nat : <<h, "header", k>> \in C /\ <<h, "payload", k>> \in C
  BY DEF Cells
<1> HIDE DEF C
<1>3. p \in Seq(C) /\ Len(p) = 2
  <2>1. \A k \in 1..2 : <<h, "header", k>> \in C
    <3>1. \A k \in 1..2 : k \in Nat
      OBVIOUS
    <3> QED BY <1>2, <3>1, Zenon
  <2>2. p \in [1..2 -> C]
    BY <2>1, Zenon DEF Pack, HeaderSize
  <2> HIDE DEF p
  <2>3. 2 \in Nat
    OBVIOUS
  <2> QED BY <2>2, <2>3, FunctionIsSeq
<1>4. q \in Seq(C) /\ Len(q) = h.size
  <2>1. \A k \in 1..h.size : <<h, "payload", k>> \in C
    <3>1. \A k \in 1..h.size : k \in Nat
      BY <1>1
    <3> QED BY <1>2, <3>1, Zenon
  <2>2. q \in [1..h.size -> C]
    BY <2>1, Zenon DEF Payload
  <2> HIDE DEF q
  <2> QED BY <1>1, <2>2
<1> HIDE DEF p, q
<1>5. p \o q \in Seq(C) /\ Len(p \o q) = 2 + h.size
  <2>1. p \o q \in Seq(C)
    BY <1>3, <1>4, ConcatProperties
  <2>2. Len(p \o q) = Len(p) + Len(q)
    BY <1>3, <1>4, JoinLength
  <2> QED BY <1>3, <1>4, <2>1, <2>2
<1>6. Send(h) = p \o q
  BY DEF Send, p, q
<1> QED BY <1>1, <1>3, <1>4, <1>5, <1>6 DEF C, p, q

Wires(f, hs) ==
  f = [k \in 0..Len(hs) |-> IF k = 0 THEN <<>> ELSE f[k - 1] \o Send(hs[k])]

LEMMA WireIs ==
  ASSUME NEW hs
  PROVE  Wire(hs) = (CHOOSE f : Wires(f, hs))[Len(hs)]
BY DEF Wire, Wires

WireSteps(H, hs) == [k \in 1..Len(hs) |-> [w \in Seq(Cells(H)) |-> w \o Send(hs[k])]]

LEMMA WireRun ==
  ASSUME NEW H, Sized(H), NEW hs \in Seq(H)
  PROVE  \E g \in [0..Len(hs) -> Seq(Cells(H))] :
           Runs(g, Len(hs), <<>>, WireSteps(H, hs)) /\ Wire(hs) = g[Len(hs)]
<1> DEFINE n == Len(hs)
           S == Seq(Cells(H))
           step == WireSteps(H, hs)
<1>0. n \in Nat /\ \A k \in 1..n : hs[k] \in H
  BY LenProperties, ElementOfSeq
<1>1. <<>> \in S
  BY EmptySeq
<1>2. step \in [1..n -> [S -> S]]
  <2>1. ASSUME NEW k \in 1..n, NEW w \in S PROVE w \o Send(hs[k]) \in S
    <3>1. Send(hs[k]) \in S
      BY <1>0, SendType
    <3> QED BY <3>1, ConcatProperties
  <2> QED BY <2>1 DEF WireSteps
<1> HIDE DEF n, S
<1>3. PICK g \in [0..n -> S] : Runs(g, n, <<>>, step)
  BY <1>0, <1>1, <1>2, RunExists
<1>4. Wires(g, hs)
  <2>1. ASSUME NEW k \in 1..n PROVE g[k] = g[k - 1] \o Send(hs[k])
    <3>1. k - 1 \in 0..n /\ g[k - 1] \in S
      BY <1>0, <1>3
    <3> QED BY <1>3, <3>1 DEF Runs, WireSteps, n, S
  <2>2. \A k \in 0..n : g[k] = IF k = 0 THEN <<>> ELSE g[k - 1] \o Send(hs[k])
    <3>1. g[0] = <<>>
      BY <1>3 DEF Runs
    <3>2. \A k \in 0..n : k # 0 => k \in 1..n
      BY <1>0
    <3> QED BY <2>1, <3>1, <3>2
  <2>3. g = [k \in 0..n |-> g[k]]
    BY <1>3
  <2> QED BY <2>2, <2>3, Zenon DEF Wires, n
<1>5. PICK h : h = (CHOOSE f : Wires(f, hs)) /\ Wires(h, hs)
  BY <1>4, Zenon
<1>6. h = [k \in 0..n |-> IF k = 0 THEN <<>> ELSE h[k - 1] \o Send(hs[k])]
  BY <1>5 DEF Wires, n
<1>7. h[0] = <<>> /\ (\A k \in 1..n : h[k] = h[k - 1] \o Send(hs[k]))
      /\ h = [k \in 0..n |-> h[k]]
  BY <1>0, <1>6
<1>8. Runs(h, n, <<>>, step) /\ \A k \in 0..n : h[k] \in S
  <2> DEFINE x == <<>>
  <2>1. RunsIn(h, n, S, x, step) /\ x \in S
    BY <1>1, <1>7 DEF RunsIn, WireSteps, n, S
  <2> HIDE DEF step, x
  <2>2. Runs(h, n, x, step) /\ \A k \in 0..n : h[k] \in S
    BY <1>0, <1>2, <2>1, RunStays
  <2> QED BY <2>2 DEF x
<1>9. h \in [0..n -> S]
  BY <1>7, <1>8
<1>10. Wire(hs) = h[n]
  BY <1>5, WireIs DEF n
<1> QED BY <1>8, <1>9, <1>10 DEF n, S

LEMMA FirstOf ==
  ASSUME NEW A, NEW s \in Seq(A), NEW k \in 0..Len(s)
  PROVE  /\ SubSeq(s, 1, k) \in Seq(A) /\ Len(SubSeq(s, 1, k)) = k
         /\ \A i \in 1..k : SubSeq(s, 1, k)[i] = s[i]
<1>1. Len(s) \in Nat /\ k \in Int /\ k <= Len(s) /\ k >= 0 /\ \A i \in 1..k : s[i] \in A
  BY LenProperties, ElementOfSeq
<1>2. /\ SubSeq(s, 1, k) \in Seq(A)
      /\ Len(SubSeq(s, 1, k)) = IF 1 <= k THEN k - 1 + 1 ELSE 0
      /\ \A i \in 1..k - 1 + 1 : SubSeq(s, 1, k)[i] = s[1 + i - 1]
  BY <1>1, SubSeqProperties
<1>3. k - 1 + 1 = k /\ \A i \in 1..k : 1 + i - 1 = i
  BY <1>1
<1> QED BY <1>1, <1>2, <1>3

LEMMA Parts ==
  ASSUME NEW H, Sized(H), NEW hs \in Seq(H)
  PROVE  /\ Part(hs, 0) = <<>> /\ Part(hs, Len(hs)) = Wire(hs)
         /\ \A k \in 0..Len(hs) : Part(hs, k) \in Seq(Cells(H))
         /\ \A k \in 1..Len(hs) : Part(hs, k) = Part(hs, k - 1) \o Send(hs[k])
<1> DEFINE n == Len(hs)
           S == Seq(Cells(H))
<1>0. n \in Nat
  BY LenProperties
<1>1. PICK g : /\ g \in [0..n -> S]
               /\ Runs(g, n, <<>>, WireSteps(H, hs)) /\ Wire(hs) = g[n]
  BY WireRun, Zenon
<1>2. ASSUME NEW k \in 0..n PROVE Part(hs, k) = g[k]
  <2> DEFINE sub == SubSeq(hs, 1, k)
  <2>1. sub \in Seq(H) /\ Len(sub) = k /\ \A i \in 1..k : sub[i] = hs[i]
    BY FirstOf
  <2> HIDE DEF sub
  <2>2. PICK f :
          Runs(f, Len(sub), <<>>, WireSteps(H, sub)) /\ Wire(sub) = f[Len(sub)]
    BY <2>1, WireRun, Zenon
  <2> HIDE DEF n
  <2>3. Runs(f, k, <<>>, WireSteps(H, sub)) /\ Wire(sub) = f[k] /\ k \in Nat /\ k \in 0..k
    BY <1>0, <2>1, <2>2
  <2>4. Runs(g, k, <<>>, WireSteps(H, sub))
    <3>1. ASSUME NEW i \in 1..k PROVE g[i] = WireSteps(H, sub)[i][g[i - 1]]
      <4>1. i \in 1..n /\ i - 1 \in 0..n /\ g[i - 1] \in S
        BY <1>0, <1>1
      <4>2. g[i] = WireSteps(H, hs)[i][g[i - 1]]
        BY <1>1, <4>1 DEF Runs
      <4> QED BY <2>1, <4>1, <4>2 DEF WireSteps, n
    <3> QED BY <1>1, <3>1 DEF Runs
  <2>5. f[k] = g[k]
    <3> DEFINE x == <<>>
               step == WireSteps(H, sub)
    <3>1. Runs(f, k, x, step) /\ Runs(g, k, x, step)
      BY <2>3, <2>4
    <3> HIDE DEF x, step, S
    <3>2. k \in Nat /\ k \in 0..k
      BY <2>3
    <3>3. \A i \in 0..k : f[i] = g[i]
      BY <3>1, <3>2, RunUnique
    <3> QED BY <3>2, <3>3
  <2> QED BY <2>3, <2>5 DEF Part, sub
<1> HIDE DEF n, S
<1>3. 0 \in 0..n /\ n \in 0..n /\ g[0] = <<>> /\ Wire(hs) = g[n]
  BY <1>0, <1>1 DEF Runs
<1>4. \A k \in 0..n : Part(hs, k) \in S
  BY <1>1, <1>2
<1>5. ASSUME NEW k \in 1..n PROVE Part(hs, k) = Part(hs, k - 1) \o Send(hs[k])
  <2>1. k \in 0..n /\ k - 1 \in 0..n /\ g[k - 1] \in S
    BY <1>0, <1>1
  <2>2. g[k] = g[k - 1] \o Send(hs[k])
    BY <1>1, <2>1 DEF Runs, WireSteps, n, S
  <2> QED BY <1>2, <2>1, <2>2
<1> QED BY <1>2, <1>3, <1>4, <1>5 DEF n, S

(* What the first packets put on the wire is there whatever follows. *)
LEMMA PartsGrow ==
  ASSUME NEW H, Sized(H), NEW hs \in Seq(H), NEW j \in 0..Len(hs)
  PROVE  \A k \in j..Len(hs) :
           /\ Len(Part(hs, k)) >= Len(Part(hs, j)) + 2 * (k - j)
           /\ \A i \in 1..Len(Part(hs, j)) : Part(hs, k)[i] = Part(hs, j)[i]
<1> DEFINE n == Len(hs)
           Grown(k) == /\ Len(Part(hs, k)) >= Len(Part(hs, j)) + 2 * (k - j)
                       /\ \A i \in 1..Len(Part(hs, j)) : Part(hs, k)[i] = Part(hs, j)[i]
           T == {k \in j..n : ~Grown(k)}
<1>0. n \in Nat /\ j \in Nat /\ \A k \in 1..n : hs[k] \in H
  BY LenProperties, ElementOfSeq
<1>1. ASSUME T # {} PROVE FALSE
  <2>1. PICK k \in T : \A y \in T : y >= k
    <3>1. T \subseteq Nat
      BY <1>0
    <3> QED BY <1>1, <3>1, Least
  <2>2. k \in j..n /\ ~Grown(k)
    OBVIOUS
  <2>3. \A i \in 0..n : Part(hs, i) \in Seq(Cells(H)) /\ Len(Part(hs, i)) \in Nat
    <3>1. \A i \in 0..n : Part(hs, i) \in Seq(Cells(H))
      BY Parts
    <3> QED BY <3>1, LenProperties
  <2>4. k # j
    <3>1. Grown(j)
      BY <1>0, <2>3
    <3> QED BY <2>2, <3>1
  <2>5. k - 1 \in j..n /\ k - 1 \in 0..n /\ k \in 1..n /\ ~(k - 1 >= k)
    BY <1>0, <2>2, <2>4
  <2>6. Grown(k - 1)
    BY <2>1, <2>5
  <2> DEFINE p == Part(hs, k - 1)
             s == Send(hs[k])
             l == Len(Part(hs, j))
  <2>7. Part(hs, k) = p \o s /\ p \in Seq(Cells(H)) /\ Len(p) \in Nat /\ l \in Nat
    BY <1>0, <2>3, <2>5, Parts
  <2>8. s \in Seq(Cells(H)) /\ Len(s) \in Nat /\ Len(s) >= 2
    <3>1. s \in Seq(Cells(H)) /\ Len(s) = 2 + hs[k].size /\ hs[k].size \in Nat
      BY <1>0, <2>5, SendType
    <3> QED BY <3>1
  <2>9. Len(p) >= l + 2 * (k - 1 - j) /\ \A i \in 1..l : p[i] = Part(hs, j)[i]
    BY <2>6
  <2> HIDE DEF p, s, l
  <2>10. Len(p \o s) = Len(p) + Len(s)
    BY <2>7, <2>8, JoinLength
  <2>11. Len(Part(hs, k)) >= l + 2 * (k - j)
    BY <1>0, <2>5, <2>7, <2>8, <2>9, <2>10
  <2>12. ASSUME NEW i \in 1..l PROVE Part(hs, k)[i] = Part(hs, j)[i]
    <3>1. i \in 1..Len(p) + Len(s) /\ i <= Len(p)
      BY <1>0, <2>5, <2>7, <2>8, <2>9
    <3>2. (p \o s)[i] = p[i]
      BY <2>7, <2>8, <3>1, ConcatProperties
    <3> QED BY <2>7, <2>9, <3>2
  <2> QED BY <2>2, <2>11, <2>12 DEF l
<1> QED BY <1>1

-----------------------------------------------------------------------------
(* Reading packets: the wire goes on after the packets handled so far, or   *)
(* the receiver has returned because there is no next one.                 *)
Packed(H) == H \X Seq(Cells(H))
Begun(hs, length) == SubSeq(Wire(hs), 1, length)

Handles(H, hs, length, limit) ==
  {e \in Receivers(Cells(H), Packed(H)) :
     /\ Len(e.out) <= Len(hs)
     /\ Len(Part(hs, Len(e.out))) <= length
     /\ \A i \in 1..Len(e.out) :
          Accepts(hs[i], limit) /\ e.out[i] = <<hs[i], Payload(hs[i])>>
     /\ ~e.left => Part(hs, Len(e.out)) \o e.wire = Begun(hs, length)
     /\ e.left => \/ Len(e.out) = Len(hs)
                  \/ Len(Part(hs, Len(e.out) + 1)) > length
                  \/ ~Accepts(hs[Len(e.out) + 1], limit)}

LEMMA UnpackPack == \A h : Unpack(Pack(h)) = h
<1> SUFFICES ASSUME NEW h PROVE Unpack(Pack(h)) = h
  OBVIOUS
<1>1. Pack(h)[1] = <<h, "header", 1>>
  <2>1. 1 \in 1..2
    OBVIOUS
  <2> QED BY <2>1, Zenon DEF Pack, HeaderSize
<1>2. Pack(h)[1][1] = h
  BY <1>1
<1> QED BY <1>2, Zenon DEF Unpack

(* The packet after the first j of n. *)
LEMMA NextIndex ==
  ASSUME NEW H, NEW hs \in Seq(H), NEW j \in Nat, j < Len(hs)
  PROVE  /\ Len(hs) \in Nat /\ j \in 0..Len(hs) /\ j + 1 \in 1..Len(hs)
         /\ j + 1 \in 0..Len(hs) /\ Len(hs) \in j + 1..Len(hs)
         /\ hs[j + 1] \in H /\ j + 1 - 1 = j
<1>1. Len(hs) \in Nat
  BY LenProperties
<1>2. /\ j \in 0..Len(hs) /\ j + 1 \in 1..Len(hs)
      /\ j + 1 \in 0..Len(hs) /\ Len(hs) \in j + 1..Len(hs) /\ j + 1 - 1 = j
  BY <1>1
<1>3. hs[j + 1] \in H
  BY <1>2, ElementOfSeq
<1> QED BY <1>1, <1>2, <1>3

(* The length of j packets and the next one, whose header is two cells. *)
LEMMA PartLength ==
  ASSUME NEW before \in Nat, NEW size \in Nat, NEW part, part = before + (2 + size)
  PROVE  part = before + 2 + size
  OBVIOUS

LEMMA PartFits ==
  ASSUME NEW before \in Nat, NEW size \in Nat, NEW rest \in Nat, NEW m \in Nat,
         NEW length, length = before + m, m = 2 + size + rest,
         NEW part, part = before + 2 + size
  PROVE  part <= length
  OBVIOUS

(* After the first j packets comes the next one, as far as there is a wire. *)
LEMMA NextOnWire ==
  ASSUME NEW H, Sized(H), NEW hs \in Seq(H), NEW length \in 0..Len(Wire(hs)),
         NEW j \in Nat, j < Len(hs), NEW wire \in Seq(Cells(H)),
         Part(hs, j) \o wire = Begun(hs, length)
  PROVE  /\ length = Len(Part(hs, j)) + Len(wire)
         /\ \A i \in 1..Len(wire) :
              i <= Len(Send(hs[j + 1])) => wire[i] = Send(hs[j + 1])[i]
<1> DEFINE C == Cells(H)
           n == Len(hs)
           p == Part(hs, j)
           s == Send(hs[j + 1])
           all == Wire(hs)
           next == Part(hs, j + 1)
<1>1. n \in Nat /\ j \in 0..n /\ j + 1 \in 1..n /\ j + 1 \in 0..n /\ n \in j + 1..n
      /\ hs[j + 1] \in H /\ j + 1 - 1 = j
  BY NextIndex
<1>2. p \in Seq(C) /\ next = p \o s /\ all = Part(hs, n) /\ all \in Seq(C)
  <2>1. p \in Seq(C)
    BY <1>1, Parts
  <2>2. Part(hs, j + 1) = Part(hs, j + 1 - 1) \o s
    BY <1>1, Parts
  <2>3. next = p \o s
    BY <1>1, <2>2
  <2>4. all = Part(hs, n)
    BY <1>1, Parts
  <2>5. all \in Seq(C)
    BY <1>1, <2>4, Parts
  <2> QED BY <2>1, <2>3, <2>4, <2>5
<1>3. s \in Seq(C)
  BY <1>1, SendType
<1>4. \A i \in 1..Len(next) : all[i] = next[i]
  <2>1. \A i \in 1..Len(next) : Part(hs, n)[i] = next[i]
    BY <1>1, PartsGrow
  <2> QED BY <1>2, <2>1
<1>5. /\ Len(next) <= Len(all)
  <2>1. Len(Part(hs, n)) >= Len(next) + 2 * (n - (j + 1))
    BY <1>1, PartsGrow
  <2>2. Len(next) \in Nat /\ Len(Part(hs, n)) \in Nat
    <3>1. next \in Seq(C) /\ Part(hs, n) \in Seq(C)
      BY <1>1, Parts
    <3> QED BY <3>1, LenProperties
  <2>3. n - (j + 1) >= 0 /\ n - (j + 1) \in Int
    BY <1>1
  <2> HIDE DEF next, n
  <2>4. Len(Part(hs, n)) >= Len(next)
    BY <2>1, <2>2, <2>3
  <2> QED BY <1>2, <2>4
<1> HIDE DEF C, n, p, s, all, next
<1>6. /\ Len(p) \in Nat /\ Len(s) \in Nat /\ Len(wire) \in Nat /\ Len(all) \in Nat
      /\ Len(next) = Len(p) + Len(s) /\ length \in 0..Len(all)
  <2>1. Len(p \o s) = Len(p) + Len(s)
    BY <1>2, <1>3, JoinLength
  <2>2. Len(p) \in Nat /\ Len(s) \in Nat /\ Len(wire) \in Nat /\ Len(all) \in Nat
    BY <1>2, <1>3, LenProperties
  <2>3. length \in 0..Len(all)
    BY DEF all
  <2> QED BY <1>2, <2>1, <2>2, <2>3
<1>7. /\ p \o wire = SubSeq(all, 1, length) /\ Len(SubSeq(all, 1, length)) = length
      /\ \A i \in 1..length : SubSeq(all, 1, length)[i] = all[i]
  BY <1>2, <1>6, FirstOf DEF Begun, p, all
<1>8. wire \in Seq(C)
  BY DEF C
<1>9. length = Len(p) + Len(wire)
  <2>1. Len(p \o wire) = Len(p) + Len(wire)
    BY <1>2, <1>8, JoinLength
  <2> QED BY <1>7, <2>1
<1>10. ASSUME NEW i \in 1..Len(wire), i <= Len(s) PROVE wire[i] = s[i]
  <2> DEFINE k == Len(p) + i
  <2>1. /\ k \in 1..Len(p) + Len(wire) /\ k \in 1..Len(p) + Len(s) /\ k \in 1..length
        /\ ~(k <= Len(p)) /\ k - Len(p) = i /\ k \in 1..Len(next)
    BY <1>6, <1>9, <1>10
  <2> HIDE DEF k
  <2>2. (p \o wire)[k] = wire[k - Len(p)]
    BY <1>2, <1>8, <2>1, ConcatProperties
  <2>3. (p \o s)[k] = s[k - Len(p)]
    BY <1>2, <1>3, <2>1, ConcatProperties
  <2>4. (p \o wire)[k] = all[k] /\ all[k] = next[k]
    BY <1>4, <1>7, <2>1
  <2> QED BY <1>2, <2>1, <2>2, <2>3, <2>4
<1> QED BY <1>9, <1>10 DEF p, s

(* One packet is handled, or the receiver returns. *)
LEMMA ReadPacketHandles ==
  ASSUME NEW H, Sized(H), NEW hs \in Seq(H), NEW length \in 0..Len(Wire(hs)),
         NEW limit, NEW e \in Handles(H, hs, length, limit)
  PROVE  /\ ReadPacket(e, limit) \in Handles(H, hs, length, limit)
         /\ LET r == ReadPacket(e, limit)
            IN  r.left \/ (Len(r.out) = Len(e.out) + 1 /\ ~e.left)
<1> DEFINE C == Cells(H)
           P == Packed(H)
           n == Len(hs)
           j == Len(e.out)
           p == Part(hs, j)
           m == Len(e.wire)
           head == ReadExact(e, HeaderSize)
           R == ReadPacket(e, limit)
<1>1. /\ e \in Receivers(C, P) /\ j <= n /\ Len(p) <= length
      /\ \A i \in 1..j : Accepts(hs[i], limit) /\ e.out[i] = <<hs[i], Payload(hs[i])>>
      /\ ~e.left => p \o e.wire = Begun(hs, length)
  BY DEF Handles
<1> SUFFICES R \in Handles(H, hs, length, limit)
             /\ (R.left \/ (Len(R.out) = j + 1 /\ ~e.left))
  OBVIOUS
<1> HIDE DEF R
<1>2. CASE e.left
  <2>1. R = e
    BY <1>2 DEF ReadPacket, R
  <2>2. R.left /\ R \in Handles(H, hs, length, limit)
    BY <1>2, <2>1
  <2> QED BY <2>2
<1> SUFFICES ASSUME ~e.left PROVE R \in Handles(H, hs, length, limit)
                                  /\ (R.left \/ Len(R.out) = j + 1)
  BY <1>2
<1>3. /\ e.out \in Seq(P) /\ e.wire \in Seq(C) /\ e.cuts \in Seq(Nat \ {0})
      /\ n \in Nat /\ j \in Nat /\ m \in Nat
      /\ e.wire \in Seq(C) /\ p \o e.wire = Begun(hs, length)
  <2>1. e.out \in Seq(P) /\ e.wire \in Seq(C) /\ e.cuts \in Seq(Nat \ {0})
    BY <1>1 DEF Receivers
  <2> QED BY <1>1, <2>1, LenProperties
<1>4. /\ head \in Receivers(C, P) /\ head.out = e.out
      /\ head.left <=> m < 2
      /\ ~head.left => head.got \o head.wire = e.wire /\ Len(head.got) = 2
  <2>1. HeaderSize \in Nat /\ HeaderSize = 2
    BY DEF HeaderSize
  <2>2. /\ head \in Receivers(C, P) /\ head.out = e.out
        /\ head.left <=> Len(e.wire) < HeaderSize
        /\ ~head.left => head.got \o head.wire = e.wire /\ Len(head.got) = HeaderSize
    <3> HIDE DEF C, P
    <3>1. HeaderSize \in Nat /\ e \in Receivers(C, P)
      BY <1>1, <2>1 DEF C, P
    <3> QED BY <3>1, ReadExactReads
  <2> HIDE DEF head, C, P
  <2> QED BY <2>1, <2>2
<1> HIDE DEF head, j, m
(* to return without a packet is right when there is no next one *)
<1>5. ASSUME NEW r \in Receivers(C, P), r.left, r.out = e.out,
             j = n \/ Len(Part(hs, j + 1)) > length \/ ~Accepts(hs[j + 1], limit)
      PROVE  r \in Handles(H, hs, length, limit)
  BY <1>1, <1>5 DEF Handles, j
<1>6. CASE j = n
  <2>1. length = Len(p) + m
    <3>1. Len(p \o e.wire) = Len(p) + m
      <4>1. p \in Seq(C)
        <5>1. j \in 0..n
          BY <1>3, <1>6
        <5> QED BY <5>1, Parts
      <4>2. e.wire \in Seq(C)
        BY <1>3
      <4> HIDE DEF C, p
      <4> QED BY <4>1, <4>2, JoinLength DEF m
    <3>2. Len(Begun(hs, length)) = length
      <4>1. Wire(hs) \in Seq(C)
        BY <1>3, <1>6, Parts
      <4> QED BY <4>1, FirstOf DEF Begun
    <3> QED BY <1>3, <3>1, <3>2
  <2>2. p = Wire(hs)
    BY <1>6, Parts
  <2>3. m = 0
    <3>1. Len(p) \in Nat
      <4>1. Wire(hs) \in Seq(C)
        BY <1>3, <1>6, Parts
      <4> QED BY <2>2, <4>1, LenProperties
    <3>2. length <= Len(p)
      BY <2>2, <3>1
    <3> HIDE DEF p, m
    <3>3. length \in Nat
      BY <1>3, <2>1, <3>1
    <3> QED BY <1>3, <2>1, <3>1, <3>2, <3>3
  <2>4. head.left
    BY <1>4, <2>3
  <2>5. R = head
    BY <2>4 DEF ReadPacket, head, R
  <2> QED BY <1>4, <1>5, <1>6, <2>4, <2>5
<1>7. CASE j < n
  <2> DEFINE h == hs[j + 1]
             s == Send(h)
             body == ReadExact(head, h.size)
  <2>1. /\ j + 1 \in 1..n /\ j + 1 \in 0..n /\ h \in H /\ j + 1 - 1 = j /\ j \in 0..n
    BY <1>3, <1>7, ElementOfSeq
  <2>2. /\ Pack(h) \in Seq(C) /\ Len(Pack(h)) = 2
        /\ Payload(h) \in Seq(C) /\ Len(Payload(h)) = h.size /\ h.size \in Nat
        /\ s \in Seq(C) /\ Len(s) = 2 + h.size
    BY <2>1, SendType
  <2>3. p \in Seq(C) /\ Part(hs, j + 1) = p \o s
    <3>1. p \in Seq(C)
      BY <2>1, Parts
    <3>2. Part(hs, j + 1) = Part(hs, j + 1 - 1) \o s
      BY <2>1, Parts
    <3> QED BY <2>1, <3>1, <3>2
  <2>4. length = Len(p) + m /\ \A i \in 1..m : i <= Len(s) => e.wire[i] = s[i]
    <3>1. j \in Nat /\ j < Len(hs) /\ e.wire \in Seq(Cells(H))
          /\ Part(hs, j) \o e.wire = Begun(hs, length)
      BY <1>3, <1>7
    <3> HIDE DEF n, p, h, s
    <3> QED BY <3>1, NextOnWire DEF p, h, s, m
  <2>5. Len(Part(hs, j + 1)) = Len(p) + 2 + h.size /\ Len(p) \in Nat
    <3>1. Len(p \o s) = Len(p) + Len(s)
      BY <2>2, <2>3, JoinLength
    <3>2. Len(p) \in Nat
      BY <2>3, LenProperties
    <3>3. Len(s) = 2 + h.size /\ h.size \in Nat
      BY <2>2
    <3>4. Part(hs, j + 1) = p \o s
      BY <2>3
    <3> HIDE DEF p, s, h
    <3>5. Len(Part(hs, j + 1)) = Len(p) + (2 + h.size)
      BY <3>1, <3>3, <3>4
    <3> QED BY <3>2, <3>3, <3>5, PartLength
  <2> HIDE DEF n, j, p, m, h, s
  <2>6. CASE m < 2
    <3>1. R = head /\ head.left
      BY <1>4, <2>6 DEF ReadPacket, head, R
    <3>2. Len(Part(hs, j + 1)) > length
      BY <1>3, <2>2, <2>4, <2>5, <2>6
    <3> QED BY <1>4, <1>5, <3>1, <3>2
  <2>7. CASE m >= 2
    <3>1. ~head.left /\ head.got \o head.wire = e.wire /\ Len(head.got) = 2
          /\ head.got \in Seq(C) /\ head.wire \in Seq(C) /\ Len(head.wire) \in Nat
          /\ head.cuts \in Seq(Nat \ {0}) /\ head.out \in Seq(P)
      <4>1. ~head.left
        BY <1>3, <1>4, <2>7
      <4>2. head.got \in Seq(C) /\ head.wire \in Seq(C)
            /\ head.cuts \in Seq(Nat \ {0}) /\ head.out \in Seq(P)
        BY <1>4 DEF Receivers
      <4> QED BY <1>4, <4>1, <4>2, LenProperties
    <3>2. m = 2 + Len(head.wire)
      <4>1. Len(head.got \o head.wire) = Len(head.got) + Len(head.wire)
        BY <3>1, JoinLength
      <4> QED BY <3>1, <4>1 DEF m
    <3>3. head.got = Pack(h)
      <4>1. ASSUME NEW i \in 1..2 PROVE head.got[i] = Pack(h)[i]
        <5>1. i \in 1..Len(head.got) + Len(head.wire) /\ i <= Len(head.got)
          BY <3>1
        <5>2. (head.got \o head.wire)[i] = head.got[i]
          BY <3>1, <5>1, ConcatProperties
        <5>3. i \in 1..m /\ i <= Len(s)
          BY <2>2, <3>1, <3>2
        <5>4. e.wire[i] = s[i]
          BY <2>4, <5>3
        <5>5. i \in 1..Len(Pack(h)) + Len(Payload(h)) /\ i <= Len(Pack(h))
          BY <2>2
        <5>6. (Pack(h) \o Payload(h))[i] = Pack(h)[i]
          BY <2>2, <5>5, ConcatProperties
        <5> QED BY <3>1, <5>2, <5>4, <5>6 DEF s, Send
      <4>2. Len(head.got) = Len(Pack(h)) /\ \A i \in 1..Len(head.got) : head.got[i] = Pack(h)[i]
        BY <2>2, <3>1, <4>1
      <4> QED BY <2>2, <3>1, <4>2, SeqEqual
    <3>4. Unpack(head.got) = h
      BY <3>3, UnpackPack
    <3>5. CASE ~Accepts(h, limit)
      <4> DEFINE r == [head EXCEPT !.left = TRUE]
      <4>1. R = r
        BY <3>1, <3>4, <3>5 DEF ReadPacket, head, R
      <4>2. r \in Receivers(C, P) /\ r.left /\ r.out = e.out
        BY <1>4 DEF Receivers
      <4> HIDE DEF r
      <4> QED BY <1>5, <3>5, <4>1, <4>2 DEF h
    <3>6. CASE Accepts(h, limit)
      <4>1. /\ body \in Receivers(C, P) /\ body.out = e.out
            /\ body.left <=> Len(head.wire) < h.size
            /\ ~body.left => body.got \o body.wire = head.wire /\ Len(body.got) = h.size
        <5>1. /\ body \in Receivers(C, P) /\ body.out = head.out
              /\ body.left <=> Len(head.wire) < h.size
              /\ ~body.left => body.got \o body.wire = head.wire /\ Len(body.got) = h.size
          BY <1>4, <2>2, <3>1, ReadExactReads
        <5> QED BY <1>4, <5>1
      <4> HIDE DEF body
      <4>2. CASE body.left
        <5>1. R = body
          BY <3>1, <3>4, <3>6, <4>2 DEF ReadPacket, head, body, R
        <5>2. Len(Part(hs, j + 1)) > length
          <6>1. Len(head.wire) < h.size
            BY <4>1, <4>2
          <6>2. length = Len(p) + m
            BY <2>4
          <6>3. h.size \in Nat /\ Len(head.wire) \in Nat
            BY <2>2, <3>1
          <6> QED BY <1>3, <2>5, <3>2, <6>1, <6>2, <6>3
        <5> QED BY <1>5, <4>1, <4>2, <5>1, <5>2
      <4>3. CASE ~body.left
        <5> DEFINE r == [body EXCEPT !.out = Append(body.out, <<h, body.got>>)]
        <5>1. R = r
          BY <3>1, <3>4, <3>6, <4>3 DEF ReadPacket, head, body, R
        <5>2. /\ body.got \o body.wire = head.wire /\ Len(body.got) = h.size
              /\ body.got \in Seq(C) /\ body.wire \in Seq(C) /\ body.out \in Seq(P)
              /\ Len(body.wire) \in Nat
          <6>1. body.got \in Seq(C) /\ body.wire \in Seq(C) /\ body.out \in Seq(P)
            BY <4>1 DEF Receivers
          <6> QED BY <4>1, <4>3, <6>1, LenProperties
        <5>3. Len(head.wire) = h.size + Len(body.wire)
          <6>1. Len(body.got \o body.wire) = Len(body.got) + Len(body.wire)
            BY <5>2, JoinLength
          <6> QED BY <5>2, <6>1
        <5>4. body.got = Payload(h)
          <6>1. ASSUME NEW i \in 1..h.size PROVE body.got[i] = Payload(h)[i]
            <7> DEFINE k == 2 + i
            <7>1. /\ k \in 1..Len(head.got) + Len(head.wire) /\ ~(k <= Len(head.got))
                  /\ k - Len(head.got) = i /\ k \in 1..m /\ k <= Len(s)
                  /\ k \in 1..Len(Pack(h)) + Len(Payload(h)) /\ ~(k <= Len(Pack(h)))
                  /\ k - Len(Pack(h)) = i
                  /\ i \in 1..Len(body.got) + Len(body.wire) /\ i <= Len(body.got)
              <8>1. /\ Len(head.got) = 2 /\ Len(Pack(h)) = 2 /\ Len(body.got) = h.size
                    /\ Len(Payload(h)) = h.size /\ Len(s) = 2 + h.size /\ h.size \in Nat
                    /\ Len(body.wire) \in Nat
                BY <2>2, <3>1, <5>2
              <8> QED BY <3>2, <5>3, <8>1
            <7> HIDE DEF k
            <7>2. (head.got \o head.wire)[k] = head.wire[k - Len(head.got)]
              BY <3>1, <7>1, JoinSecond
            <7>3. (Pack(h) \o Payload(h))[k] = Payload(h)[k - Len(Pack(h))]
              BY <2>2, <7>1, JoinSecond
            <7>4. (body.got \o body.wire)[i] = body.got[i]
              BY <5>2, <7>1, ConcatProperties
            <7>5. e.wire[k] = s[k]
              BY <2>4, <7>1
            <7> QED BY <3>1, <5>2, <7>1, <7>2, <7>3, <7>4, <7>5 DEF s, Send
          <6>2. Len(body.got) = Len(Payload(h))
                /\ \A i \in 1..Len(body.got) : body.got[i] = Payload(h)[i]
            BY <2>2, <5>2, <6>1
          <6> QED BY <2>2, <5>2, <6>2, SeqEqual
        <5>5. <<h, body.got>> \in P
          BY <2>1, <5>2 DEF Packed, C, P, h
        <5>6. /\ Append(body.out, <<h, body.got>>) \in Seq(P)
              /\ Len(Append(body.out, <<h, body.got>>)) = j + 1
              /\ Append(body.out, <<h, body.got>>)[j + 1] = <<h, body.got>>
              /\ \A i \in 1..j : Append(body.out, <<h, body.got>>)[i] = e.out[i]
          BY <1>3, <4>1, <5>2, <5>5, AppendProperties DEF j
        <5>7. /\ r \in Receivers(C, P) /\ r.out = Append(body.out, <<h, body.got>>)
              /\ r.wire = body.wire /\ ~r.left
          BY <4>1, <4>3, <5>6 DEF Receivers
        <5> HIDE DEF r
        <5>8. Len(r.out) = j + 1
          BY <5>6, <5>7
        <5>9. Part(hs, j + 1) \o body.wire = Begun(hs, length)
          <6>1. Part(hs, j + 1) \o body.wire = p \o (s \o body.wire)
            <7> DEFINE w == body.wire
            <7>1. p \in Seq(C) /\ s \in Seq(C) /\ w \in Seq(C)
              BY <2>2, <2>3, <5>2
            <7> HIDE DEF C, w
            <7>2. (p \o s) \o w = p \o (s \o w)
              BY <7>1, JoinAssociates
            <7> QED BY <2>3, <7>2 DEF w
          <6>2. s \o body.wire = Pack(h) \o (Payload(h) \o body.wire)
            <7> DEFINE w == body.wire
                       a == Pack(h)
                       b == Payload(h)
            <7>1. a \in Seq(C) /\ b \in Seq(C) /\ w \in Seq(C)
              BY <2>2, <5>2
            <7> HIDE DEF C, w, a, b
            <7>2. (a \o b) \o w = a \o (b \o w)
              BY <7>1, JoinAssociates
            <7> QED BY <7>2 DEF s, Send, w, a, b
          <6>3. Payload(h) \o body.wire = head.wire
            BY <5>2, <5>4
          <6>4. Pack(h) \o head.wire = e.wire
            BY <3>1, <3>3
          <6> QED BY <1>3, <6>1, <6>2, <6>3, <6>4
        <5>10. Len(Part(hs, j + 1)) <= length
          <6>1. length = Len(p) + m
            BY <2>4
          <6>2. h.size \in Nat /\ Len(body.wire) \in Nat
            BY <2>2, <5>2
          <6>3. m = 2 + h.size + Len(body.wire)
            BY <3>2, <5>3, <6>2
          <6>4. m \in Nat /\ Len(p) \in Nat
            BY <1>3, <2>5
          <6>5. Len(Part(hs, j + 1)) = Len(p) + 2 + h.size
            BY <2>5
          <6> QED BY <6>1, <6>2, <6>3, <6>4, <6>5, PartFits
        <5>11. ASSUME NEW i \in 1..j + 1
               PROVE  Accepts(hs[i], limit) /\ r.out[i] = <<hs[i], Payload(hs[i])>>
          <6>1. CASE i = j + 1
            BY <3>6, <5>4, <5>6, <5>7, <6>1 DEF h
          <6>2. CASE i # j + 1
            <7>1. i \in 1..j
              BY <1>3, <6>2
            <7> QED BY <1>1, <5>6, <5>7, <7>1 DEF j
          <6> QED BY <6>1, <6>2
        <5>12. j + 1 <= n
          BY <1>3, <1>7
        <5>13. r \in Handles(H, hs, length, limit)
          <6>1. /\ r \in Receivers(Cells(H), Packed(H))
                /\ Len(r.out) <= Len(hs) /\ Len(Part(hs, Len(r.out))) <= length
                /\ \A i \in 1..Len(r.out) :
                     Accepts(hs[i], limit) /\ r.out[i] = <<hs[i], Payload(hs[i])>>
                /\ Part(hs, Len(r.out)) \o r.wire = Begun(hs, length)
                /\ ~r.left
            BY <5>7, <5>8, <5>9, <5>10, <5>11, <5>12 DEF n, C, P
          <6> QED BY <6>1 DEF Handles
        <5> QED BY <5>1, <5>8, <5>13 DEF j
      <4> QED BY <4>2, <4>3
    <3> QED BY <3>5, <3>6
  <2> QED BY <1>3, <2>6, <2>7
<1> QED BY <1>1, <1>3, <1>6, <1>7

ReceiveRounds(f, wire, cuts, limit) ==
  f = [k \in 0..Len(wire) |-> IF k = 0 THEN Receiver(wire, cuts)
                              ELSE ReadPacket(f[k - 1], limit)]

LEMMA ReceiveIs ==
  ASSUME NEW wire, NEW cuts, NEW limit
  PROVE  Receive(wire, cuts, limit)
           = (CHOOSE f : ReceiveRounds(f, wire, cuts, limit))[Len(wire)].out
BY DEF Receive, ReceiveRounds

(* What every packet keeps is kept to the end. *)
LEMMA ReceiveRuns ==
  ASSUME NEW wire, Len(wire) \in Nat, NEW cuts, NEW limit, NEW S,
         Receiver(wire, cuts) \in S, \A e \in S : ReadPacket(e, limit) \in S
  PROVE  \E h : /\ \A k \in 1..Len(wire) : h[k] = ReadPacket(h[k - 1], limit)
                /\ \A k \in 0..Len(wire) : h[k] \in S
                /\ Receive(wire, cuts, limit) = h[Len(wire)].out
<1> DEFINE n == Len(wire)
           x == Receiver(wire, cuts)
           step == [k \in 1..n |-> [e \in S |-> ReadPacket(e, limit)]]
<1>1. n \in Nat /\ x \in S /\ step \in [1..n -> [S -> S]]
  OBVIOUS
<1> HIDE DEF n, x
<1>2. PICK g : g \in [0..n -> S] /\ Runs(g, n, x, step)
  BY <1>1, RunExists
<1>3. ReceiveRounds(g, wire, cuts, limit)
  <2>1. ASSUME NEW k \in 1..n PROVE g[k] = ReadPacket(g[k - 1], limit)
    <3>1. k - 1 \in 0..n /\ g[k - 1] \in S
      BY <1>1, <1>2
    <3> QED BY <1>2, <3>1 DEF Runs
  <2>2. \A k \in 0..n : g[k] = IF k = 0 THEN x ELSE ReadPacket(g[k - 1], limit)
    BY <1>1, <1>2, <2>1 DEF Runs
  <2>3. g = [k \in 0..n |-> g[k]]
    BY <1>2
  <2> QED BY <2>2, <2>3, Zenon DEF ReceiveRounds, n, x
<1>4. PICK h : h = (CHOOSE f : ReceiveRounds(f, wire, cuts, limit))
               /\ ReceiveRounds(h, wire, cuts, limit)
  BY <1>3, Zenon
<1>5. h[0] = x /\ \A k \in 1..n : h[k] = ReadPacket(h[k - 1], limit)
  <2>1. h = [k \in 0..n |-> IF k = 0 THEN x ELSE ReadPacket(h[k - 1], limit)]
    BY <1>4 DEF ReceiveRounds, n, x
  <2> QED BY <1>1, <2>1
<1>6. \A k \in 0..n : h[k] \in S
  <2>1. RunsIn(h, n, S, x, step)
    BY <1>5 DEF RunsIn
  <2> HIDE DEF step
  <2> QED BY <1>1, <2>1, RunStays
<1>7. Receive(wire, cuts, limit) = h[n].out
  BY <1>4, ReceiveIs DEF n
<1> QED BY <1>5, <1>6, <1>7 DEF n

(* Where the receiver is done, it has handled what should arrive. *)
LEMMA HandledArrives ==
  ASSUME NEW H, Sized(H), NEW hs \in Seq(H), NEW length \in 0..Len(Wire(hs)),
         NEW limit, NEW e \in Handles(H, hs, length, limit), e.left \/ length = 0
  PROVE  e.out = Arrives(hs, length, limit)
<1> DEFINE n == Len(hs)
           j == Len(e.out)
           good == {k \in DOMAIN hs : /\ Ends(hs)[k] <= length
                                      /\ \A i \in 1..k : Accepts(hs[i], limit)}
<1>1. /\ e.out \in Seq(Packed(H)) /\ j <= n /\ Len(Part(hs, j)) <= length
      /\ \A i \in 1..j : Accepts(hs[i], limit) /\ e.out[i] = <<hs[i], Payload(hs[i])>>
      /\ e.left => \/ j = n
                   \/ Len(Part(hs, j + 1)) > length
                   \/ ~Accepts(hs[j + 1], limit)
  BY DEF Handles, Receivers
<1>2. n \in Nat /\ j \in Nat /\ DOMAIN hs = 1..n /\ e.out \in [1..j -> Packed(H)]
  BY <1>1, LenProperties
<1>3. \A k \in 1..n : Ends(hs)[k] = Len(Part(hs, k))
  BY <1>2 DEF Ends, Part
<1>4. \A k \in 0..n : Part(hs, k) \in Seq(Cells(H)) /\ Len(Part(hs, k)) \in Nat
  <2>1. \A k \in 0..n : Part(hs, k) \in Seq(Cells(H))
    BY Parts
  <2> QED BY <2>1, LenProperties
<1>5. \A i \in 0..n : \A k \in i..n : Len(Part(hs, k)) >= Len(Part(hs, i)) + 2 * (k - i)
  BY PartsGrow
<1>6. length \in Nat
  <2>1. Wire(hs) \in Seq(Cells(H))
    BY <1>2, Parts
  <2>2. Len(Wire(hs)) \in Nat
    BY <2>1, LenProperties
  <2> QED BY <2>2
<1> HIDE DEF n, j
<1>7. good = 1..j
  <2>1. ASSUME NEW k \in 1..j PROVE k \in good
    <3>1. k \in 1..n /\ k \in 0..n /\ j \in k..n /\ j \in 0..n
      BY <1>1, <1>2
    <3>2. Len(Part(hs, j)) >= Len(Part(hs, k)) + 2 * (j - k)
      BY <1>5, <3>1
    <3>3. Len(Part(hs, k)) \in Nat /\ Len(Part(hs, j)) \in Nat
      BY <1>4, <3>1
    <3>4. Len(Part(hs, k)) <= length
      BY <1>1, <1>2, <1>6, <3>1, <3>2, <3>3
    <3>5. \A i \in 1..k : i \in 1..j
      BY <1>2
    <3> QED BY <1>1, <1>2, <1>3, <3>1, <3>4, <3>5
  <2>2. ASSUME NEW k \in good, k \notin 1..j PROVE FALSE
    <3>1. k \in 1..n /\ Len(Part(hs, k)) <= length /\ \A i \in 1..k : Accepts(hs[i], limit)
      BY <1>2, <1>3
    <3>2. j + 1 \in 1..k /\ j + 1 \in 0..n /\ k \in j + 1..n /\ k \in 0..n /\ 0 \in 0..n
          /\ k \in 0..n /\ j # n
      BY <1>1, <1>2, <2>2, <3>1
    <3>3. CASE e.left
      <4>1. Len(Part(hs, j + 1)) > length
        BY <1>1, <3>1, <3>2, <3>3
      <4>2. Len(Part(hs, k)) >= Len(Part(hs, j + 1)) + 2 * (k - (j + 1))
        BY <1>5, <3>2
      <4>3. Len(Part(hs, k)) \in Nat /\ Len(Part(hs, j + 1)) \in Nat
        BY <1>4, <3>2
      <4>4. k - (j + 1) \in Nat
        BY <1>2, <3>2
      <4> QED BY <1>6, <3>1, <4>1, <4>2, <4>3, <4>4
    <3>4. CASE length = 0
      <4>1. Len(Part(hs, k)) >= Len(Part(hs, 0)) + 2 * (k - 0)
        BY <1>5, <3>2
      <4>2. Len(Part(hs, k)) \in Nat /\ Len(Part(hs, 0)) \in Nat
        BY <1>4, <3>2
      <4> QED BY <3>1, <3>4, <4>1, <4>2
    <3> QED BY <3>3, <3>4
  <2> QED BY <2>1, <2>2
<1>8. Arrives(hs, length, limit) = [k \in good |-> <<hs[k], Payload(hs[k])>>]
  BY DEF Arrives
<1> HIDE DEF good
<1>9. e.out = [k \in 1..j |-> <<hs[k], Payload(hs[k])>>]
  BY <1>1, <1>2
<1> QED BY <1>7, <1>8, <1>9

(* Whatever recv() returns at a time, what arrives are the complete packets *)
(* up to the first that is refused.                                        *)
THEOREM ReceiveArrives ==
  ASSUME NEW H, Sized(H), NEW hs \in Seq(H), NEW length \in 0..Len(Wire(hs)),
         NEW cuts \in Seq(Nat \ {0}), NEW limit
  PROVE  Receive(Begun(hs, length), cuts, limit) = Arrives(hs, length, limit)
<1> DEFINE C == Cells(H)
           W == Begun(hs, length)
           S == Handles(H, hs, length, limit)
           x == Receiver(W, cuts)
<1>1. Wire(hs) \in Seq(C) /\ Len(Wire(hs)) \in Nat /\ length \in Nat /\ Len(hs) \in Nat
  <2>1. Len(hs) \in Nat
    BY LenProperties
  <2>2. Wire(hs) \in Seq(C)
    BY <2>1, Parts
  <2>3. Len(Wire(hs)) \in Nat
    BY <2>2, LenProperties
  <2> QED BY <2>1, <2>2, <2>3
<1>2. W \in Seq(C) /\ Len(W) = length
  BY <1>1, FirstOf DEF Begun
<1>3. x \in S
  <2>1. x \in Receivers(C, Packed(H)) /\ x.out = <<>> /\ x.wire = W /\ ~x.left
    <3>1. <<>> \in Seq(C) /\ <<>> \in Seq(Packed(H))
      BY EmptySeq
    <3> HIDE DEF W
    <3> QED BY <1>2, <3>1 DEF Receiver, Receivers
  <2>2. Len(x.out) = 0 /\ Part(hs, 0) = <<>>
    BY <2>1, EmptySeq, Parts
  <2>3. <<>> \o W = W /\ Len(<<>>) = 0
    BY <1>2, ConcatEmptySeq, EmptySeq
  <2> HIDE DEF x, W
  <2>4. /\ Len(x.out) <= Len(hs) /\ Len(Part(hs, Len(x.out))) <= length
        /\ \A i \in 1..Len(x.out) : FALSE
        /\ Part(hs, Len(x.out)) \o x.wire = W
    <3>1. Part(hs, Len(x.out)) = <<>>
      BY <2>2
    <3>2. \A i \in 1..0 : FALSE
      OBVIOUS
    <3>3. Part(hs, Len(x.out)) \o x.wire = W
      BY <2>1, <2>3, <3>1
    <3>4. Len(x.out) <= Len(hs) /\ Len(Part(hs, Len(x.out))) <= length
      BY <1>1, <2>2, <2>3, <3>1
    <3> QED BY <2>2, <3>2, <3>3, <3>4
  <2> QED BY <2>1, <2>4 DEF Handles, W
<1>4. \A r \in S : ReadPacket(r, limit) \in S
  BY ReadPacketHandles
<1> HIDE DEF S, W
<1>5. PICK h : /\ \A k \in 1..Len(W) : h[k] = ReadPacket(h[k - 1], limit)
               /\ \A k \in 0..Len(W) : h[k] \in S
               /\ Receive(W, cuts, limit) = h[Len(W)].out
  <2>1. Len(W) \in Nat /\ Receiver(W, cuts) \in S
    BY <1>1, <1>2, <1>3
  <2> HIDE DEF x
  <2> QED BY <1>4, <2>1, ReceiveRuns
<1>8. \A k \in 1..length : h[k] = ReadPacket(h[k - 1], limit)
  BY <1>2, <1>5
<1>9. \A k \in 0..length : h[k] \in S
  BY <1>2, <1>5
<1>10. \A k \in 0..length : h[k].left \/ Len(h[k].out) >= k
  <2> DEFINE T == {k \in 0..length : ~(h[k].left \/ Len(h[k].out) >= k)}
  <2>1. ASSUME T # {} PROVE FALSE
    <3>1. PICK k \in T : \A y \in T : y >= k
      <4>1. T \subseteq Nat
        BY <1>1
      <4> QED BY <2>1, <4>1, Least
    <3>2. k \in 0..length /\ ~h[k].left /\ ~(Len(h[k].out) >= k)
      OBVIOUS
    <3>3. \A i \in 0..length : Len(h[i].out) \in Nat
      <4>1. \A i \in 0..length : h[i].out \in Seq(Packed(H))
        BY <1>9 DEF S, Handles, Receivers
      <4> QED BY <4>1, LenProperties
    <3>4. k # 0
      BY <3>2, <3>3
    <3>5. k - 1 \in 0..length /\ k \in 1..length /\ ~(k - 1 >= k)
      BY <1>1, <3>2, <3>4
    <3>6. h[k - 1].left \/ Len(h[k - 1].out) >= k - 1
      BY <3>1, <3>5
    <3>7. h[k - 1] \in S /\ h[k] = ReadPacket(h[k - 1], limit)
      BY <1>8, <1>9, <3>5
    <3>8. h[k].left \/ (Len(h[k].out) = Len(h[k - 1].out) + 1 /\ ~h[k - 1].left)
      BY <3>7, ReadPacketHandles DEF S
    <3> QED BY <3>2, <3>3, <3>5, <3>6, <3>8
  <2> QED BY <2>1
<1> DEFINE e == h[length]
<1>11. Receive(W, cuts, limit) = e.out
  BY <1>2, <1>5
<1>12. e \in S /\ (e.left \/ Len(e.out) >= length)
  <2>1. length \in 0..length
    BY <1>1
  <2> QED BY <1>9, <1>10, <2>1
<1> HIDE DEF e
<1>13. e.left \/ length = 0
  <2> DEFINE j == Len(e.out)
  <2>1. j \in Nat /\ j <= Len(hs) /\ Len(Part(hs, j)) <= length
    <3>1. e.out \in Seq(Packed(H)) /\ j <= Len(hs) /\ Len(Part(hs, j)) <= length
      BY <1>12 DEF S, Handles, Receivers
    <3> QED BY <3>1, LenProperties
  <2> HIDE DEF j
  <2>2. 0 \in 0..Len(hs) /\ j \in 0..Len(hs)
    BY <1>1, <2>1
  <2>3. Len(Part(hs, j)) >= Len(Part(hs, 0)) + 2 * (j - 0)
    BY <2>2, PartsGrow
  <2>4. Part(hs, 0) = <<>> /\ Len(<<>>) = 0
    BY Parts, EmptySeq
  <2>5. Len(Part(hs, j)) \in Nat
    <3>1. Part(hs, j) \in Seq(C)
      BY <2>2, Parts
    <3> QED BY <3>1, LenProperties
  <2>6. Len(Part(hs, j)) >= 2 * j
    BY <2>1, <2>3, <2>4
  <2>7. ASSUME j >= length PROVE length = 0
    BY <1>1, <2>1, <2>5, <2>6, <2>7
  <2> QED BY <1>12, <2>7 DEF j
<1> QED BY <1>11, <1>12, <1>13, HandledArrives DEF S, W

(* The property of the small streams is one of all streams. *)
THEOREM PacketsAlwaysIgnoreReads == Spec => []PacketsIgnoreReads
<1>1. Sized(Headers)
  BY DEF Sized, Headers, Header
<1>2. ASSUME NEW hs \in Streams, NEW length \in 0..Len(Wire(hs)), NEW cuts \in Reads,
             NEW limit \in Limits
      PROVE  Receive(SubSeq(Wire(hs), 1, length), cuts, limit) = Arrives(hs, length, limit)
  <2>1. hs \in Seq(Headers)
    <3>1. PICK m \in 0..3 : hs \in [1..m -> Headers]
      BY DEF Streams, BoundedSeq, SeqOf
    <3> QED BY <3>1
  <2>2. cuts \in Seq(Nat \ {0})
    <3>1. PICK m \in 0..3 : cuts \in [1..m -> 1..2]
      BY DEF Reads, BoundedSeq, SeqOf
    <3>2. cuts \in [1..m -> Nat \ {0}]
      BY <3>1
    <3> QED BY <3>2
  <2> QED BY <1>1, <2>1, <2>2, ReceiveArrives DEF Begun
<1>3. Misread = {}
  <2>1. Misread \subseteq {}
    <3> SUFFICES ASSUME NEW hs \in Misread PROVE FALSE
      OBVIOUS
    <3>1. /\ hs \in Streams
          /\ \E length \in 0..Len(Wire(hs)), cuts \in Reads, limit \in Limits :
               Receive(SubSeq(Wire(hs), 1, length), cuts, limit)
                 # Arrives(hs, length, limit)
      BY Zenon DEF Misread
    <3> QED BY <1>2, <3>1
  <2> QED BY <2>1
<1>4. PacketsIgnoreReads
  BY <1>3 DEF PacketsIgnoreReads
<1> QED BY <1>4, PTL
=============================================================================
