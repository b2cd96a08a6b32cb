----------------------------- MODULE BridgeLink -----------------------------
(***************************************************************************)
(* The connection between host_bridge_demo and the headset application:    *)
(* TcpServer (tcp_server.cpp) with its worker thread, the demo's video      *)
(* thread and main thread, against the transport thread of native_main.cpp *)
(* with the OpenXR thread that leaves it the latest pose.                   *)
(*                                                                         *)
(* Every write to a socket blocks while the buffers towards the other side  *)
(* are full, on both sides; the host's writes hold send_mutex_.  A step is  *)
(* one packet, or one critical section.                                     *)
(***************************************************************************)
EXTENDS Naturals, Sequences

CONSTANTS MaxConn,   \* bound: connections the headset makes
          Cap,       \* packets the buffers hold, each way
          MaxPose    \* bound: poses the OpenXR thread publishes

ASSUME BoundsAssumption == MaxConn \in Nat /\ Cap \in Nat \ {0} /\ MaxPose \in Nat

Conns == 1..MaxConn

VARIABLES
  h264,      \* h264_stream.has_value(): the demo was given a stream
  main,      \* the demo's main thread
  gRunning,  \* g_running
  running,   \* running_
  lsock,     \* the listening socket
  clientFd,  \* client_fd_, 0 for -1
  mutex,     \* who holds send_mutex_
  vpc,       \* the video thread
  wpc, wfd, wpkt,        \* the worker thread, its fd and packet
  sock,      \* the host's end of each connection
  peer,      \* the headset's end
  h2q, q2h,  \* what is in the buffers
  qrun,      \* g_transport_running
  qpc, qfd,  \* the transport thread and its fd
  acks,      \* acknowledgements pending in the decoder, 0 or 1
  qpose,     \* the pose it has taken and not sent yet
  mail,      \* g_latest_pose, 0 for none
  posed,     \* poses published
  got        \* the last pose the host handled

mainVars  == <<h264, main, gRunning, running, lsock>>
workVars  == <<wpc, wfd, wpkt, got>>
netVars   == <<sock, peer, h2q, q2h>>
questVars == <<qrun, qpc, qfd, acks, qpose, mail, posed>>
vars == <<mainVars, clientFd, mutex, vpc, workVars, netVars, questVars>>

NoPacket == [kind |-> "none", pose |-> 0]
Packet(kind) == [kind |-> kind, pose |-> 0]
PosePacket(n) == [kind |-> "POSE", pose |-> n]

Init ==
  /\ h264 \in BOOLEAN
  /\ main = "start" /\ gRunning = TRUE /\ running = FALSE /\ lsock = "none"
  /\ clientFd = 0 /\ mutex = "free" /\ vpc = "off"
  /\ wpc = "off" /\ wfd = 0 /\ wpkt = NoPacket /\ got = 0
  /\ sock = [c \in Conns |-> "none"] /\ peer = [c \in Conns |-> "away"]
  /\ h2q = [c \in Conns |-> <<>>] /\ q2h = [c \in Conns |-> <<>>]
  /\ qrun = TRUE /\ qpc = "connect" /\ qfd = 0 /\ acks = 0 /\ qpose = 0
  /\ mail = 0 /\ posed = 0

-----------------------------------------------------------------------------
(* TcpServer::send between lock and unlock, for packets of some kind. *)
HostWrite(kind) ==
  \/ clientFd = 0 /\ UNCHANGED h2q
  \/ clientFd # 0 /\ peer[clientFd] = "gone" /\ UNCHANGED h2q
  \/ /\ clientFd # 0 /\ peer[clientFd] = "up" /\ Len(h2q[clientFd]) < Cap
     /\ h2q' = [h2q EXCEPT ![clientFd] = Append(@, kind)]

VideoTop ==
  /\ vpc = "top"
  /\ vpc' = IF gRunning THEN "lock" ELSE "off"
  /\ UNCHANGED <<mainVars, clientFd, mutex, workVars, netVars, questVars>>

VideoLock ==
  /\ vpc = "lock" /\ mutex = "free"
  /\ mutex' = "video" /\ vpc' = "write"
  /\ UNCHANGED <<mainVars, clientFd, workVars, netVars, questVars>>

VideoWrite ==
  /\ vpc = "write" /\ HostWrite("VIDEO")
  /\ mutex' = "free" /\ vpc' = "top"
  /\ UNCHANGED <<mainVars, clientFd, workVars, sock, peer, q2h, questVars>>

-----------------------------------------------------------------------------
(* The worker: acceptLoop, clientLoop and the packet callback. *)
Goto(from, to) == wpc = from /\ wpc' = to

WorkerTop ==
  /\ Goto("top", IF running THEN "accept" ELSE "off")
  /\ UNCHANGED <<mainVars, clientFd, mutex, vpc, wfd, wpkt, got, netVars,
                 questVars>>

Backlog == {c \in Conns : sock[c] = "backlog"}

WorkerAccept ==
  /\ \E c \in Backlog :
       /\ \A d \in Backlog : c <= d
       /\ Goto("accept", "publish")
       /\ wfd' = c /\ sock' = [sock EXCEPT ![c] = "open"]
  /\ UNCHANGED <<mainVars, clientFd, mutex, vpc, wpkt, got, peer, h2q, q2h,
                 questVars>>

WorkerAcceptFails ==
  /\ lsock = "closed" /\ Goto("accept", "top")
  /\ UNCHANGED <<mainVars, clientFd, mutex, vpc, wfd, wpkt, got, netVars,
                 questVars>>

CloseConn(c) == [d \in Conns |-> IF d = c THEN "closed" ELSE sock[d]]

(* a connection that is still there is closed in favour of the new one *)
WorkerPublish ==
  /\ mutex = "free" /\ Goto("publish", "loop")
  /\ sock' = CloseConn(clientFd) /\ clientFd' = wfd
  /\ UNCHANGED <<mainVars, mutex, vpc, wfd, wpkt, got, peer, h2q, q2h,
                 questVars>>

WorkerLoop ==
  /\ Goto("loop", IF running THEN "read" ELSE "leave")
  /\ UNCHANGED <<mainVars, clientFd, mutex, vpc, wfd, wpkt, got, netVars,
                 questVars>>

WorkerRead ==
  /\ Goto("read", "handle") /\ sock[wfd] = "open" /\ q2h[wfd] # <<>>
  /\ wpkt' = Head(q2h[wfd]) /\ q2h' = [q2h EXCEPT ![wfd] = Tail(@)]
  /\ UNCHANGED <<mainVars, clientFd, mutex, vpc, wfd, got, sock, peer, h2q,
                 questVars>>

(* what a reset connection still held may be lost *)
WorkerReadEnds ==
  /\ Goto("read", "leave")
  /\ sock[wfd] = "closed" \/ peer[wfd] = "gone"
  /\ UNCHANGED <<mainVars, clientFd, mutex, vpc, wfd, wpkt, got, netVars,
                 questVars>>

(* The demo answers HELLO and HEARTBEAT from within the callback, and      *)
(* without a stream it sends a test pattern there, for every tenth POSE.   *)
Answers(kind) ==
  CASE kind \in {"HELLO", "BEAT"} -> {"lock"}
    [] kind = "POSE" /\ ~h264 -> {"lock", "loop"}
    [] OTHER -> {"loop"}

WorkerHandle ==
  /\ \E next \in Answers(wpkt.kind) : Goto("handle", next)
  /\ got' = IF wpkt.kind = "POSE" THEN wpkt.pose ELSE got
  /\ UNCHANGED <<mainVars, clientFd, mutex, vpc, wfd, wpkt, netVars, questVars>>

(* mutant: send() without its lock_guard *)
WorkerLockFree ==
  /\ Goto("lock", "write")
  /\ UNCHANGED <<mainVars, clientFd, mutex, vpc, wfd, wpkt, got, netVars,
                 questVars>>

WorkerLock ==
  /\ mutex = "free" /\ Goto("lock", "write")
  /\ mutex' = "worker"
  /\ UNCHANGED <<mainVars, clientFd, vpc, wfd, wpkt, got, netVars, questVars>>

WorkerWrite ==
  /\ Goto("write", "loop") /\ HostWrite(IF wpkt.kind = "POSE" THEN "VIDEO" ELSE wpkt.kind)
  /\ mutex' = "free"
  /\ UNCHANGED <<mainVars, clientFd, vpc, wfd, wpkt, got, sock, peer, q2h,
                 questVars>>

(* mutant: acceptLoop forgets the descriptor without closing it *)
WorkerLeaveOpen ==
  /\ mutex = "free" /\ Goto("leave", "top")
  /\ clientFd' = IF clientFd = wfd THEN 0 ELSE clientFd
  /\ UNCHANGED <<mainVars, mutex, vpc, wfd, wpkt, got, netVars, questVars>>

WorkerLeave ==
  /\ mutex = "free" /\ Goto("leave", "top")
  /\ IF clientFd = wfd THEN sock' = CloseConn(wfd) /\ clientFd' = 0
                       ELSE UNCHANGED <<sock, clientFd>>
  /\ UNCHANGED <<mainVars, mutex, vpc, wfd, wpkt, got, peer, h2q, q2h,
                 questVars>>

-----------------------------------------------------------------------------
(* The main thread: TcpServer::start, which may fail, the wait for a       *)
(* signal, the video thread's join, TcpServer::stop.                       *)
MainGoto(from, to) == main = from /\ main' = to

Start ==
  /\ \/ /\ MainGoto("start", "run")
        /\ running' = TRUE /\ lsock' = "listen" /\ wpc' = "top"
        /\ vpc' = IF h264 THEN "top" ELSE "off"
     \/ MainGoto("start", "done") /\ UNCHANGED <<running, lsock, wpc, vpc>>
  /\ UNCHANGED <<h264, gRunning, clientFd, mutex, wfd, wpkt, got, netVars,
                 questVars>>

Signal ==
  /\ gRunning /\ main \in {"start", "run"} /\ gRunning' = FALSE
  /\ UNCHANGED <<h264, main, running, lsock, clientFd, mutex, vpc, workVars,
                 netVars, questVars>>

MainLeaves ==
  /\ ~gRunning /\ MainGoto("run", "joinVideo")
  /\ UNCHANGED <<h264, gRunning, running, lsock, clientFd, mutex, vpc, workVars,
                 netVars, questVars>>

StopBegin ==
  /\ vpc = "off" /\ MainGoto("joinVideo", "lock") /\ running' = FALSE
  /\ UNCHANGED <<h264, gRunning, lsock, clientFd, mutex, vpc, workVars, netVars,
                 questVars>>

(* mutant: stop() leaves the client's socket to its worker *)
StopClientOpen ==
  /\ mutex = "free" /\ MainGoto("lock", "listen")
  /\ clientFd' = 0
  /\ UNCHANGED <<h264, gRunning, running, lsock, mutex, vpc, workVars, netVars,
                 questVars>>

StopClient ==
  /\ mutex = "free" /\ MainGoto("lock", "listen")
  /\ sock' = CloseConn(clientFd) /\ clientFd' = 0
  /\ UNCHANGED <<h264, gRunning, running, lsock, mutex, vpc, workVars, peer, h2q,
                 q2h, questVars>>

StopListen ==
  /\ MainGoto("listen", "join") /\ lsock' = "closed"
  /\ sock' = [c \in Conns |-> IF c \in Backlog THEN "closed" ELSE sock[c]]
  /\ UNCHANGED <<h264, gRunning, running, clientFd, mutex, vpc, workVars, peer, h2q,
                 q2h, questVars>>

StopJoin ==
  /\ wpc = "off" /\ MainGoto("join", "done")
  /\ UNCHANGED <<h264, gRunning, running, lsock, clientFd, mutex, vpc, workVars,
                 netVars, questVars>>

-----------------------------------------------------------------------------
(* The headset's transport thread. *)
QGoto(from, to) == qpc = from /\ qpc' = to
HostVars == <<mainVars, clientFd, mutex, vpc, workVars>>

(* A write fails once the host has closed its end; a packet that has been  *)
(* taken for sending is gone then.                                         *)
QuestWrite(packet, here, sent) ==
  \/ /\ QGoto(here, sent) /\ sock[qfd] # "closed" /\ Len(q2h[qfd]) < Cap
     /\ q2h' = [q2h EXCEPT ![qfd] = Append(@, packet)]
  \/ QGoto(here, "close") /\ sock[qfd] = "closed" /\ UNCHANGED q2h

(* a refused connection is tried again after a second *)
QuestConnect ==
  /\ \/ qrun /\ \E c \in Conns :
                  /\ lsock = "listen" /\ sock[c] = "none"
                  /\ \A d \in Conns : d < c => sock[d] # "none"
                  /\ sock' = [sock EXCEPT ![c] = "backlog"]
                  /\ peer' = [peer EXCEPT ![c] = "up"]
                  /\ qfd' = c /\ QGoto("connect", "hello")
     \/ ~qrun /\ QGoto("connect", "off") /\ UNCHANGED <<sock, peer, qfd>>
  /\ UNCHANGED <<HostVars, h2q, q2h, qrun, acks, qpose, mail, posed>>

(* the result of sending HELLO is ignored *)
QuestHello ==
  /\ QGoto("hello", "top")
  /\ \/ /\ sock[qfd] # "closed" /\ Len(q2h[qfd]) < Cap
        /\ q2h' = [q2h EXCEPT ![qfd] = Append(@, Packet("HELLO"))]
     \/ sock[qfd] = "closed" /\ UNCHANGED q2h
  /\ UNCHANGED <<HostVars, sock, peer, h2q, qrun, qfd, acks, qpose, mail, posed>>

(* mutant: the inner loop does not look at g_transport_running *)
QuestTopForever ==
  /\ QGoto("top", "recv")
  /\ UNCHANGED <<HostVars, netVars, qrun, qfd, acks, qpose, mail, posed>>

QuestTop ==
  /\ QGoto("top", IF qrun THEN "recv" ELSE "close")
  /\ UNCHANGED <<HostVars, netVars, qrun, qfd, acks, qpose, mail, posed>>

(* receiveHostPackets: an H.264 VIDEO may make the decoder publish, a test  *)
(* pattern is published without acknowledgement, everything else is        *)
(* dropped.                                                                *)
QuestReceive ==
  /\ qpc = "recv" /\ h2q[qfd] # <<>>
  /\ h2q' = [h2q EXCEPT ![qfd] = Tail(@)]
  /\ IF Head(h2q[qfd]) = "VIDEO"
     THEN /\ acks' \in {acks} \union {n \in {1} : h264} /\ QGoto("recv", "ack")
     ELSE acks' = acks /\ QGoto("recv", "recv")
  /\ UNCHANGED <<HostVars, sock, peer, q2h, qrun, qfd, qpose, mail, posed>>

QuestNothing ==
  /\ \/ QGoto("recv", "lastAck") /\ h2q[qfd] = <<>> /\ sock[qfd] # "closed"
     \/ QGoto("recv", "close") /\ sock[qfd] = "closed"
  /\ UNCHANGED <<HostVars, netVars, qrun, qfd, acks, qpose, mail, posed>>

(* sendVideoDecodeAcks, after every VIDEO and once per round *)
QuestAck ==
  /\ \E at \in {<<"ack", "recv">>, <<"lastAck", "beat">>} :
       \/ QGoto(at[1], at[2]) /\ acks = 0 /\ UNCHANGED <<q2h, acks>>
       \/ acks = 1 /\ QuestWrite(Packet("ACK"), at[1], at[2]) /\ acks' = 0
  /\ UNCHANGED <<HostVars, sock, peer, h2q, qrun, qfd, qpose, mail, posed>>

QuestBeat ==
  /\ \/ QGoto("beat", "pose") /\ UNCHANGED q2h        \* not yet half a second
     \/ QuestWrite(Packet("BEAT"), "beat", "pose")
  /\ UNCHANGED <<HostVars, sock, peer, h2q, qrun, qfd, acks, qpose, mail, posed>>

(* mutant: the mailbox is copied and not reset *)
QuestPeekPose ==
  /\ QGoto("pose", IF mail = 0 THEN "top" ELSE "sendPose")
  /\ qpose' = mail
  /\ UNCHANGED <<HostVars, netVars, qrun, qfd, acks, mail, posed>>

(* takeLatestPose empties the mailbox; sending may block after it *)
QuestTakePose ==
  /\ QGoto("pose", IF mail = 0 THEN "top" ELSE "sendPose")
  /\ qpose' = mail /\ mail' = 0
  /\ UNCHANGED <<HostVars, netVars, qrun, qfd, acks, posed>>

QuestSendPose ==
  /\ QuestWrite(PosePacket(qpose), "sendPose", "top")
  /\ qpose' = 0
  /\ UNCHANGED <<HostVars, sock, peer, h2q, qrun, qfd, acks, mail, posed>>

QuestClose ==
  /\ QGoto("close", "connect")
  /\ peer' = [peer EXCEPT ![qfd] = "gone"] /\ qfd' = 0
  /\ UNCHANGED <<HostVars, sock, h2q, q2h, qrun, acks, qpose, mail, posed>>

(* publishHeadPose, from the OpenXR thread *)
PublishPose ==
  /\ posed < MaxPose
  /\ posed' = posed + 1 /\ mail' = posed + 1
  /\ UNCHANGED <<HostVars, netVars, qrun, qpc, qfd, acks, qpose>>

(* stopTransport, which then joins the thread *)
StopTransport ==
  /\ qrun /\ qrun' = FALSE
  /\ UNCHANGED <<HostVars, netVars, qpc, qfd, acks, qpose, mail, posed>>

-----------------------------------------------------------------------------
Video == VideoTop \/ VideoLock \/ VideoWrite
WorkerLocks == WorkerPublish \/ WorkerLock \/ WorkerLeave
Worker == \/ WorkerTop \/ WorkerAccept \/ WorkerAcceptFails \/ WorkerLoop
          \/ WorkerRead \/ WorkerReadEnds \/ WorkerHandle \/ WorkerWrite
          \/ WorkerLocks
Main == Start \/ MainLeaves \/ StopBegin \/ StopClient \/ StopListen \/ StopJoin
Quest == \/ QuestConnect \/ QuestHello \/ QuestTop \/ QuestReceive
         \/ QuestNothing \/ QuestAck \/ QuestBeat \/ QuestTakePose
         \/ QuestSendPose \/ QuestClose

Next == Video \/ Worker \/ Signal \/ Main \/ Quest \/ PublishPose \/ StopTransport

Spec == Init /\ [][Next]_vars

(* Every thread runs when it can.  The video thread sleeps between frames,  *)
(* so a thread that waits for send_mutex_ gets it if it is released over    *)
(* and over.  Nobody has to send a signal or to publish poses.             *)
Fairness ==
  /\ WF_vars(Video) /\ WF_vars(Worker) /\ WF_vars(Main) /\ WF_vars(Quest)
  /\ SF_vars(VideoLock) /\ SF_vars(WorkerLocks) /\ SF_vars(StopClient)

FairSpec == Spec /\ Fairness

-----------------------------------------------------------------------------
Packets == [kind : {"none", "HELLO", "BEAT", "ACK", "POSE"}, pose : 0..MaxPose]
TypeOK ==
  /\ h264 \in BOOLEAN
  /\ main \in {"start", "run", "joinVideo", "lock", "listen", "join", "done"}
  /\ gRunning \in BOOLEAN /\ running \in BOOLEAN /\ lsock \in {"none", "listen", "closed"}
  /\ clientFd \in 0..MaxConn /\ mutex \in {"free", "video", "worker"}
  /\ vpc \in {"top", "lock", "write", "off"}
  /\ wpc \in {"top", "accept", "publish", "loop", "read", "handle", "lock",
              "write", "leave", "off"}
  /\ wfd \in 0..MaxConn /\ wpkt \in Packets /\ got \in 0..MaxPose
  /\ sock \in [Conns -> {"none", "backlog", "open", "closed"}]
  /\ peer \in [Conns -> {"away", "up", "gone"}]
  /\ h2q \in [Conns -> Seq({"VIDEO", "HELLO", "BEAT"})] /\ q2h \in [Conns -> Seq(Packets)]
  /\ \A c \in Conns : Len(h2q[c]) <= Cap /\ Len(q2h[c]) <= Cap
  /\ qrun \in BOOLEAN /\ qfd \in 0..MaxConn /\ acks \in 0..1
  /\ qpc \in {"connect", "hello", "top", "recv", "ack", "lastAck", "beat",
              "pose", "sendPose", "close", "off"}
  /\ qfd = 0 <=> qpc \in {"connect", "off"}
  /\ (vpc = "write") <=> (mutex = "video")
  /\ (wpc = "write") <=> (mutex = "worker")
  /\ qpose \in 0..MaxPose /\ mail \in 0..MaxPose /\ posed \in 0..MaxPose

(* Every connection the host has open is the worker's, and it is the one    *)
(* send() uses, from acceptLoop's publication to its end, until stop()      *)
(* takes it away: none is leaked and none is unreachable (151-182, 118-130). *)
OpenIsServed ==
  \A c \in Conns : sock[c] = "open" =>
    /\ c = wfd
    /\ \/ wpc = "publish"
       \/ clientFd = c /\ wpc \in {"loop", "read", "handle", "lock", "write", "leave"}

(* The host sees poses in the order in which the OpenXR thread published    *)
(* them, each at most once, also across connections (takeLatestPose 36-41;  *)
(* the worker reads a connection to its end before it accepts the next).    *)
Handling == wpc = "handle" /\ wpc' # "handle"
PosesInOrder == [][Handling /\ wpkt.kind = "POSE" => wpkt.pose > got]_vars

(* The ring of blocked writes: the headset's transport thread writes to a   *)
(* full buffer, a host thread that holds send_mutex_ does too, and the      *)
(* worker, which would read, waits for the mutex or is that thread.         *)
Ring ==
  /\ qfd # 0 /\ clientFd = qfd
  /\ Len(q2h[qfd]) = Cap /\ Len(h2q[qfd]) = Cap
  /\ qpc \in {"ack", "lastAck", "beat", "sendPose"}
  /\ \/ vpc = "write" /\ wpc \in {"lock", "leave"}
     \/ wpc = "write"

(* receiveHostPackets never finds the socket empty: packets keep arriving   *)
(* as fast as they are handled.                                            *)
Fed == qpc \in {"recv", "ack"}

(* A signal ends host_bridge_demo, except in that ring, which nothing       *)
(* resolves (host_bridge_demo.cpp 492-499, TcpServer::stop 118-130).        *)
HostStops == ~gRunning ~> (main = "done" \/ []Ring)

(* stopTransport() ends the transport thread, except in the ring and under  *)
(* a stream that never pauses (native_main.cpp 149-177, 233-240).           *)
TransportStops == ~qrun ~> (qpc = "off" \/ []Ring \/ []Fed)
=============================================================================
