---------------------------- MODULE Quest3Server ----------------------------
(***************************************************************************)
(* The Python host of robovr/quest3/server.py: one server object used by   *)
(*   - a control thread, which calls start() and close();                  *)
(*   - the reader thread that start() creates (_run, _read_connection,     *)
(*     _handle_packet);                                                    *)
(*   - sender threads, which call send_payload();                          *)
(*   - waiter threads, which call wait_for_state().                        *)
(* A step is a run of code that no other thread can observe half done: a   *)
(* body under self._lock, one attribute read or written, one system call.  *)
(*                                                                         *)
(* The Quest side and the kernel are external.  A connection is a number;  *)
(* sock[c] is the host's end, peer[c] the headset's, inbox[c] the packets  *)
(* sent to the host and not yet received, wire[c] what the host has        *)
(* written.  The state that latest() returns is reduced to whether it      *)
(* exists (known), its connected flag, and whether any POSE has been       *)
(* merged into it (input).                                                 *)
(***************************************************************************)
EXTENDS Naturals, Sequences

CONSTANTS Senders,      \* threads that call send_payload
          Waiters,      \* threads that call wait_for_state
          Kinds,        \* the packet kinds the headset sends
          MaxConn,      \* bound: connections the headset makes
          MaxInbox,     \* bound: packets in flight towards the host
          MaxPackets,   \* bound: packets sent to the host
          MaxSends,     \* bound: sequence numbers the host uses
          MaxStarts     \* bound: threads that start() creates

(* HELLO, HEARTBEAT, a STATS that is no acknowledgement, and ERROR all     *)
(* have the effect of TOUCH; ACK is a STATS with kind=video_ack; UNKNOWN   *)
(* is any other packet type; BAD fails the header check.                   *)
PacketKinds == {"TOUCH", "POSE", "ACK", "GOODBYE", "UNKNOWN", "BAD"}

ASSUME KindsAssumption == Kinds \subseteq PacketKinds
ASSUME BoundsAssumption == /\ MaxConn \in Nat /\ MaxSends \in Nat
                           /\ MaxStarts \in Nat /\ MaxPackets \in Nat
                           /\ MaxInbox \in Nat
ASSUME ThreadsAssumption == "control" \notin Senders

Conns == 1..MaxConn
Nobody == "control"               \* the send lock is free
Unknown == [known |-> FALSE, connected |-> FALSE, input |-> FALSE]

VARIABLES
  stop,      \* self._stop
  rpc,       \* where the reader thread is; "off": no thread is alive
  cur,       \* the reader's local conn, 0 for none
  pkt,       \* the packet kind the reader handles
  starts,    \* reader threads created so far
  serverAttr,\* self._server_socket is not None
  lsock,     \* the listening socket
  connAttr,  \* self._conn, 0 for None
  sock, peer, inbox, wire,
  packets,   \* packets the headset has sent
  latest,    \* self._latest
  ctl,       \* where close() is, "idle" outside it
  spc,       \* where each send_payload is, "idle" outside it
  sconn,     \* its local conn
  sseq,      \* its local seq
  held,      \* the socket _close_socket has read from the attribute
  sendLock,  \* who holds self._send_lock
  sendSeq,   \* self._send_seq
  sent,      \* stats["video_packets_sent"]
  errors,    \* stats["video_send_errors"]
  wpc,       \* where each wait_for_state is
  asked,     \* had a POSE been sent when it was called?
  wret       \* what it returned

readerVars == <<rpc, cur, pkt, starts>>
netVars    == <<lsock, sock, peer, inbox, wire, packets>>
sendVars   == <<spc, sconn, sseq, sendLock, sendSeq, sent, errors>>
waitVars   == <<wpc, asked, wret>>
vars == <<stop, readerVars, serverAttr, connAttr, netVars, latest, ctl,
          sendVars, held, waitVars>>

ReaderPCs == {"off", "begin", "bind", "top", "accept", "publish", "greet",
              "check", "recv", "handle", "ack", "leave", "mark", "close",
              "fail", "exit", "final"}
CtlPCs  == {"idle", "readConn", "closeConn", "clearConn", "readServer",
            "closeServer", "clearServer", "join", "mark"}
SendPCs == {"idle", "read", "check", "header", "payload", "count", "error",
            "readConn", "closeConn", "clearConn", "mark"}
Chunk   == [seq : Nat, part : {"header", "payload"}]
Threads == Senders \cup {"control"}

Init ==
  /\ stop = FALSE
  /\ rpc = "off" /\ cur = 0 /\ pkt = "TOUCH" /\ starts = 0
  /\ serverAttr = FALSE /\ connAttr = 0
  /\ lsock = "none"
  /\ sock = [c \in Conns |-> "none"]
  /\ peer = [c \in Conns |-> "away"]
  /\ inbox = [c \in Conns |-> <<>>]
  /\ wire = [c \in Conns |-> <<>>]
  /\ packets = 0
  /\ latest = Unknown
  /\ ctl = "idle"
  /\ spc = [s \in Senders |-> "idle"]
  /\ sconn = [s \in Senders |-> 0]
  /\ sseq = [s \in Senders |-> 0]
  /\ held = [t \in Threads |-> 0]
  /\ sendLock = Nobody /\ sendSeq = 1 /\ sent = 0 /\ errors = 0
  /\ wpc = [w \in Waiters |-> "idle"]
  /\ asked = [w \in Waiters |-> FALSE]
  /\ wret = [w \in Waiters |-> Unknown]

-----------------------------------------------------------------------------
(* Shared state under self._lock.  Every write of self._latest is followed *)
(* by notify_all() before the lock is released.                            *)

NotifyAll ==
  /\ wpc' = [w \in Waiters |-> IF wpc[w] = "waiting" THEN "notified" ELSE wpc[w]]
  /\ UNCHANGED <<asked, wret>>

(* mutants: the old state's fields are not carried over; the write under   *)
(* the lock forgets notify_all()                                           *)
SetConnectedForgets(b) ==
  latest' = [known |-> TRUE, connected |-> b] /\ NotifyAll
SetConnectedQuiet(b) ==
  /\ latest' = [known |-> TRUE, connected |-> b, input |-> latest.input]
  /\ UNCHANGED waitVars

(* _set_connected: an empty state is created when there is none *)
SetConnected(b) ==
  /\ latest' = [known |-> TRUE, connected |-> b, input |-> latest.input]
  /\ NotifyAll

(* _update_raw(connected=True), _set_heartbeat and _set_video_ack *)
Touch == SetConnected(TRUE)

(* update_state_from_pose_payload in the POSE branch *)
MergePose ==
  /\ latest' = [known |-> TRUE, connected |-> TRUE, input |-> TRUE]
  /\ NotifyAll

-----------------------------------------------------------------------------
(* The kernel and the headset, external. *)

Backlog == {c \in Conns : sock[c] = "backlog"}

(* Closing the listening socket resets the connections nobody accepted. *)
CloseListener ==
  /\ lsock' = "closed"
  /\ sock' = [c \in Conns |-> IF sock[c] = "backlog" THEN "closed" ELSE sock[c]]

PeerConnect(c) ==
  /\ lsock = "listen" /\ sock[c] = "none"
  /\ \A d \in Conns : d < c => sock[d] # "none"
  /\ sock' = [sock EXCEPT ![c] = "backlog"]
  /\ peer' = [peer EXCEPT ![c] = "up"]
  /\ UNCHANGED <<stop, readerVars, serverAttr, connAttr, lsock, inbox, wire,
                 packets, latest, ctl, sendVars, held, waitVars>>

PeerSend(c, kind) ==
  /\ peer[c] = "up" /\ sock[c] # "closed"
  /\ packets < MaxPackets /\ Len(inbox[c]) < MaxInbox
  /\ inbox' = [inbox EXCEPT ![c] = Append(@, kind)]
  /\ packets' = packets + 1
  /\ UNCHANGED <<stop, readerVars, serverAttr, connAttr, lsock, sock, peer,
                 wire, latest, ctl, sendVars, held, waitVars>>

(* The headset closes its end, or crashes and its kernel resets it. *)
PeerGone(c) ==
  /\ peer[c] = "up"
  /\ peer' = [peer EXCEPT ![c] = "gone"]
  /\ UNCHANGED <<stop, readerVars, serverAttr, connAttr, lsock, sock, inbox,
                 wire, packets, latest, ctl, sendVars, held, waitVars>>

-----------------------------------------------------------------------------
(* The control thread. *)

(* start() on a dead thread.  On a live one it returns at once (line 75),   *)
(* which changes nothing, even when that thread is about to stop.          *)
Start ==
  /\ ctl = "idle" /\ rpc = "off" /\ starts < MaxStarts
  /\ stop' = FALSE
  /\ rpc' = "begin" /\ starts' = starts + 1
  /\ UNCHANGED <<cur, pkt, serverAttr, connAttr, netVars, latest, ctl,
                 sendVars, held, waitVars>>

(* `adb reverse` exits with an error: start() raises after _stop.clear().  *)
StartAdbFails ==
  /\ ctl = "idle" /\ rpc = "off" /\ stop
  /\ stop' = FALSE
  /\ UNCHANGED <<readerVars, serverAttr, connAttr, netVars, latest, ctl,
                 sendVars, held, waitVars>>

Close ==
  /\ ctl = "idle"
  /\ stop' = TRUE
  /\ ctl' = "readConn"
  /\ UNCHANGED <<readerVars, serverAttr, connAttr, netVars, latest,
                 sendVars, held, waitVars>>

(* _close_socket("_conn"): getattr, shutdown and close, setattr None are   *)
(* three steps under no lock.                                              *)
CloseReadConn ==
  /\ ctl = "readConn"
  /\ held' = [held EXCEPT !["control"] = connAttr]
  /\ ctl' = IF connAttr = 0 THEN "readServer" ELSE "closeConn"
  /\ UNCHANGED <<stop, readerVars, serverAttr, connAttr, netVars, latest,
                 sendVars, waitVars>>

CloseConn ==
  /\ ctl = "closeConn"
  /\ sock' = [sock EXCEPT ![held["control"]] = "closed"]
  /\ ctl' = "clearConn"
  /\ UNCHANGED <<stop, readerVars, serverAttr, connAttr, lsock, peer, inbox,
                 wire, packets, latest, sendVars, held, waitVars>>

CloseClearConn ==
  /\ ctl = "clearConn"
  /\ connAttr' = 0
  /\ ctl' = "readServer"
  /\ UNCHANGED <<stop, readerVars, serverAttr, netVars, latest, sendVars,
                 held, waitVars>>

CloseReadServer ==
  /\ ctl = "readServer"
  /\ ctl' = IF serverAttr THEN "closeServer" ELSE "join"
  /\ UNCHANGED <<stop, readerVars, serverAttr, connAttr, netVars, latest,
                 sendVars, held, waitVars>>

CloseServer ==
  /\ ctl = "closeServer"
  /\ CloseListener
  /\ ctl' = "clearServer"
  /\ UNCHANGED <<stop, readerVars, serverAttr, connAttr, peer, inbox, wire,
                 packets, latest, sendVars, held, waitVars>>

CloseClearServer ==
  /\ ctl = "clearServer"
  /\ serverAttr' = FALSE
  /\ ctl' = "join"
  /\ UNCHANGED <<stop, readerVars, connAttr, netVars, latest, sendVars, held,
                 waitVars>>

(* join(timeout): it ends when the thread does, or when the time is up. *)
CloseJoin ==
  /\ ctl = "join"
  /\ ctl' = "mark"
  /\ UNCHANGED <<stop, readerVars, serverAttr, connAttr, netVars, latest,
                 sendVars, held, waitVars>>

CloseMark ==
  /\ ctl = "mark"
  /\ SetConnected(FALSE)
  /\ ctl' = "idle"
  /\ UNCHANGED <<stop, readerVars, serverAttr, connAttr, netVars, sendVars,
                 held>>

CloseStep == \/ CloseReadConn \/ CloseConn \/ CloseClearConn \/ CloseReadServer
             \/ CloseServer \/ CloseClearServer \/ CloseJoin \/ CloseMark

-----------------------------------------------------------------------------
(* The reader thread: _run. *)

ReaderGoto(from, to) == rpc = from /\ rpc' = to

RunBegin ==
  /\ ReaderGoto("begin", "bind")
  /\ serverAttr' = TRUE
  /\ lsock' = "made"
  /\ UNCHANGED <<stop, cur, pkt, starts, connAttr, sock, peer, inbox, wire,
                 packets, latest, ctl, sendVars, held, waitVars>>

(* bind and listen raise when the port is taken or close() came first *)
RunListen ==
  /\ \/ ReaderGoto("bind", "top") /\ lsock = "made" /\ lsock' = "listen"
     \/ ReaderGoto("bind", "fail") /\ UNCHANGED lsock
  /\ UNCHANGED <<stop, cur, pkt, starts, serverAttr, connAttr, sock, peer,
                 inbox, wire, packets, latest, ctl, sendVars, held, waitVars>>

RunTop ==
  /\ rpc = "top"
  /\ rpc' = IF stop THEN "exit" ELSE "accept"
  /\ UNCHANGED <<stop, cur, pkt, starts, serverAttr, connAttr, netVars,
                 latest, ctl, sendVars, held, waitVars>>

RunAccept ==
  /\ \E c \in Backlog :
       /\ \A d \in Backlog : c <= d
       /\ ReaderGoto("accept", "publish")
       /\ cur' = c
       /\ sock' = [sock EXCEPT ![c] = "open"]
  /\ UNCHANGED <<stop, pkt, starts, serverAttr, connAttr, lsock, peer, inbox,
                 wire, packets, latest, ctl, sendVars, held, waitVars>>

(* accept() times out, or raises because close() closed the socket *)
RunAcceptNothing ==
  /\ Backlog = {}
  /\ \/ ReaderGoto("accept", "top") /\ lsock = "listen"
     \/ ReaderGoto("accept", "exit") /\ lsock = "closed"
  /\ UNCHANGED <<stop, cur, pkt, starts, serverAttr, connAttr, netVars,
                 latest, ctl, sendVars, held, waitVars>>

(* mutant: _conn is not set *)
RunPublishMissing ==
  /\ ReaderGoto("publish", "greet")
  /\ UNCHANGED <<stop, cur, pkt, starts, serverAttr, connAttr, netVars, latest,
                 ctl, sendVars, held, waitVars>>

RunPublish ==
  /\ ReaderGoto("publish", "greet")
  /\ connAttr' = cur
  /\ UNCHANGED <<stop, cur, pkt, starts, serverAttr, netVars, latest, ctl,
                 sendVars, held, waitVars>>

RunGreet ==
  /\ ReaderGoto("greet", "check")
  /\ SetConnected(TRUE)
  /\ UNCHANGED <<stop, cur, pkt, starts, serverAttr, connAttr, netVars, ctl,
                 sendVars, held>>

RunLeave ==
  /\ ReaderGoto("leave", "mark")
  /\ connAttr' = 0
  /\ UNCHANGED <<stop, cur, pkt, starts, serverAttr, netVars, latest, ctl,
                 sendVars, held, waitVars>>

(* mutant: the end of a connection leaves the flag alone *)
RunMarkMissing ==
  /\ ReaderGoto("mark", "close")
  /\ UNCHANGED <<stop, cur, pkt, starts, serverAttr, connAttr, netVars, latest,
                 ctl, sendVars, held, waitVars>>

RunMark ==
  /\ ReaderGoto("mark", "close")
  /\ SetConnected(FALSE)
  /\ UNCHANGED <<stop, cur, pkt, starts, serverAttr, connAttr, netVars, ctl,
                 sendVars, held>>

(* the end of `with conn` *)
RunCloseConn ==
  /\ ReaderGoto("close", "top")
  /\ sock' = [sock EXCEPT ![cur] = "closed"]
  /\ cur' = 0
  /\ UNCHANGED <<stop, pkt, starts, serverAttr, connAttr, lsock, peer, inbox,
                 wire, packets, latest, ctl, sendVars, held, waitVars>>

RunFail ==
  /\ ReaderGoto("fail", "exit")
  /\ SetConnected(FALSE)
  /\ UNCHANGED <<stop, cur, pkt, starts, serverAttr, connAttr, netVars, ctl,
                 sendVars, held>>

(* the end of `with socket`, then `finally` *)
RunExit ==
  /\ ReaderGoto("exit", "final")
  /\ CloseListener
  /\ UNCHANGED <<stop, cur, pkt, starts, serverAttr, connAttr, peer, inbox,
                 wire, packets, latest, ctl, sendVars, held, waitVars>>

RunFinally ==
  /\ ReaderGoto("final", "off")
  /\ serverAttr' = FALSE
  /\ UNCHANGED <<stop, cur, pkt, starts, connAttr, netVars, latest, ctl,
                 sendVars, held, waitVars>>

-----------------------------------------------------------------------------
(* The reader thread: _read_connection and _handle_packet. *)

(* mutant: the loop does not look at _stop *)
ReadCheckMissing ==
  /\ ReaderGoto("check", "recv")
  /\ UNCHANGED <<stop, cur, pkt, starts, serverAttr, connAttr, netVars,
                 latest, ctl, sendVars, held, waitVars>>

ReadCheck ==
  /\ rpc = "check"
  /\ rpc' = IF stop THEN "leave" ELSE "recv"
  /\ UNCHANGED <<stop, cur, pkt, starts, serverAttr, connAttr, netVars,
                 latest, ctl, sendVars, held, waitVars>>

(* A whole packet arrives; a bad header ends the connection. *)
ReadPacket ==
  /\ rpc = "recv" /\ sock[cur] = "open" /\ inbox[cur] # <<>>
  /\ pkt' = Head(inbox[cur])
  /\ inbox' = [inbox EXCEPT ![cur] = Tail(@)]
  /\ rpc' = IF pkt' = "BAD" THEN "leave" ELSE "handle"
  /\ UNCHANGED <<stop, cur, starts, serverAttr, connAttr, lsock, sock, peer,
                 wire, packets, latest, ctl, sendVars, held, waitVars>>

(* End of file, a reset, which may lose what was still unread, or a socket *)
(* closed by another thread.  A silent peer never gets here: line 151      *)
(* removes the timeout.                                                    *)
ReadEnds ==
  /\ ReaderGoto("recv", "leave")
  /\ sock[cur] = "closed" \/ peer[cur] = "gone"
  /\ UNCHANGED <<stop, cur, pkt, starts, serverAttr, connAttr, netVars,
                 latest, ctl, sendVars, held, waitVars>>

HandlePacket ==
  /\ rpc = "handle"
  /\ rpc' = IF pkt = "ACK" THEN "ack" ELSE "check"
  /\ \/ pkt \in {"TOUCH", "ACK"} /\ Touch
     \/ pkt = "POSE" /\ MergePose
     \/ pkt = "GOODBYE" /\ SetConnected(FALSE)
     \/ pkt = "UNKNOWN" /\ UNCHANGED <<latest, waitVars>>
  /\ UNCHANGED <<stop, cur, pkt, starts, serverAttr, connAttr, netVars, ctl,
                 sendVars, held>>

(* _set_video_ack after _update_raw: a second critical section *)
HandleVideoAck ==
  /\ ReaderGoto("ack", "check")
  /\ Touch
  /\ UNCHANGED <<stop, cur, pkt, starts, serverAttr, connAttr, netVars, ctl,
                 sendVars, held>>

ReaderStep ==
  \/ RunBegin \/ RunListen \/ RunTop \/ RunAccept \/ RunAcceptNothing
  \/ RunPublish \/ RunGreet \/ RunLeave \/ RunMark \/ RunCloseConn \/ RunFail
  \/ RunExit \/ RunFinally \/ ReadCheck \/ ReadPacket \/ ReadEnds
  \/ HandlePacket \/ HandleVideoAck

-----------------------------------------------------------------------------
(* send_payload(PT_VIDEO, _), called by sender s. *)

SendGoto(s, from, to) == spc[s] = from /\ spc' = [spc EXCEPT ![s] = to]

(* mutant: no mutual exclusion *)
SendLockFree(s) ==
  /\ SendGoto(s, "idle", "read")
  /\ sendSeq <= MaxSends
  /\ sendLock' = s
  /\ UNCHANGED <<stop, readerVars, serverAttr, connAttr, netVars, latest, ctl,
                 sconn, sseq, sendSeq, sent, errors, held, waitVars>>

SendLock(s) ==
  /\ SendGoto(s, "idle", "read")
  /\ sendLock = Nobody /\ sendSeq <= MaxSends
  /\ sendLock' = s
  /\ UNCHANGED <<stop, readerVars, serverAttr, connAttr, netVars, latest, ctl,
                 sconn, sseq, sendSeq, sent, errors, held, waitVars>>

SendRead(s) ==
  /\ spc[s] = "read"
  /\ sconn' = [sconn EXCEPT ![s] = connAttr]
  /\ IF connAttr = 0
       THEN spc' = [spc EXCEPT ![s] = "idle"] /\ sendLock' = Nobody
       ELSE spc' = [spc EXCEPT ![s] = "check"] /\ UNCHANGED sendLock
  /\ UNCHANGED <<stop, readerVars, serverAttr, connAttr, netVars, latest, ctl,
                 sseq, sendSeq, sent, errors, held, waitVars>>

(* mutant: the sequence number is not moved on *)
SendCheckSameSeq(s) ==
  /\ SendGoto(s, "check", "header")
  /\ latest.connected
  /\ sseq' = [sseq EXCEPT ![s] = sendSeq]
  /\ UNCHANGED <<stop, readerVars, serverAttr, connAttr, netVars, latest, ctl,
                 sconn, sendLock, sendSeq, sent, errors, held, waitVars>>

SendCheck(s) ==
  /\ spc[s] = "check"
  /\ IF latest.connected
       THEN /\ spc' = [spc EXCEPT ![s] = "header"]
            /\ sseq' = [sseq EXCEPT ![s] = sendSeq]
            /\ sendSeq' = sendSeq + 1
            /\ UNCHANGED sendLock
       ELSE /\ spc' = [spc EXCEPT ![s] = "idle"]
            /\ sendLock' = Nobody
            /\ UNCHANGED <<sseq, sendSeq>>
  /\ UNCHANGED <<stop, readerVars, serverAttr, connAttr, netVars, latest, ctl,
                 sconn, sent, errors, held, waitVars>>

Write(s, part) ==
  /\ sock[sconn[s]] = "open"
  /\ wire' = [wire EXCEPT ![sconn[s]] =
                Append(@, [seq |-> sseq[s], part |-> part])]

(* send_packet: sendall(header), then sendall(payload) *)
SendHeader(s) ==
  /\ SendGoto(s, "header", "payload")
  /\ Write(s, "header")
  /\ UNCHANGED <<stop, readerVars, serverAttr, connAttr, lsock, sock, peer,
                 inbox, packets, latest, ctl, sconn, sseq, sendLock, sendSeq,
                 sent, errors, held, waitVars>>

SendPayload(s) ==
  /\ SendGoto(s, "payload", "count")
  /\ Write(s, "payload")
  /\ sendLock' = Nobody
  /\ UNCHANGED <<stop, readerVars, serverAttr, connAttr, lsock, sock, peer,
                 inbox, packets, latest, ctl, sconn, sseq, sendSeq, sent,
                 errors, held, waitVars>>

SendCount(s) ==
  /\ SendGoto(s, "count", "idle")
  /\ sent' = sent + 1
  /\ UNCHANGED <<stop, readerVars, serverAttr, connAttr, netVars, latest, ctl,
                 sconn, sseq, sendLock, sendSeq, errors, held, waitVars>>

(* sendall raises: the socket was closed here, or the headset is gone *)
SendFails(s) ==
  /\ spc[s] \in {"header", "payload"}
  /\ sock[sconn[s]] = "closed" \/ peer[sconn[s]] = "gone"
  /\ spc' = [spc EXCEPT ![s] = "error"]
  /\ UNCHANGED <<stop, readerVars, serverAttr, connAttr, netVars, latest, ctl,
                 sconn, sseq, sendLock, sendSeq, sent, errors, held, waitVars>>

SendError(s) ==
  /\ SendGoto(s, "error", "readConn")
  /\ errors' = errors + 1
  /\ UNCHANGED <<stop, readerVars, serverAttr, connAttr, netVars, latest, ctl,
                 sconn, sseq, sendLock, sendSeq, sent, held, waitVars>>

(* _close_socket("_conn") on the attribute, not on the local conn *)
SendErrorReadConn(s) ==
  /\ SendGoto(s, "readConn", IF connAttr = 0 THEN "mark" ELSE "closeConn")
  /\ held' = [held EXCEPT ![s] = connAttr]
  /\ UNCHANGED <<stop, readerVars, serverAttr, connAttr, netVars, latest, ctl,
                 sconn, sseq, sendLock, sendSeq, sent, errors, waitVars>>

SendErrorCloseConn(s) ==
  /\ SendGoto(s, "closeConn", "clearConn")
  /\ sock' = [sock EXCEPT ![held[s]] = "closed"]
  /\ UNCHANGED <<stop, readerVars, serverAttr, connAttr, lsock, peer, inbox,
                 wire, packets, latest, ctl, sconn, sseq, sendLock, sendSeq,
                 sent, errors, held, waitVars>>

SendErrorClearConn(s) ==
  /\ SendGoto(s, "clearConn", "mark")
  /\ connAttr' = 0
  /\ UNCHANGED <<stop, readerVars, serverAttr, netVars, latest, ctl, sconn,
                 sseq, sendLock, sendSeq, sent, errors, held, waitVars>>

SendErrorMark(s) ==
  /\ SendGoto(s, "mark", "idle")
  /\ SetConnected(FALSE)
  /\ sendLock' = Nobody
  /\ UNCHANGED <<stop, readerVars, serverAttr, connAttr, netVars, ctl, sconn,
                 sseq, sendSeq, sent, errors, held>>

SendStep(s) ==
  \/ SendRead(s) \/ SendCheck(s) \/ SendHeader(s) \/ SendPayload(s)
  \/ SendCount(s) \/ SendFails(s) \/ SendError(s) \/ SendErrorReadConn(s)
  \/ SendErrorCloseConn(s) \/ SendErrorClearConn(s) \/ SendErrorMark(s)

-----------------------------------------------------------------------------
(* wait_for_state, called once by waiter w. *)

PoseSent == \E c \in Conns : \E i \in 1..Len(inbox[c]) : inbox[c][i] = "POSE"

WaitCall(w) ==
  /\ wpc[w] = "idle"
  /\ asked' = [asked EXCEPT ![w] = PoseSent]
  /\ IF latest.known
       THEN /\ wpc' = [wpc EXCEPT ![w] = "done"]
            /\ wret' = [wret EXCEPT ![w] = latest]
       ELSE /\ wpc' = [wpc EXCEPT ![w] = "waiting"]
            /\ UNCHANGED wret
  /\ UNCHANGED <<stop, readerVars, serverAttr, connAttr, netVars, latest, ctl,
                 sendVars, held>>

(* A single condition.wait: woken or timed out, it returns what there is. *)
WaitReturn(w) ==
  /\ wpc[w] \in {"waiting", "notified"}
  /\ wpc' = [wpc EXCEPT ![w] = "done"]
  /\ wret' = [wret EXCEPT ![w] = latest]
  /\ UNCHANGED <<stop, readerVars, serverAttr, connAttr, netVars, latest, ctl,
                 sendVars, held, asked>>

-----------------------------------------------------------------------------
Next ==
  \/ Start \/ StartAdbFails \/ Close \/ CloseStep
  \/ ReaderStep
  \/ \E s \in Senders : SendLock(s) \/ SendStep(s)
  \/ \E w \in Waiters : WaitCall(w) \/ WaitReturn(w)
  \/ \E c \in Conns : PeerConnect(c) \/ PeerGone(c)
  \/ \E c \in Conns, kind \in Kinds : PeerSend(c, kind)

Spec == Init /\ [][Next]_vars

(* A thread that can run does: the reader, close() once called, and a      *)
(* sender outside sendall (which may block for as long as the headset does *)
(* not read).  Nothing is assumed of the headset.                          *)
Fairness ==
  /\ WF_vars(ReaderStep)
  /\ WF_vars(CloseStep)
  /\ \A s \in Senders : WF_vars(SendStep(s) /\ ~SendHeader(s) /\ ~SendPayload(s))

FairSpec == Spec /\ Fairness

-----------------------------------------------------------------------------
Serving == {"check", "recv", "handle", "ack", "leave", "mark"}
States == [known : BOOLEAN, connected : BOOLEAN, input : BOOLEAN]

RunTypeOK ==
  /\ stop \in BOOLEAN
  /\ rpc \in ReaderPCs /\ cur \in 0..MaxConn
  /\ cur = 0 <=> rpc \notin Serving \cup {"publish", "greet", "close"}
  /\ pkt \in PacketKinds /\ starts \in 0..MaxStarts
  /\ serverAttr \in BOOLEAN /\ connAttr \in 0..MaxConn
NetTypeOK ==
  /\ lsock \in {"none", "made", "listen", "closed"}
  /\ sock \in [Conns -> {"none", "backlog", "open", "closed"}]
  /\ peer \in [Conns -> {"away", "up", "gone"}]
  /\ inbox \in [Conns -> Seq(PacketKinds)]
  /\ wire \in [Conns -> Seq(Chunk)]
  /\ packets \in Nat
StateTypeOK ==
  /\ latest \in States
  /\ wpc \in [Waiters -> {"idle", "waiting", "notified", "done"}]
  /\ asked \in [Waiters -> BOOLEAN]
  /\ wret \in [Waiters -> States]
SendTypeOK ==
  /\ ctl \in CtlPCs /\ held \in [Threads -> 0..MaxConn]
  /\ spc \in [Senders -> SendPCs]
  /\ sconn \in [Senders -> 0..MaxConn]
  /\ sseq \in [Senders -> Nat]
  /\ sendLock \in Threads
  /\ sendSeq \in Nat /\ sent \in Nat /\ errors \in Nat
TypeOK == RunTypeOK /\ NetTypeOK /\ StateTypeOK /\ SendTypeOK

(* What the headset parses: on every connection the header of a packet is  *)
(* followed by its own payload, whatever the sender threads, close() and   *)
(* the reader do, and whatever send failed half way (send_payload under    *)
(* _send_lock, lines 113-130).                                             *)
PacketsContiguous ==
  \A c \in Conns : \A i \in 1..Len(wire[c]) :
    /\ i % 2 = 1 => wire[c][i].part = "header"
    /\ i % 2 = 0 => /\ wire[c][i].part = "payload"
                    /\ wire[c][i].seq = wire[c][i - 1].seq

(* Sequence numbers only grow along a connection (_send_seq, 118-119). *)
SeqIncreases ==
  \A c \in Conns : \A i, j \in 1..Len(wire[c]) :
    i + 1 < j => wire[c][i].seq < wire[c][j].seq

(* is_connected() is true only while the reader serves a connection: from  *)
(* line 153 to line 157 of _run, whatever GOODBYE, late packets, senders   *)
(* and close() do to the flag.  So once the thread has ended the state     *)
(* says "disconnected", also when its join() timed out.                    *)
ConnectedOnlyWhileServing == latest.connected => rpc \in Serving

(* No lost wake-up: a waiter still asleep means there is no state to       *)
(* return (_condition.notify_all after every write of _latest).            *)
NoLostWakeup == \A w \in Waiters : wpc[w] = "waiting" => ~latest.known

(* self._conn is None or the connection the reader has in hand, never an   *)
(* earlier one (152, 155, 231-243); and as long as no send has failed and  *)
(* close() has not begun, it is that connection all the while it is served, *)
(* so send_payload and close() find it.                                    *)
Published == (Serving \cup {"greet"}) \ {"mark"}
ServedIsReachable ==
  /\ connAttr \in {0, cur}
  /\ rpc \in Published /\ errors = 0 /\ ~stop => connAttr = cur

(* close() ends the reader thread, unless start() runs again or a failed   *)
(* send has emptied _conn behind the reader's back (see the README).       *)
CloseEndsReader == stop ~> (rpc = "off" \/ ~stop \/ errors > 0)

(* A wait_for_state call made after the headset sent a POSE, and that       *)
(* returns a connected state, returns that input: what tests/              *)
(* test_quest3_api.py lines 131-136 assert.                                *)
WaitSeesSentPose ==
  \A w \in Waiters :
    wpc[w] = "done" /\ asked[w] /\ wret[w].known /\ wret[w].connected
      => wret[w].input
=============================================================================
