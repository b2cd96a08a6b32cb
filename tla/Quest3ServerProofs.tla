------------------------- MODULE Quest3ServerProofs -------------------------
(***************************************************************************)
(* Theorems about Quest3Server, for any number of threads, connections,    *)
(* packets, sends and restarts.                                            *)
(***************************************************************************)
EXTENDS Quest3Server, TLAPS

-----------------------------------------------------------------------------
(* Which steps touch which part of the state. *)

LEMMA StateMoves ==
  [Next]_vars =>
    \/ UNCHANGED <<latest, wpc, asked, wret>>
    \/ SetConnected(TRUE) \/ SetConnected(FALSE) \/ MergePose
    \/ \E w \in Waiters : WaitCall(w) \/ WaitReturn(w)
<1> SUFFICES ASSUME [Next]_vars
             PROVE \/ UNCHANGED <<latest, wpc, asked, wret>>
                   \/ SetConnected(TRUE) \/ SetConnected(FALSE) \/ MergePose
                   \/ \E w \in Waiters : WaitCall(w) \/ WaitReturn(w)
  OBVIOUS
<1> USE DEF waitVars
<1>1. CASE Start \/ StartAdbFails \/ Close
  BY <1>1 DEF Start, StartAdbFails, Close
<1>2. CASE CloseStep
  BY <1>2 DEF CloseStep, CloseReadConn, CloseConn, CloseClearConn,
     CloseReadServer, CloseServer, CloseClearServer, CloseJoin, CloseMark
<1>3. CASE ReaderStep
  BY <1>3 DEF ReaderStep, Touch, RunBegin, RunListen, RunTop, RunAccept,
     RunAcceptNothing, RunPublish, RunGreet, RunLeave, RunMark, RunCloseConn,
     RunFail, RunExit, RunFinally, ReadCheck, ReadPacket, ReadEnds,
     HandlePacket, HandleVideoAck
<1>4. ASSUME NEW s \in Senders, SendLock(s) \/ SendStep(s)
      PROVE UNCHANGED <<latest, wpc, asked, wret>> \/ SetConnected(FALSE)
  BY <1>4 DEF SendLock, SendStep, SendRead, SendCheck, SendHeader,
     SendPayload, SendCount, SendFails, SendError, SendErrorReadConn,
     SendErrorCloseConn, SendErrorClearConn, SendErrorMark
<1>5. ASSUME NEW c \in Conns,
             \/ PeerConnect(c) \/ PeerGone(c)
             \/ \E kind \in Kinds : PeerSend(c, kind)
      PROVE UNCHANGED <<latest, wpc, asked, wret>>
  BY <1>5 DEF PeerConnect, PeerGone, PeerSend
<1>6. CASE UNCHANGED vars
  BY <1>6 DEF vars
<1> QED
  BY <1>1, <1>2, <1>3, <1>4, <1>5, <1>6 DEF Next

LEMMA StateType == TypeOK /\ [Next]_vars => StateTypeOK'
<1> SUFFICES ASSUME TypeOK, [Next]_vars PROVE StateTypeOK'
  OBVIOUS
<1> USE DEF TypeOK, StateTypeOK, States
<1>1. CASE UNCHANGED <<latest, wpc, asked, wret>>
  BY <1>1
<1>2. ASSUME NEW b \in BOOLEAN, SetConnected(b) PROVE StateTypeOK'
  BY <1>2 DEF SetConnected, NotifyAll
<1>3. CASE MergePose
  BY <1>3 DEF MergePose, NotifyAll
<1>4. ASSUME NEW w \in Waiters, WaitCall(w) \/ WaitReturn(w)
      PROVE StateTypeOK'
  <2>1. CASE WaitCall(w)
    <3>1. PoseSent \in BOOLEAN BY DEF PoseSent
    <3> QED BY <2>1, <3>1 DEF WaitCall
  <2>2. CASE WaitReturn(w)
    BY <2>2 DEF WaitReturn
  <2> QED BY <1>4, <2>1, <2>2
<1> QED
  BY <1>1, <1>2, <1>3, <1>4, StateMoves

LEMMA NetMoves ==
  [Next]_vars =>
    \/ UNCHANGED netVars
    \/ \E c \in Conns : PeerConnect(c) \/ PeerGone(c)
    \/ \E c \in Conns, kind \in Kinds : PeerSend(c, kind)
    \/ RunBegin \/ RunListen \/ RunAccept \/ RunCloseConn \/ RunExit \/ ReadPacket
    \/ CloseConn \/ CloseServer
    \/ \E s \in Senders : SendHeader(s) \/ SendPayload(s) \/ SendErrorCloseConn(s)
<1> SUFFICES ASSUME [Next]_vars, ~UNCHANGED netVars
             PROVE
    \/ \E c \in Conns : PeerConnect(c) \/ PeerGone(c)
    \/ \E c \in Conns, kind \in Kinds : PeerSend(c, kind)
    \/ RunBegin \/ RunListen \/ RunAccept \/ RunCloseConn \/ RunExit \/ ReadPacket
    \/ CloseConn \/ CloseServer
    \/ \E s \in Senders : SendHeader(s) \/ SendPayload(s) \/ SendErrorCloseConn(s)
  OBVIOUS
<1> USE DEF netVars
<1>1. ~(Start \/ StartAdbFails \/ Close)
  BY DEF Start, StartAdbFails, Close
<1>2. CloseStep => CloseConn \/ CloseServer
  BY DEF CloseStep, CloseReadConn, CloseClearConn, CloseReadServer,
     CloseClearServer, CloseJoin, CloseMark
<1>3. ReaderStep => \/ RunBegin \/ RunListen \/ RunAccept \/ RunCloseConn
                    \/ RunExit \/ ReadPacket
  BY DEF ReaderStep, RunTop, RunAcceptNothing, RunPublish, RunGreet, RunLeave,
     RunMark, RunFail, RunFinally, ReadCheck, ReadEnds, HandlePacket,
     HandleVideoAck
<1>4. ASSUME NEW s \in Senders, SendLock(s) \/ SendStep(s)
      PROVE SendHeader(s) \/ SendPayload(s) \/ SendErrorCloseConn(s)
  BY <1>4 DEF SendLock, SendStep, SendRead, SendCheck, SendCount, SendFails,
     SendError, SendErrorReadConn, SendErrorClearConn, SendErrorMark
<1>5. ASSUME NEW w \in Waiters PROVE ~(WaitCall(w) \/ WaitReturn(w))
  BY DEF WaitCall, WaitReturn
<1>6. ~UNCHANGED vars
  BY DEF vars
<1> QED
  BY <1>1, <1>2, <1>3, <1>4, <1>5, <1>6 DEF Next

LEMMA NetType == TypeOK /\ [Next]_vars => NetTypeOK'
<1> SUFFICES ASSUME TypeOK, [Next]_vars PROVE NetTypeOK'
  OBVIOUS
<1> USE DEF TypeOK, NetTypeOK
<1>1. CASE UNCHANGED netVars
  BY <1>1 DEF netVars
<1>2. ASSUME NEW c \in Conns, PeerConnect(c) \/ PeerGone(c) PROVE NetTypeOK'
  BY <1>2 DEF PeerConnect, PeerGone
<1>3. ASSUME NEW c \in Conns, NEW kind \in Kinds, PeerSend(c, kind)
      PROVE NetTypeOK'
  BY <1>3, KindsAssumption DEF PeerSend
<1>4. CASE RunBegin \/ RunListen
  BY <1>4 DEF RunBegin, RunListen, netVars
<1>5. CASE RunAccept \/ RunCloseConn
  BY <1>5 DEF RunAccept, RunCloseConn, Backlog
<1>6. CASE RunExit \/ CloseServer
  BY <1>6 DEF RunExit, CloseServer, CloseListener
<1>7. CASE ReadPacket
  <2>1. inbox' = [inbox EXCEPT ![cur] = Tail(inbox[cur])] /\ inbox[cur] # <<>>
    BY <1>7 DEF ReadPacket
  <2>2. inbox' \in [Conns -> Seq(PacketKinds)]
    <3>1. CASE cur \in Conns
      <4>1. Tail(inbox[cur]) \in Seq(PacketKinds)
        BY <3>1, <2>1
      <4> QED BY <4>1, <2>1
    <3>2. CASE cur \notin Conns
      BY <3>2, <2>1
    <3> QED BY <3>1, <3>2
  <2>3. UNCHANGED <<lsock, sock, peer, wire, packets>>
    BY <1>7 DEF ReadPacket
  <2> QED BY <2>2, <2>3
<1>8. CASE CloseConn
  BY <1>8 DEF CloseConn
<1>9. ASSUME NEW s \in Senders, SendErrorCloseConn(s) PROVE NetTypeOK'
  BY <1>9 DEF SendErrorCloseConn
<1>10. ASSUME NEW s \in Senders, SendHeader(s) \/ SendPayload(s)
       PROVE NetTypeOK'
  <2>1. PICK part \in {"header", "payload"} : Write(s, part)
    BY <1>10 DEF SendHeader, SendPayload
  <2>2. [seq |-> sseq[s], part |-> part] \in Chunk
    BY DEF Chunk, SendTypeOK
  <2>3. wire' \in [Conns -> Seq(Chunk)]
    <3> DEFINE c == sconn[s]
               chunk == [seq |-> sseq[s], part |-> part]
    <3>1. wire' = [wire EXCEPT ![c] = Append(wire[c], chunk)]
      BY <2>1 DEF Write
    <3> HIDE DEF c, chunk
    <3>2. CASE c \in Conns
      <4>1. Append(wire[c], chunk) \in Seq(Chunk)
        BY <3>2, <2>2 DEF chunk
      <4> QED BY <4>1, <3>1
    <3>3. CASE c \notin Conns
      BY <3>3, <3>1
    <3> QED BY <3>2, <3>3
  <2>4. UNCHANGED <<lsock, sock, peer, inbox, packets>>
    BY <1>10 DEF SendHeader, SendPayload
  <2> QED
    BY <2>3, <2>4
<1> QED
  BY <1>1, <1>2, <1>3, <1>4, <1>5, <1>6, <1>7, <1>8, <1>9, <1>10, NetMoves

LEMMA RunMoves ==
  [Next]_vars =>
    \/ UNCHANGED <<stop, rpc, cur, pkt, starts, serverAttr, connAttr>>
    \/ Start \/ StartAdbFails \/ Close \/ CloseClearConn \/ CloseClearServer
    \/ ReaderStep
    \/ \E s \in Senders : SendErrorClearConn(s)
<1> SUFFICES ASSUME [Next]_vars,
                    ~UNCHANGED <<stop, rpc, cur, pkt, starts, serverAttr, connAttr>>
             PROVE
    \/ Start \/ StartAdbFails \/ Close \/ CloseClearConn \/ CloseClearServer
    \/ ReaderStep
    \/ \E s \in Senders : SendErrorClearConn(s)
  OBVIOUS
<1> USE DEF readerVars
<1>1. CloseStep => CloseClearConn \/ CloseClearServer
  BY DEF CloseStep, CloseReadConn, CloseConn, CloseReadServer, CloseServer,
     CloseJoin, CloseMark
<1>2. ASSUME NEW s \in Senders, SendLock(s) \/ SendStep(s)
      PROVE SendErrorClearConn(s)
  BY <1>2 DEF SendLock, SendStep, SendRead, SendCheck, SendHeader, SendPayload,
     SendCount, SendFails, SendError, SendErrorReadConn, SendErrorCloseConn,
     SendErrorMark
<1>3. ASSUME NEW w \in Waiters PROVE ~(WaitCall(w) \/ WaitReturn(w))
  BY DEF WaitCall, WaitReturn
<1>4. ASSUME NEW c \in Conns
      PROVE ~ \/ PeerConnect(c) \/ PeerGone(c)
              \/ \E kind \in Kinds : PeerSend(c, kind)
  BY DEF PeerConnect, PeerGone, PeerSend
<1>5. ~UNCHANGED vars
  BY DEF vars
<1> QED
  BY <1>1, <1>2, <1>3, <1>4, <1>5 DEF Next

InHand == cur = 0 <=> rpc \notin Serving \cup {"publish", "greet", "close"}

LEMMA RunType == TypeOK /\ [Next]_vars => RunTypeOK'
<1> SUFFICES ASSUME RunTypeOK, NetTypeOK, [Next]_vars PROVE RunTypeOK'
  BY DEF TypeOK
<1> USE BoundsAssumption
<1> USE DEF ReaderGoto, readerVars
<1>1. CASE UNCHANGED <<stop, rpc, cur, pkt, starts, serverAttr, connAttr>>
  BY <1>1 DEF RunTypeOK
<1>2. CASE Start
  <2>1. rpc' \in ReaderPCs
    BY <1>2 DEF Start, ReaderPCs
  <2>2. InHand'
    BY <1>2 DEF Start, InHand, RunTypeOK, Serving
  <2>3. starts' \in 0..MaxStarts
    BY <1>2 DEF Start, RunTypeOK
  <2>4. stop' = FALSE /\ UNCHANGED <<cur, pkt, serverAttr, connAttr>>
    BY <1>2 DEF Start
  <2> QED BY <2>1, <2>2, <2>3, <2>4 DEF RunTypeOK, InHand
<1>3. CASE StartAdbFails \/ Close
  BY <1>3 DEF StartAdbFails, Close, RunTypeOK
<1>4. CASE CloseClearConn
  BY <1>4 DEF CloseClearConn, RunTypeOK
<1>5. CASE CloseClearServer
  BY <1>5 DEF CloseClearServer, RunTypeOK
<1>6. ASSUME NEW s \in Senders, SendErrorClearConn(s) PROVE RunTypeOK'
  BY <1>6 DEF SendErrorClearConn, RunTypeOK
<1>7. CASE ReaderStep
  <2> DEFINE Rest == /\ stop \in BOOLEAN /\ cur \in 0..MaxConn
                     /\ pkt \in PacketKinds /\ starts \in 0..MaxStarts
                     /\ serverAttr \in BOOLEAN /\ connAttr \in 0..MaxConn
  <2>1. rpc' \in ReaderPCs
    BY <1>7 DEF RunTypeOK, ReaderPCs, ReaderStep, RunBegin, RunListen, RunTop,
       RunAccept, RunAcceptNothing, RunPublish, RunGreet, RunLeave, RunMark,
       RunCloseConn, RunFail, RunExit, RunFinally, ReadCheck, ReadPacket,
       ReadEnds, HandlePacket, HandleVideoAck
  <2>2. InHand'
    <3>1. InHand
      BY DEF RunTypeOK, InHand
    <3>2. CASE RunAccept
      BY <3>2 DEF RunAccept, Backlog, Conns, InHand, Serving
    <3> QED
      BY <1>7, <3>1, <3>2 DEF InHand, Serving, ReaderStep, RunBegin,
       RunListen, RunTop, RunAcceptNothing, RunPublish, RunGreet, RunLeave,
       RunMark, RunCloseConn, RunFail, RunExit, RunFinally, ReadCheck,
       ReadPacket, ReadEnds, HandlePacket, HandleVideoAck
  <2>3. Rest
    BY DEF RunTypeOK
  <2>4. ASSUME RunAccept PROVE Rest'
    BY <2>3, <2>4 DEF RunAccept, Backlog, Conns
  <2>5. ASSUME ReadPacket PROVE Rest'
    <3>1. cur \in Conns
      BY <2>5 DEF ReadPacket, RunTypeOK, Conns, Serving
    <3>2. Head(inbox[cur]) \in PacketKinds
      BY <2>5, <3>1 DEF ReadPacket, NetTypeOK
    <3> QED BY <2>3, <2>5, <3>2 DEF ReadPacket
  <2>6. ASSUME RunBegin \/ RunListen \/ RunTop \/ RunAcceptNothing \/ RunPublish
        PROVE Rest'
    BY <2>3, <2>6 DEF RunBegin, RunListen, RunTop, RunAcceptNothing,
       RunPublish
  <2>7. ASSUME RunGreet \/ RunLeave \/ RunMark \/ RunCloseConn \/ RunFail
        PROVE Rest'
    <3>1. UNCHANGED <<stop, pkt, starts, serverAttr>>
      BY <2>7 DEF RunGreet, RunLeave, RunMark, RunCloseConn, RunFail
    <3>2. cur' \in {cur, 0} /\ connAttr' \in {connAttr, 0}
      BY <2>7 DEF RunGreet, RunLeave, RunMark, RunCloseConn, RunFail
    <3> QED BY <2>3, <3>1, <3>2
  <2>8. ASSUME \/ RunExit \/ RunFinally \/ ReadCheck \/ ReadEnds
               \/ HandlePacket \/ HandleVideoAck
        PROVE Rest'
    BY <2>3, <2>8 DEF RunExit, RunFinally, ReadCheck, ReadEnds, HandlePacket,
       HandleVideoAck
  <2>9. Rest'
    BY <1>7, <2>4, <2>5, <2>6, <2>7, <2>8 DEF ReaderStep
  <2> QED BY <2>1, <2>2, <2>9 DEF RunTypeOK, InHand
<1> QED
  BY <1>1, <1>2, <1>3, <1>4, <1>5, <1>6, <1>7, RunMoves

LEMMA SendMoves ==
  [Next]_vars =>
    \/ UNCHANGED <<ctl, held, spc, sconn, sseq, sendLock, sendSeq, sent, errors>>
    \/ Close \/ CloseStep
    \/ \E s \in Senders : SendLock(s) \/ SendStep(s)
<1> SUFFICES ASSUME [Next]_vars, 
                    ~(Close \/ CloseStep),
                    ~ \E s \in Senders : SendLock(s) \/ SendStep(s)
             PROVE  UNCHANGED <<ctl, held, spc, sconn, sseq, sendLock, sendSeq,
                                sent, errors>>
  OBVIOUS
<1> USE DEF sendVars
<1>1. CASE Start \/ StartAdbFails
  BY <1>1 DEF Start, StartAdbFails
<1>2. CASE ReaderStep
  BY <1>2 DEF ReaderStep, RunBegin, RunListen, RunTop, RunAccept,
     RunAcceptNothing, RunPublish, RunGreet, RunLeave, RunMark, RunCloseConn,
     RunFail, RunExit, RunFinally, ReadCheck, ReadPacket, ReadEnds,
     HandlePacket, HandleVideoAck
<1>3. CASE \E w \in Waiters : WaitCall(w) \/ WaitReturn(w)
  BY <1>3 DEF WaitCall, WaitReturn
<1>4. CASE \/ \E c \in Conns : PeerConnect(c) \/ PeerGone(c)
           \/ \E c \in Conns, kind \in Kinds : PeerSend(c, kind)
  BY <1>4 DEF PeerConnect, PeerGone, PeerSend
<1>5. CASE UNCHANGED vars
  BY <1>5 DEF vars
<1> QED
  BY <1>1, <1>2, <1>3, <1>4, <1>5 DEF Next

LEMMA SendType == TypeOK /\ [Next]_vars => SendTypeOK'
<1> SUFFICES ASSUME TypeOK, [Next]_vars PROVE SendTypeOK'
  OBVIOUS
<1> USE DEF TypeOK, SendTypeOK, RunTypeOK, CtlPCs, SendPCs, Threads, Nobody,
            SendGoto, sendVars
<1>1. CASE UNCHANGED <<ctl, held, spc, sconn, sseq, sendLock, sendSeq, sent,
                       errors>>
  BY <1>1
<1>2. CASE Close
  BY <1>2 DEF Close
<1>3. CASE CloseStep
  <2>1. CASE CloseReadConn
    BY <2>1 DEF CloseReadConn
  <2>2. CASE CloseConn \/ CloseClearConn \/ CloseReadServer \/ CloseServer
             \/ CloseClearServer \/ CloseJoin \/ CloseMark
    BY <2>2 DEF CloseConn, CloseClearConn, CloseReadServer, CloseServer,
       CloseClearServer, CloseJoin, CloseMark
  <2> QED BY <1>3, <2>1, <2>2 DEF CloseStep
<1>4. ASSUME NEW s \in Senders, SendLock(s) \/ SendStep(s) PROVE SendTypeOK'
  <2>1. CASE SendLock(s) BY <2>1 DEF SendLock
  <2>2. CASE SendRead(s) BY <2>2 DEF SendRead
  <2>3. CASE SendCheck(s) BY <2>3 DEF SendCheck
  <2>4. CASE SendHeader(s) BY <2>4 DEF SendHeader
  <2>5. CASE SendPayload(s) BY <2>5 DEF SendPayload
  <2>6. CASE SendCount(s) BY <2>6 DEF SendCount
  <2>7. CASE SendFails(s) BY <2>7 DEF SendFails
  <2>8. CASE SendError(s) BY <2>8 DEF SendError
  <2>9. CASE SendErrorReadConn(s) BY <2>9 DEF SendErrorReadConn
  <2>10. CASE SendErrorCloseConn(s) BY <2>10 DEF SendErrorCloseConn
  <2>11. CASE SendErrorClearConn(s) BY <2>11 DEF SendErrorClearConn
  <2>12. CASE SendErrorMark(s) BY <2>12 DEF SendErrorMark
  <2> QED BY <1>4, <2>1, <2>2, <2>3, <2>4, <2>5, <2>6, <2>7, <2>8, <2>9,
             <2>10, <2>11, <2>12 DEF SendStep
<1> QED
  BY <1>1, <1>2, <1>3, <1>4, SendMoves

LEMMA TypeInit == Init => TypeOK
<1> SUFFICES ASSUME Init PROVE TypeOK
  OBVIOUS
<1> USE BoundsAssumption DEF Init
<1>1. RunTypeOK
  <2>1. rpc \in ReaderPCs /\ pkt \in PacketKinds
    BY DEF ReaderPCs, PacketKinds
  <2>2. cur = 0 <=> rpc \notin Serving \cup {"publish", "greet", "close"}
    BY DEF Serving
  <2>3. starts = 0 /\ connAttr = 0 /\ stop = FALSE /\ serverAttr = FALSE /\ cur = 0
    OBVIOUS
  <2>4. 0 \in 0..MaxConn /\ 0 \in 0..MaxStarts
    OBVIOUS
  <2> HIDE DEF Init
  <2> QED BY <2>1, <2>2, <2>3, <2>4, Zenon DEF RunTypeOK
<1>2. NetTypeOK
  BY DEF NetTypeOK
<1>3. StateTypeOK
  BY DEF StateTypeOK, States, Unknown
<1>4. SendTypeOK
  BY DEF SendTypeOK, CtlPCs, SendPCs, Threads, Nobody
<1> QED
  BY <1>1, <1>2, <1>3, <1>4 DEF TypeOK

LEMMA TypeStep == TypeOK /\ [Next]_vars => TypeOK'
BY RunType, NetType, StateType, SendType DEF TypeOK

(* Every variable keeps its type: program counters of server.py's threads, *)
(* sockets, packets, the state latest() returns, the send lock's holder.   *)
THEOREM TypeCorrect == Spec => []TypeOK
BY TypeInit, TypeStep, PTL DEF Spec

-----------------------------------------------------------------------------
(* _run raises the connected flag after it accepted a connection and takes *)
(* it down before it closes it; nobody else raises it.                     *)
THEOREM ConnectedOnlyWhileServed == Spec => []ConnectedOnlyWhileServing
<1>1. Init => ConnectedOnlyWhileServing
  BY DEF Init, Unknown, ConnectedOnlyWhileServing
<1>2. TypeOK /\ ConnectedOnlyWhileServing /\ [Next]_vars
        => ConnectedOnlyWhileServing'
  <2> SUFFICES ASSUME TypeOK, ConnectedOnlyWhileServing, [Next]_vars
               PROVE ConnectedOnlyWhileServing'
    OBVIOUS
  <2> USE DEF ConnectedOnlyWhileServing, Serving
  <2>1. CASE ReaderStep
    <3> USE DEF ReaderGoto, SetConnected, MergePose, Touch
    <3>1. CASE RunBegin \/ RunListen \/ RunTop \/ RunAccept \/ RunAcceptNothing
               \/ RunPublish \/ RunGreet \/ RunLeave \/ RunMark
      BY <3>1 DEF RunBegin, RunListen, RunTop, RunAccept, RunAcceptNothing,
         RunPublish, RunGreet, RunLeave, RunMark
    <3>2. CASE RunCloseConn \/ RunFail \/ RunExit \/ RunFinally \/ ReadCheck
               \/ ReadPacket \/ ReadEnds \/ HandlePacket \/ HandleVideoAck
      BY <3>2 DEF RunCloseConn, RunFail, RunExit, RunFinally, ReadCheck,
         ReadPacket, ReadEnds, HandlePacket, HandleVideoAck
    <3> QED BY <2>1, <3>1, <3>2 DEF ReaderStep
  <2>2. CASE Start
    BY <2>2 DEF Start
  <2>3. CASE UNCHANGED vars
    BY <2>3 DEF vars, readerVars
  <2>4. ASSUME ~ReaderStep, ~Start, ~UNCHANGED vars
        PROVE UNCHANGED rpc /\ (UNCHANGED latest \/ ~latest'.connected)
    <3>1. CASE StartAdbFails \/ Close
      BY <3>1 DEF StartAdbFails, Close, readerVars
    <3>2. CASE CloseStep
      BY <3>2 DEF CloseStep, CloseReadConn, CloseConn, CloseClearConn,
         CloseReadServer, CloseServer, CloseClearServer, CloseJoin, CloseMark,
         readerVars, SetConnected
    <3>3. CASE \E s \in Senders : SendLock(s) \/ SendStep(s)
      BY <3>3 DEF SendLock, SendStep, SendRead, SendCheck, SendHeader,
         SendPayload, SendCount, SendFails, SendError, SendErrorReadConn,
         SendErrorCloseConn, SendErrorClearConn, SendErrorMark, readerVars,
         SetConnected
    <3>4. CASE \E w \in Waiters : WaitCall(w) \/ WaitReturn(w)
      BY <3>4 DEF WaitCall, WaitReturn, readerVars
    <3>5. CASE \/ \E c \in Conns : PeerConnect(c) \/ PeerGone(c)
               \/ \E c \in Conns, kind \in Kinds : PeerSend(c, kind)
      BY <3>5 DEF PeerConnect, PeerGone, PeerSend, readerVars
    <3> QED BY <2>4, <3>1, <3>2, <3>3, <3>4, <3>5 DEF Next
  <2> QED BY <2>1, <2>2, <2>3, <2>4
<1> QED
  BY <1>1, <1>2, TypeCorrect, PTL DEF Spec

(* wait_for_state: a waiter sleeps only while there is no state to return, *)
(* because every write of _latest wakes all waiters under the same lock.   *)
THEOREM WakeupsAreNotLost == Spec => []NoLostWakeup
<1>1. Init => NoLostWakeup
  BY DEF Init, NoLostWakeup
<1>2. TypeOK /\ NoLostWakeup /\ [Next]_vars => NoLostWakeup'
  <2> SUFFICES ASSUME TypeOK, NoLostWakeup, [Next]_vars
               PROVE NoLostWakeup'
    OBVIOUS
  <2> USE DEF TypeOK, StateTypeOK, NoLostWakeup
  <2>1. CASE UNCHANGED <<latest, wpc, asked, wret>>
    BY <2>1
  <2>2. CASE NotifyAll
    BY <2>2 DEF NotifyAll
  <2>3. ASSUME NEW w \in Waiters, WaitCall(w) \/ WaitReturn(w)
        PROVE NoLostWakeup'
    BY <2>3 DEF WaitCall, WaitReturn
  <2> QED BY <2>1, <2>2, <2>3, StateMoves DEF SetConnected, MergePose
<1> QED
  BY <1>1, <1>2, TypeCorrect, PTL DEF Spec

-----------------------------------------------------------------------------
(* Who may touch _conn, _stop and the error counter, and what is known of   *)
(* them then: enough to be inductive.                                      *)
ReachInv ==
  /\ connAttr \in {0, cur}
  /\ rpc \notin Published => connAttr = 0
  /\ rpc \in Published /\ errors = 0 /\ ~stop => connAttr = cur
  /\ ctl # "idle" => stop
  /\ \A s \in Senders :
       spc[s] \in {"readConn", "closeConn", "clearConn", "mark"} => errors > 0

LEMMA ReachStep == TypeOK /\ ReachInv /\ [Next]_vars => ReachInv'
<1> SUFFICES ASSUME RunTypeOK, SendTypeOK, ReachInv, [Next]_vars
             PROVE ReachInv'
  BY DEF TypeOK
<1> USE DEF ReachInv, ReaderGoto, SendGoto, readerVars, sendVars
<1>1. CASE Start
  BY <1>1 DEF Start, Published, Serving
<1>2. CASE StartAdbFails
  BY <1>2 DEF StartAdbFails, Published, Serving
<1>3. CASE Close
  BY <1>3 DEF Close
<1>4. CASE CloseStep
  BY <1>4 DEF CloseStep, CloseReadConn, CloseConn, CloseClearConn,
     CloseReadServer, CloseServer, CloseClearServer, CloseJoin, CloseMark
<1>5. CASE ReaderStep
  <2>1. UNCHANGED <<errors, ctl, spc, stop>>
    BY <1>5 DEF ReaderStep, RunBegin, RunListen, RunTop, RunAccept,
       RunAcceptNothing, RunPublish, RunGreet, RunLeave, RunMark,
       RunCloseConn, RunFail, RunExit, RunFinally, ReadCheck, ReadPacket,
       ReadEnds, HandlePacket, HandleVideoAck
  <2> USE DEF Published, Serving
  <2>2. CASE RunAccept
    BY <2>1, <2>2 DEF RunAccept
  <2>3. CASE RunPublish
    BY <2>1, <2>3 DEF RunPublish
  <2>4. CASE RunLeave
    BY <2>1, <2>4 DEF RunLeave
  <2>5. CASE RunCloseConn
    BY <2>1, <2>5 DEF RunCloseConn
  <2>6. CASE RunBegin \/ RunListen \/ RunTop \/ RunAcceptNothing \/ RunGreet
             \/ RunMark \/ RunFail \/ RunExit \/ RunFinally
    BY <2>1, <2>6 DEF RunBegin, RunListen, RunTop, RunAcceptNothing, RunGreet,
       RunMark, RunFail, RunExit, RunFinally
  <2>7. CASE ReadCheck \/ ReadPacket \/ ReadEnds \/ HandlePacket
             \/ HandleVideoAck
    BY <2>1, <2>7 DEF ReadCheck, ReadPacket, ReadEnds, HandlePacket,
       HandleVideoAck
  <2> QED
    BY <1>5, <2>2, <2>3, <2>4, <2>5, <2>6, <2>7 DEF ReaderStep
<1>6. ASSUME NEW s \in Senders, SendLock(s) \/ SendStep(s) PROVE ReachInv'
  <2>1. UNCHANGED <<rpc, cur, stop, ctl>>
    BY <1>6 DEF SendLock, SendStep, SendRead, SendCheck, SendHeader,
       SendPayload, SendCount, SendFails, SendError, SendErrorReadConn,
       SendErrorCloseConn, SendErrorClearConn, SendErrorMark
  <2> USE DEF SendTypeOK
  <2>2. CASE SendError(s)
    BY <2>1, <2>2 DEF SendError
  <2>3. CASE SendErrorClearConn(s)
    BY <2>1, <2>3 DEF SendErrorClearConn
  <2>4. CASE SendLock(s) \/ SendRead(s) \/ SendCheck(s) \/ SendHeader(s)
             \/ SendPayload(s) \/ SendCount(s) \/ SendFails(s)
    BY <2>1, <2>4 DEF SendLock, SendRead, SendCheck, SendHeader, SendPayload,
       SendCount, SendFails
  <2>5. CASE SendErrorReadConn(s) \/ SendErrorCloseConn(s) \/ SendErrorMark(s)
    BY <2>1, <2>5 DEF SendErrorReadConn, SendErrorCloseConn, SendErrorMark
  <2> QED
    BY <1>6, <2>2, <2>3, <2>4, <2>5 DEF SendStep
<1>7. CASE \/ \E w \in Waiters : WaitCall(w) \/ WaitReturn(w)
           \/ \E c \in Conns : PeerConnect(c) \/ PeerGone(c)
           \/ \E c \in Conns, kind \in Kinds : PeerSend(c, kind)
           \/ UNCHANGED vars
  <2>1. UNCHANGED <<connAttr, cur, rpc, errors, stop, ctl, spc>>
    BY <1>7 DEF WaitCall, WaitReturn, PeerConnect, PeerGone, PeerSend, vars
  <2> QED BY <2>1
<1> QED
  BY <1>1, <1>2, <1>3, <1>4, <1>5, <1>6, <1>7 DEF Next

(* The connection that is served is the one send_payload and close() find  *)
(* in _conn, until a send fails or close() begins; and never an older one. *)
THEOREM ServedConnectionIsReachable == Spec => []ServedIsReachable
<1>1. Init => ReachInv
  BY DEF Init, ReachInv, Published, Serving
<1>2. ReachInv => ServedIsReachable
  BY DEF ReachInv, ServedIsReachable
<1> QED
  BY <1>1, <1>2, ReachStep, TypeCorrect, PTL DEF Spec

-----------------------------------------------------------------------------
(* The wire of a connection under _send_lock.                              *)

(* the lock is held from `with self._send_lock` to its end *)
LockInv ==
  \A s \in Senders : /\ spc[s] \notin {"idle", "count"} => sendLock = s
                     /\ spc[s] \in {"check", "header", "payload"}
                          => sconn[s] \in Conns

(* a connection that has not been stored in _conn yet *)
Fresh(c) == sock[c] \in {"none", "backlog"} \/ (rpc = "publish" /\ cur = c)
FreshInv ==
  /\ cur # 0 => sock[cur] \notin {"none", "backlog"}
  /\ \A c \in Conns : Fresh(c) => /\ wire[c] = <<>> /\ connAttr # c
                                  /\ \A s \in Senders : sconn[s] # c

(* a header was written and its payload was not *)
Torn(c) == Len(wire[c]) % 2 = 1

(* sender s is about to complete connection c's packet, or to close c *)
Mends(s, c) ==
  /\ sconn[s] = c
  /\ \/ spc[s] \in {"payload", "error", "readConn"}
     \/ spc[s] = "closeConn" /\ held[s] = c

TornInv ==
  \A c \in Conns : Torn(c) /\ sock[c] # "closed" =>
    \/ \E s \in Senders : Mends(s, c)
    \/ /\ connAttr # c
       /\ \A s \in Senders : sconn[s] = c => spc[s] \notin {"check", "header"}

(* what the lock's holder knows of the wire it writes to *)
HolderInv ==
  \A s \in Senders : LET w == wire[sconn[s]] IN
    spc[s] = "payload" => /\ Torn(sconn[s])
                          /\ w[Len(w)].seq = sseq[s]

WireInv == LockInv /\ FreshInv /\ TornInv /\ HolderInv /\ PacketsContiguous

(* Steps that leave the senders and the wires alone: connections are closed *)
(* and published, _conn is set only to one that was fresh.                 *)
Quiet ==
  /\ UNCHANGED <<wire, spc, sconn, sseq, sendLock, sendSeq>>
  /\ \A s \in Senders : held'[s] = held[s]
  /\ cur' # 0 => sock'[cur'] \notin {"none", "backlog"}
  /\ \A c \in Conns : /\ sock[c] = "closed" => sock'[c] = "closed"
                      /\ Fresh(c)' => Fresh(c)
                      /\ connAttr' = c => connAttr = c \/ (Fresh(c) /\ ~Fresh(c)')

LEMMA TornNotEmpty == ASSUME NEW c \in Conns, Torn(c) PROVE wire[c] # <<>>
<1>1. Len(<<>>) = 0
  OBVIOUS
<1>2. 0 % 2 # 1
  OBVIOUS
<1> QED BY <1>1, <1>2, Zenon DEF Torn

LEMMA QuietKeeps ==
  ASSUME TypeOK, WireInv, Quiet PROVE WireInv'
<1> USE DEF Quiet
<1>1. LockInv' BY DEF WireInv, LockInv
<1>2. FreshInv' BY DEF WireInv, FreshInv
<1>3. TornInv'
  <2> SUFFICES ASSUME NEW c \in Conns, Torn(c), sock'[c] # "closed"
               PROVE \/ \E s \in Senders : Mends(s, c)'
                     \/ /\ connAttr' # c
                        /\ \A s \in Senders :
                             sconn'[s] = c => spc'[s] \notin {"check", "header"}
    BY DEF TornInv, Torn
  <2>1. sock[c] # "closed"
    OBVIOUS
  <2>2. \A s \in Senders : Mends(s, c)' <=> Mends(s, c)
    BY DEF Mends
  <2>3. ~Fresh(c)
    BY TornNotEmpty DEF WireInv, FreshInv
  <2>4. connAttr # c => connAttr' # c
    BY <2>3
  <2> QED BY <2>1, <2>2, <2>4 DEF WireInv, TornInv
<1>4. HolderInv' BY DEF WireInv, HolderInv, Torn
<1>5. PacketsContiguous' BY DEF WireInv, PacketsContiguous
<1> QED BY <1>1, <1>2, <1>3, <1>4, <1>5 DEF WireInv

LEMMA QuietSteps ==
  ASSUME TypeOK, FreshInv, [Next]_vars
  PROVE  Quiet \/ \E s \in Senders : SendLock(s) \/ SendStep(s)
<1> USE ThreadsAssumption
<1> USE DEF TypeOK, readerVars, netVars, sendVars
<1>1. CASE Start
  BY <1>1 DEF Start, Quiet, Fresh, FreshInv
<1>2. CASE StartAdbFails \/ Close
  BY <1>2 DEF StartAdbFails, Close, Quiet, Fresh, FreshInv
<1>3. CASE CloseStep
  <2>1. CASE CloseConn
    BY <2>1 DEF CloseConn, Quiet, Fresh, FreshInv, NetTypeOK, RunTypeOK, Conns
  <2>2. CASE CloseServer
    BY <2>2 DEF CloseServer, CloseListener, Quiet, Fresh, FreshInv, NetTypeOK,
       RunTypeOK, Conns
  <2>3. CASE CloseReadConn
    BY <2>3 DEF CloseReadConn, Quiet, Fresh, FreshInv, SendTypeOK, Threads
  <2>4. CASE CloseClearConn
    BY <2>4 DEF CloseClearConn, Quiet, Fresh, FreshInv, Conns
  <2>5. CASE CloseReadServer \/ CloseClearServer \/ CloseJoin \/ CloseMark
    BY <2>5 DEF CloseReadServer, CloseClearServer, CloseJoin, CloseMark, Quiet,
       Fresh, FreshInv
  <2> QED BY <1>3, <2>1, <2>2, <2>3, <2>4, <2>5 DEF CloseStep
<1>4. CASE ReaderStep
  <2> USE DEF ReaderGoto, Quiet, Fresh, FreshInv
  <2>1. CASE RunAccept
    BY <2>1 DEF RunAccept, Backlog, NetTypeOK, Conns
  <2>2. CASE RunPublish
    BY <2>2 DEF RunPublish, Conns
  <2>3. CASE RunLeave
    BY <2>3 DEF RunLeave, Conns
  <2>4. CASE RunCloseConn
    BY <2>4 DEF RunCloseConn, NetTypeOK, RunTypeOK, Conns
  <2>5. CASE RunExit
    BY <2>5 DEF RunExit, CloseListener, NetTypeOK, RunTypeOK, Conns
  <2>6. CASE RunBegin \/ RunListen \/ RunTop \/ RunAcceptNothing
    BY <2>6 DEF RunBegin, RunListen, RunTop, RunAcceptNothing
  <2>7. CASE RunGreet \/ RunMark \/ RunFail \/ RunFinally
    BY <2>7 DEF RunGreet, RunMark, RunFail, RunFinally
  <2>8. CASE ReadCheck \/ ReadPacket \/ ReadEnds \/ HandlePacket
             \/ HandleVideoAck
    BY <2>8 DEF ReadCheck, ReadPacket, ReadEnds, HandlePacket, HandleVideoAck
  <2> QED
    BY <1>4, <2>1, <2>2, <2>3, <2>4, <2>5, <2>6, <2>7, <2>8 DEF ReaderStep
<1>5. ASSUME NEW w \in Waiters, WaitCall(w) \/ WaitReturn(w) PROVE Quiet
  BY <1>5 DEF WaitCall, WaitReturn, Quiet, Fresh, FreshInv
<1>6. ASSUME NEW c \in Conns, PeerConnect(c) PROVE Quiet
  BY <1>6 DEF PeerConnect, Quiet, Fresh, FreshInv, NetTypeOK, RunTypeOK, Conns
<1>7. ASSUME NEW c \in Conns, PeerGone(c) \/ \E kind \in Kinds : PeerSend(c, kind)
      PROVE Quiet
  BY <1>7 DEF PeerGone, PeerSend, Quiet, Fresh, FreshInv
<1>8. CASE UNCHANGED vars
  BY <1>8 DEF vars, Quiet, Fresh, FreshInv
<1> QED
  BY <1>1, <1>2, <1>3, <1>4, <1>5, <1>6, <1>7, <1>8 DEF Next

LEMMA MutualExclusion ==
  ASSUME LockInv, NEW s \in Senders, NEW t \in Senders,
         spc[s] \notin {"idle", "count"}, spc[t] \notin {"idle", "count"}
  PROVE  s = t
BY DEF LockInv

(* A step of s that writes nothing and stays away from the half-written    *)
(* packets: the senders other than s do not move.                          *)
LEMMA SendKeepsOther ==
  ASSUME TypeOK, LockInv, NEW s \in Senders, SendLock(s) \/ SendStep(s)
  PROVE  /\ LockInv'
         /\ \A t \in Senders \ {s} :
              /\ spc'[t] = spc[t] /\ sconn'[t] = sconn[t]
              /\ sseq'[t] = sseq[t] /\ held'[t] = held[t]
<1> USE ThreadsAssumption, BoundsAssumption
    DEF TypeOK, SendTypeOK, Threads, LockInv, SendGoto, sendVars, Nobody
<1>1. CASE SendLock(s) BY <1>1 DEF SendLock
<1>2. CASE SendRead(s)
  <2>1. connAttr # 0 => connAttr \in Conns
    BY DEF RunTypeOK, Conns
  <2> QED BY <1>2, <2>1 DEF SendRead
<1>3. CASE SendCheck(s) BY <1>3 DEF SendCheck
<1>4. CASE SendHeader(s) BY <1>4 DEF SendHeader
<1>5. CASE SendPayload(s) BY <1>5 DEF SendPayload
<1>6. CASE SendCount(s) BY <1>6 DEF SendCount
<1>7. CASE SendFails(s) BY <1>7 DEF SendFails
<1>8. CASE SendError(s) BY <1>8 DEF SendError
<1>9. CASE SendErrorReadConn(s) BY <1>9 DEF SendErrorReadConn
<1>10. CASE SendErrorCloseConn(s) BY <1>10 DEF SendErrorCloseConn
<1>11. CASE SendErrorClearConn(s) BY <1>11 DEF SendErrorClearConn
<1>12. CASE SendErrorMark(s) BY <1>12 DEF SendErrorMark
<1> QED BY <1>1, <1>2, <1>3, <1>4, <1>5, <1>6, <1>7, <1>8, <1>9, <1>10,
           <1>11, <1>12 DEF SendStep

LEMMA SendKeepsFresh ==
  ASSUME TypeOK, LockInv, FreshInv, NEW s \in Senders,
         SendLock(s) \/ SendStep(s)
  PROVE  FreshInv'
<1> SUFFICES ASSUME TRUE
    PROVE /\ cur' # 0 => sock'[cur'] \notin {"none", "backlog"}
          /\ \A c \in Conns : Fresh(c)' =>
               /\ wire'[c] = <<>> /\ connAttr' # c
               /\ \A t \in Senders : sconn'[t] # c
  BY DEF FreshInv
<1>1. UNCHANGED <<rpc, cur>>
  BY DEF SendLock, SendStep, SendRead, SendCheck, SendHeader, SendPayload,
     SendCount, SendFails, SendError, SendErrorReadConn, SendErrorCloseConn,
     SendErrorClearConn, SendErrorMark, readerVars
<1>2. /\ sock' = sock \/ \E k \in 0..MaxConn : sock' = [sock EXCEPT ![k] = "closed"]
      /\ connAttr' \in {connAttr, 0}
  BY DEF TypeOK, SendTypeOK, Threads, SendLock, SendStep, SendRead, SendCheck,
     SendHeader, SendPayload, SendCount, SendFails, SendError,
     SendErrorReadConn, SendErrorCloseConn, SendErrorClearConn, SendErrorMark,
     netVars
<1>3. cur' # 0 => sock'[cur'] \notin {"none", "backlog"}
  <2>1. cur # 0 => cur \in Conns /\ sock[cur] \notin {"none", "backlog"}
    BY DEF FreshInv, TypeOK, RunTypeOK, Conns
  <2>2. sock \in [Conns -> {"none", "backlog", "open", "closed"}]
    BY DEF TypeOK, NetTypeOK
  <2> QED BY <1>1, <1>2, <2>1, <2>2
<1>4. ASSUME NEW c \in Conns, Fresh(c)' PROVE Fresh(c)
  BY <1>1, <1>2, <1>4 DEF Fresh, TypeOK, NetTypeOK
<1>5. ASSUME NEW c \in Conns, Fresh(c)
      PROVE wire'[c] = <<>> /\ \A t \in Senders : sconn'[t] # c
  <2>1. /\ wire[c] = <<>> /\ connAttr # c
        /\ \A t \in Senders : sconn[t] # c
    BY <1>5 DEF FreshInv
  <2>2. wire' = wire \/ \E e \in {[seq |-> sseq[s], part |-> p] : p \in {"header", "payload"}} :
                 wire' = [wire EXCEPT ![sconn[s]] = Append(wire[sconn[s]], e)]
    BY DEF SendLock, SendStep, SendRead, SendCheck, SendHeader, SendPayload,
     SendCount, SendFails, SendError, SendErrorReadConn, SendErrorCloseConn,
     SendErrorClearConn, SendErrorMark, netVars, Write
  <2>3. sconn' = sconn \/ sconn' = [sconn EXCEPT ![s] = connAttr]
    BY DEF SendLock, SendStep, SendRead, SendCheck, SendHeader, SendPayload,
     SendCount, SendFails, SendError, SendErrorReadConn, SendErrorCloseConn,
     SendErrorClearConn, SendErrorMark, sendVars
  <2>4. wire'[c] = <<>>
    BY <2>1, <2>2 DEF TypeOK, NetTypeOK
  <2> QED BY <2>1, <2>3, <2>4 DEF TypeOK, SendTypeOK
<1>6. ASSUME NEW c \in Conns, Fresh(c) PROVE connAttr' # c
  BY <1>2, <1>6 DEF FreshInv, Conns
<1> QED BY <1>3, <1>4, <1>5, <1>6

(* The packet of a connection that is still open was not left half written  *)
(* by anyone but the lock's holder.                                        *)
LEMMA TornByHolder ==
  ASSUME TypeOK, WireInv, NEW s \in Senders, spc[s] \notin {"idle", "count"},
         NEW c \in Conns, Torn(c), sock[c] # "closed"
  PROVE  \/ Mends(s, c)
         \/ /\ connAttr # c
            /\ \A t \in Senders : sconn[t] = c => spc[t] \notin {"check", "header"}
<1>1. \A t \in Senders : Mends(t, c) => t = s
  BY MutualExclusion DEF WireInv, Mends
<1> QED BY <1>1 DEF WireInv, TornInv

(* a step of s that writes something *)
LEMMA WriteEffect ==
  ASSUME TypeOK, NEW s \in Senders, NEW part \in {"header", "payload"},
         sconn[s] \in Conns, Write(s, part)
  PROVE  LET c == sconn[s] IN
         /\ wire'[c] \in Seq(Chunk) /\ wire[c] \in Seq(Chunk)
         /\ Len(wire'[c]) = Len(wire[c]) + 1
         /\ \A i \in 1..Len(wire[c]) : wire'[c][i] = wire[c][i]
         /\ wire'[c][Len(wire[c]) + 1] = [seq |-> sseq[s], part |-> part]
         /\ \A d \in Conns \ {c} : wire'[d] = wire[d]
<1> DEFINE c == sconn[s]
           e == [seq |-> sseq[s], part |-> part]
<1>1. e \in Chunk
  BY DEF Chunk, TypeOK, SendTypeOK
<1>2. wire \in [Conns -> Seq(Chunk)]
  BY DEF TypeOK, NetTypeOK
<1>3. wire' = [wire EXCEPT ![c] = Append(wire[c], e)]
  BY DEF Write
<1> HIDE DEF e
<1>4. wire[c] \in Seq(Chunk) /\ wire'[c] = Append(wire[c], e)
  BY <1>2, <1>3
<1>5. \A d \in Conns \ {c} : wire'[d] = wire[d]
  BY <1>2, <1>3
<1>6. /\ wire'[c] \in Seq(Chunk)
      /\ Len(wire'[c]) = Len(wire[c]) + 1
      /\ \A i \in 1..Len(wire[c]) : wire'[c][i] = wire[c][i]
      /\ wire'[c][Len(wire[c]) + 1] = e
  BY <1>1, <1>4
<1> QED BY <1>4, <1>5, <1>6 DEF e

LEMMA Parity ==
  ASSUME NEW n \in Nat
  PROVE  /\ n % 2 \in {0, 1}
         /\ (n + 1) % 2 = 1 <=> n % 2 = 0
OBVIOUS

LEMMA HeaderKeeps ==
  ASSUME TypeOK, WireInv, NEW s \in Senders, SendHeader(s)
  PROVE  TornInv' /\ HolderInv' /\ PacketsContiguous'
<1> DEFINE c == sconn[s]
<1>1. /\ spc[s] = "header" /\ spc' = [spc EXCEPT ![s] = "payload"]
      /\ UNCHANGED <<sconn, sseq, connAttr, sock, held>> /\ Write(s, "header")
  BY DEF SendHeader, SendGoto
<1>2. c \in Conns /\ sock[c] = "open"
  BY <1>1 DEF WireInv, LockInv, Write
<1>11. /\ wire'[c] \in Seq(Chunk) /\ wire[c] \in Seq(Chunk)
       /\ Len(wire'[c]) = Len(wire[c]) + 1
       /\ \A i \in 1..Len(wire[c]) : wire'[c][i] = wire[c][i]
       /\ wire'[c][Len(wire[c]) + 1] = [seq |-> sseq[s], part |-> "header"]
       /\ \A d \in Conns \ {c} : wire'[d] = wire[d]
  BY <1>1, <1>2, WriteEffect
<1>12. Len(wire[c]) \in Nat
  BY <1>11
<1> HIDE DEF c
<1>3. ~Torn(c)
  BY <1>1, <1>2, TornByHolder DEF Mends, c
<1>4. Len(wire'[c]) % 2 = 1
  BY <1>3, <1>11, <1>12, Parity DEF Torn
<1>5. spc'[s] = "payload" /\ \A t \in Senders \ {s} : spc'[t] = spc[t]
  BY <1>1 DEF TypeOK, SendTypeOK
<1>6. \A t \in Senders \ {s} : spc[t] \in {"idle", "count"}
  BY <1>1, MutualExclusion DEF WireInv
<1>7. \A d \in Conns \ {c} : wire'[d] = wire[d] /\ (Torn(d)' <=> Torn(d))
  BY <1>11 DEF Torn
<1>8. TornInv'
  <2> SUFFICES ASSUME NEW d \in Conns, Torn(d)', sock[d] # "closed"
               PROVE \/ \E t \in Senders : Mends(t, d)'
                     \/ /\ connAttr # d
                        /\ \A t \in Senders :
                             sconn[t] = d => spc'[t] \notin {"check", "header"}
    BY <1>1 DEF TornInv
  <2>1. CASE d = c
    BY <2>1, <1>1, <1>5 DEF Mends, c
  <2>2. CASE d # c
    BY <2>2, <1>1, <1>5, <1>6, <1>7, TornByHolder DEF Mends, c
  <2> QED BY <2>1, <2>2
<1>9. HolderInv'
  <2> SUFFICES ASSUME NEW t \in Senders, spc'[t] = "payload"
               PROVE /\ Torn(sconn[t])'
                     /\ LET w == wire'[sconn[t]] IN w[Len(w)].seq = sseq[t]
    BY <1>1 DEF HolderInv
  <2>1. t = s /\ sconn[t] = c
    BY <1>5, <1>6 DEF c
  <2>2. Torn(sconn[t])'
    BY <2>1, <1>1, <1>4 DEF Torn
  <2>3. wire'[c][Len(wire'[c])].seq = sseq[s]
    BY <1>11
  <2> QED BY <2>1, <2>2, <2>3
<1>10. PacketsContiguous'
  <2> SUFFICES ASSUME NEW d \in Conns, NEW i \in 1..Len(wire'[d])
               PROVE /\ i % 2 = 1 => wire'[d][i].part = "header"
                     /\ i % 2 = 0 => /\ wire'[d][i].part = "payload"
                                     /\ wire'[d][i].seq = wire'[d][i - 1].seq
    BY DEF PacketsContiguous
  <2>1. CASE d # c
    BY <2>1, <1>7 DEF WireInv, PacketsContiguous
  <2>2. CASE d = c /\ i <= Len(wire[c])
    <3>1. i \in 1..Len(wire[c]) /\ (i % 2 = 0 => i - 1 \in 1..Len(wire[c]))
      BY <2>2, <1>11, <1>12
    <3>2. wire'[c][i] = wire[c][i]
          /\ (i % 2 = 0 => wire'[c][i - 1] = wire[c][i - 1])
      BY <3>1, <1>11
    <3> QED BY <2>2, <3>1, <3>2, <1>2 DEF WireInv, PacketsContiguous
  <2>3. CASE d = c /\ i > Len(wire[c])
    <3>1. i = Len(wire[c]) + 1 /\ Len(wire[c]) \in Nat
      BY <2>3, <1>11, <1>12
    <3>2. i % 2 = 1
      BY <3>1, <2>3, <1>4, <1>11
    <3>3. wire'[c][i] = [seq |-> sseq[s], part |-> "header"]
      BY <3>1, <1>11
    <3> QED BY <2>3, <3>2, <3>3
  <2> QED BY <2>1, <2>2, <2>3, <1>11, <1>12
<1> QED BY <1>8, <1>9, <1>10

LEMMA Odd ==
  ASSUME NEW n \in Nat, n % 2 = 1
  PROVE  n # 0 /\ (n + 1) % 2 # 1
OBVIOUS

LEMMA PayloadKeeps ==
  ASSUME TypeOK, WireInv, NEW s \in Senders, SendPayload(s)
  PROVE  TornInv' /\ HolderInv' /\ PacketsContiguous'
<1> DEFINE c == sconn[s]
<1>1. /\ spc[s] = "payload" /\ spc' = [spc EXCEPT ![s] = "count"]
      /\ UNCHANGED <<sconn, sseq, connAttr, sock, held>> /\ Write(s, "payload")
  BY DEF SendPayload, SendGoto
<1>2. c \in Conns /\ sock[c] = "open" /\ Torn(c)
      /\ wire[c][Len(wire[c])].seq = sseq[s]
  BY <1>1 DEF WireInv, LockInv, HolderInv, Write
<1>3. /\ wire'[c] \in Seq(Chunk) /\ wire[c] \in Seq(Chunk)
      /\ Len(wire'[c]) = Len(wire[c]) + 1
      /\ \A i \in 1..Len(wire[c]) : wire'[c][i] = wire[c][i]
      /\ wire'[c][Len(wire[c]) + 1] = [seq |-> sseq[s], part |-> "payload"]
      /\ \A d \in Conns \ {c} : wire'[d] = wire[d]
  BY <1>1, <1>2, WriteEffect
<1> HIDE DEF c
<1>4. /\ Len(wire[c]) \in Nat /\ Len(wire[c]) % 2 = 1
      /\ Len(wire[c]) # 0
  <2>1. Len(wire[c]) % 2 = 1
    BY <1>2 DEF Torn
  <2>2. Len(wire[c]) \in Nat
    BY <1>3
  <2> QED BY <2>1, <2>2, Odd
<1>5. spc'[s] = "count" /\ \A t \in Senders \ {s} : spc'[t] = spc[t]
  BY <1>1 DEF TypeOK, SendTypeOK
<1>6. \A t \in Senders \ {s} : spc[t] \in {"idle", "count"}
  BY <1>1, MutualExclusion DEF WireInv
<1>7. \A d \in Conns \ {c} : Torn(d)' <=> Torn(d)
  BY <1>3 DEF Torn
<1>8. ~(Len(wire'[c]) % 2 = 1)
  <2>1. (Len(wire[c]) + 1) % 2 # 1
    BY <1>4, Odd
  <2>2. Len(wire'[c]) = Len(wire[c]) + 1
    BY <1>3
  <2> QED BY <2>1, <2>2, Zenon
<1>9. TornInv'
  <2> SUFFICES ASSUME NEW d \in Conns, Torn(d)', sock[d] # "closed"
               PROVE /\ connAttr # d
                     /\ \A t \in Senders :
                          sconn[t] = d => spc'[t] \notin {"check", "header"}
    BY <1>1 DEF TornInv
  <2>1. d # c
    BY <1>8 DEF Torn
  <2> QED BY <2>1, <1>1, <1>5, <1>6, <1>7, TornByHolder DEF Mends, c
<1>10. HolderInv'
  BY <1>5, <1>6 DEF HolderInv
<1>11. PacketsContiguous'
  <2> SUFFICES ASSUME NEW d \in Conns, NEW i \in 1..Len(wire'[d])
               PROVE /\ i % 2 = 1 => wire'[d][i].part = "header"
                     /\ i % 2 = 0 => /\ wire'[d][i].part = "payload"
                                     /\ wire'[d][i].seq = wire'[d][i - 1].seq
    BY DEF PacketsContiguous
  <2>1. CASE d # c
    BY <2>1, <1>3 DEF WireInv, PacketsContiguous
  <2>2. CASE d = c /\ i <= Len(wire[c])
    <3>1. i \in 1..Len(wire[c]) /\ (i % 2 = 0 => i - 1 \in 1..Len(wire[c]))
      <4>1. i \in Nat \ {0} /\ (i % 2 = 0 => i # 1)
        BY <1>3, <2>2
      <4> QED BY <4>1, <2>2, <1>4
    <3>2. wire'[c][i] = wire[c][i]
          /\ (i % 2 = 0 => wire'[c][i - 1] = wire[c][i - 1])
      BY <3>1, <1>3
    <3> QED BY <2>2, <3>1, <3>2, <1>2 DEF WireInv, PacketsContiguous
  <2>3. CASE d = c /\ i > Len(wire[c])
    <3>1. i = Len(wire[c]) + 1 /\ i - 1 = Len(wire[c]) /\ i - 1 \in 1..Len(wire[c])
      BY <2>3, <1>3, <1>4
    <3>2. ~(i % 2 = 1)
      BY <3>1, <1>3, <1>8
    <3>3. wire'[c][i] = [seq |-> sseq[s], part |-> "payload"]
      BY <3>1, <1>3
    <3>4. wire'[c][i - 1].seq = sseq[s]
      BY <3>1, <1>2, <1>3
    <3> QED BY <2>3, <3>2, <3>3, <3>4
  <2> QED BY <2>1, <2>2, <2>3, <1>3, <1>4
<1> QED BY <1>9, <1>10, <1>11

LEMMA OtherKeeps ==
  ASSUME TypeOK, WireInv, NEW s \in Senders, SendLock(s) \/ SendStep(s),
         ~SendHeader(s), ~SendPayload(s)
  PROVE  TornInv' /\ HolderInv' /\ PacketsContiguous'
<1>1. UNCHANGED wire
  BY DEF SendLock, SendStep, SendRead, SendCheck, SendCount, SendFails,
     SendError, SendErrorReadConn, SendErrorCloseConn, SendErrorClearConn,
     SendErrorMark, netVars
<1>2. \A t \in Senders \ {s} :
        /\ spc'[t] = spc[t] /\ sconn'[t] = sconn[t]
        /\ sseq'[t] = sseq[t] /\ held'[t] = held[t]
  BY SendKeepsOther DEF WireInv
<1>3. spc'[s] # "payload"
  BY DEF TypeOK, SendTypeOK, SendGoto, SendLock, SendStep, SendRead,
     SendCheck, SendCount, SendFails, SendError, SendErrorReadConn,
     SendErrorCloseConn, SendErrorClearConn, SendErrorMark
<1>4. HolderInv'
  BY <1>1, <1>2, <1>3 DEF WireInv, HolderInv, Torn
<1>5. PacketsContiguous'
  BY <1>1 DEF WireInv, PacketsContiguous
<1>6. TornInv'
  <2> DEFINE Left(c) == /\ connAttr # c
                        /\ \A t \in Senders :
                             sconn[t] = c => spc[t] \notin {"check", "header"}
  <2> SUFFICES ASSUME NEW c \in Conns, Torn(c), sock'[c] # "closed"
               PROVE (\E t \in Senders : Mends(t, c)') \/ Left(c)'
    BY <1>1 DEF TornInv, Torn
  <2> USE DEF TypeOK, SendTypeOK, NetTypeOK, SendGoto, Mends, netVars
  <2>1. sock[c] # "closed"
    BY DEF SendLock, SendStep, SendRead, SendCheck, SendCount, SendFails,
     SendError, SendErrorReadConn, SendErrorCloseConn, SendErrorClearConn,
     SendErrorMark, Threads
  <2>2. CASE SendLock(s)
    <3>1. (\E t \in Senders : Mends(t, c)) \/ Left(c)
      BY <2>1 DEF WireInv, TornInv
    <3>2. ~Mends(s, c) /\ spc'[s] = "read" /\ UNCHANGED <<sconn, connAttr>>
      BY <2>2 DEF SendLock
    <3> QED BY <3>1, <3>2, <1>2
  <2>3. CASE SendCount(s)
    <3>1. (\E t \in Senders : Mends(t, c)) \/ Left(c)
      BY <2>1 DEF WireInv, TornInv
    <3>2. ~Mends(s, c) /\ spc'[s] = "idle" /\ UNCHANGED <<sconn, connAttr>>
      BY <2>3 DEF SendCount
    <3> QED BY <3>1, <3>2, <1>2
  <2>4. ASSUME spc[s] \notin {"idle", "count"}
        PROVE  Mends(s, c) \/ Left(c)
    BY <2>1, <2>4, TornByHolder
  <2>5. ASSUME spc[s] \notin {"idle", "count"}
        PROVE  \A t \in Senders \ {s} : spc'[t] \in {"idle", "count"}
    BY <2>5, <1>2, MutualExclusion DEF WireInv
  <2>6. CASE SendRead(s)
    BY <2>4, <2>5, <2>6 DEF SendRead
  <2>7. CASE SendCheck(s)
    BY <2>4, <2>5, <2>7 DEF SendCheck
  <2>8. CASE SendFails(s) \/ SendError(s)
    BY <2>4, <2>5, <2>8 DEF SendFails, SendError
  <2>9. CASE SendErrorReadConn(s)
    <3>1. /\ spc[s] = "readConn" /\ held'[s] = connAttr
          /\ spc'[s] = IF connAttr = 0 THEN "mark" ELSE "closeConn"
          /\ UNCHANGED <<sconn, connAttr>>
      BY <2>9 DEF SendErrorReadConn, Threads
    <3>2. Mends(s, c) \/ Left(c)
      BY <2>4, <3>1
    <3>3. CASE sconn[s] = c /\ connAttr = c
      BY <3>1, <3>3 DEF Conns
    <3>4. CASE sconn[s] = c /\ connAttr # c
      BY <3>1, <3>4, <2>5
    <3>5. CASE sconn[s] # c
      BY <3>1, <3>2, <3>5, <2>5
    <3> QED BY <3>3, <3>4, <3>5
  <2>10. CASE SendErrorCloseConn(s)
    BY <2>4, <2>5, <2>10 DEF SendErrorCloseConn
  <2>11. CASE SendErrorClearConn(s)
    BY <2>4, <2>5, <2>11 DEF SendErrorClearConn, Conns
  <2>12. CASE SendErrorMark(s)
    BY <2>4, <2>5, <2>12 DEF SendErrorMark
  <2> HIDE DEF TypeOK, SendTypeOK, NetTypeOK, SendGoto, Mends, netVars, Left
  <2> QED BY <2>2, <2>3, <2>6, <2>7, <2>8, <2>9, <2>10, <2>11, <2>12
          DEF SendStep
<1> QED BY <1>4, <1>5, <1>6

(* WireInv, on which the two theorems below rest, holds throughout.        *)
LEMMA WireCorrect == Spec => []WireInv
<1>1. Init => WireInv
  <2> SUFFICES ASSUME Init PROVE WireInv
    OBVIOUS
  <2>1. \A c \in Conns : wire[c] = <<>> /\ Len(wire[c]) = 0
    BY DEF Init
  <2>2. TornInv /\ PacketsContiguous
    BY <2>1, TornNotEmpty DEF TornInv, PacketsContiguous
  <2>3. LockInv /\ FreshInv /\ HolderInv
    BY <2>1 DEF Init, LockInv, FreshInv, Fresh, HolderInv, Conns
  <2> QED BY <2>2, <2>3 DEF WireInv
<1>2. TypeOK /\ WireInv /\ [Next]_vars => WireInv'
  <2> SUFFICES ASSUME TypeOK, WireInv, [Next]_vars PROVE WireInv'
    OBVIOUS
  <2>1. CASE Quiet
    BY <2>1, QuietKeeps
  <2>2. ASSUME NEW s \in Senders, SendLock(s) \/ SendStep(s) PROVE WireInv'
    <3>1. LockInv' /\ FreshInv'
      BY <2>2, SendKeepsOther, SendKeepsFresh DEF WireInv
    <3>2. TornInv' /\ HolderInv' /\ PacketsContiguous'
      BY <2>2, HeaderKeeps, PayloadKeeps, OtherKeeps
    <3> QED BY <3>1, <3>2 DEF WireInv
  <2> QED BY <2>1, <2>2, QuietSteps DEF WireInv
<1> QED
  BY <1>1, <1>2, TypeCorrect, PTL DEF Spec

(* On every wire a packet's header is followed by its own payload: the      *)
(* send lock is held from the header to the payload, and a sender whose     *)
(* payload fails closes the connection, unless it is no longer in _conn,    *)
(* before it gives up the lock (send_payload 113-130, _close_socket).       *)
THEOREM PacketsAreContiguous == Spec => []PacketsContiguous
<1>1. WireInv => PacketsContiguous
  BY DEF WireInv
<1> QED
  BY <1>1, WireCorrect, PTL

(* sequence numbers are taken under the lock, before the header is written *)
SeqInv ==
  /\ \A c \in Conns : \A i \in 1..Len(wire[c]) : wire[c][i].seq < sendSeq
  /\ \A s \in Senders :
       /\ spc[s] \in {"header", "payload"} => sseq[s] < sendSeq
       /\ spc[s] = "header" =>
            \A i \in 1..Len(wire[sconn[s]]) : wire[sconn[s]][i].seq < sseq[s]
       /\ spc[s] = "payload" =>
            \A i \in 1..(Len(wire[sconn[s]]) - 1) :
              wire[sconn[s]][i].seq < sseq[s]
  /\ SeqIncreases

LEMMA SeqQuiet == ASSUME SeqInv, Quiet PROVE SeqInv'
BY DEF SeqInv, Quiet, SeqIncreases

LEMMA SeqWrite ==
  ASSUME TypeOK, WireInv, SeqInv, NEW s \in Senders,
         SendHeader(s) \/ SendPayload(s)
  PROVE  SeqInv'
<1> DEFINE c == sconn[s]
<1>1. PICK part \in {"header", "payload"} :
        /\ spc[s] = part /\ Write(s, part)
        /\ spc' = [spc EXCEPT ![s] = IF part = "header" THEN "payload" ELSE "count"]
  BY DEF SendHeader, SendPayload, SendGoto
<1>2. UNCHANGED <<sconn, sseq, sendSeq>>
  BY DEF SendHeader, SendPayload
<1>3. c \in Conns
  BY <1>1 DEF WireInv, LockInv
<1>4. /\ wire'[c] \in Seq(Chunk) /\ wire[c] \in Seq(Chunk)
      /\ Len(wire'[c]) = Len(wire[c]) + 1
      /\ \A i \in 1..Len(wire[c]) : wire'[c][i] = wire[c][i]
      /\ wire'[c][Len(wire[c]) + 1] = [seq |-> sseq[s], part |-> part]
      /\ \A d \in Conns \ {c} : wire'[d] = wire[d]
  BY <1>1, <1>3, WriteEffect
<1>5. /\ \A t \in Senders \ {s} : spc'[t] \in {"idle", "count"}
      /\ spc'[s] = IF part = "header" THEN "payload" ELSE "count"
  BY <1>1, MutualExclusion DEF WireInv, TypeOK, SendTypeOK
<1>6. /\ sseq[s] < sendSeq /\ sseq[s] \in Nat /\ sendSeq \in Nat
      /\ \A i \in 1..(Len(wire[c]) - 1) : wire[c][i].seq < sseq[s]
      /\ part = "header" => \A i \in 1..Len(wire[c]) : wire[c][i].seq < sseq[s]
  <2>1. sseq[s] < sendSeq /\ sseq[s] \in Nat /\ sendSeq \in Nat
    BY <1>1 DEF SeqInv, TypeOK, SendTypeOK
  <2>2. part = "header" => \A i \in 1..Len(wire[c]) : wire[c][i].seq < sseq[s]
    BY <1>1 DEF SeqInv
  <2>3. part = "payload" =>
          \A i \in 1..(Len(wire[c]) - 1) : wire[c][i].seq < sseq[s]
    BY <1>1 DEF SeqInv
  <2>4. 1..(Len(wire[c]) - 1) \subseteq 1..Len(wire[c])
    BY <1>4
  <2> QED BY <2>1, <2>2, <2>3, <2>4
<1>7. Len(wire[c]) \in Nat
  BY <1>4
<1> HIDE DEF c
<1>8. \A d \in Conns : \A i \in 1..Len(wire'[d]) : wire'[d][i].seq < sendSeq
  <2> SUFFICES ASSUME NEW d \in Conns, NEW i \in 1..Len(wire'[d])
               PROVE  wire'[d][i].seq < sendSeq
    OBVIOUS
  <2>1. CASE d # c
    BY <2>1, <1>4 DEF SeqInv
  <2>2. CASE d = c /\ i \in 1..Len(wire[c])
    BY <2>2, <1>3, <1>4 DEF SeqInv
  <2>3. CASE d = c /\ i = Len(wire[c]) + 1
    BY <2>3, <1>4, <1>6
  <2> QED BY <2>1, <2>2, <2>3, <1>4, <1>7
<1>9. \A t \in Senders :
       /\ spc'[t] \in {"header", "payload"} => sseq'[t] < sendSeq'
       /\ spc'[t] = "header" =>
            \A i \in 1..Len(wire'[sconn'[t]]) : wire'[sconn'[t]][i].seq < sseq'[t]
       /\ spc'[t] = "payload" =>
            \A i \in 1..(Len(wire'[sconn'[t]]) - 1) :
              wire'[sconn'[t]][i].seq < sseq'[t]
  <2>1. part = "header" =>
          \A i \in 1..(Len(wire'[c]) - 1) : wire'[c][i].seq < sseq[s]
    <3>1. Len(wire'[c]) - 1 = Len(wire[c])
      BY <1>4, <1>7
    <3> QED BY <3>1, <1>4, <1>6
  <2>2. sconn'[s] = c /\ sseq'[s] = sseq[s]
    BY <1>2 DEF c
  <2> QED BY <2>1, <2>2, <1>2, <1>5, <1>6
<1>10. SeqIncreases'
  <2> SUFFICES ASSUME NEW d \in Conns, NEW i \in 1..Len(wire'[d]),
                      NEW j \in 1..Len(wire'[d]), i + 1 < j
               PROVE  wire'[d][i].seq < wire'[d][j].seq
    BY DEF SeqIncreases
  <2>1. CASE d # c
    BY <2>1, <1>4 DEF SeqInv, SeqIncreases
  <2>2. CASE d = c /\ j <= Len(wire[c])
    <3>1. i \in 1..Len(wire[c]) /\ j \in 1..Len(wire[c])
      BY <2>2, <1>4, <1>7
    <3>2. wire'[c][i] = wire[c][i] /\ wire'[c][j] = wire[c][j]
      BY <3>1, <1>4
    <3> QED BY <2>2, <3>1, <3>2, <1>3 DEF SeqInv, SeqIncreases
  <2>3. CASE d = c /\ j > Len(wire[c])
    <3>1. j = Len(wire[c]) + 1 /\ i \in 1..(Len(wire[c]) - 1)
      BY <2>3, <1>4, <1>7
    <3>2. i \in 1..Len(wire[c])
      BY <3>1, <1>7
    <3>3. wire'[c][i].seq < sseq[s] /\ wire'[c][j].seq = sseq[s]
      BY <3>1, <3>2, <1>4, <1>6
    <3> QED BY <2>3, <3>3
  <2> QED BY <2>1, <2>2, <2>3, <1>4, <1>7
<1> QED BY <1>2, <1>8, <1>9, <1>10 DEF SeqInv

LEMMA SeqOther ==
  ASSUME TypeOK, WireInv, SeqInv, NEW s \in Senders, SendLock(s) \/ SendStep(s),
         ~SendHeader(s), ~SendPayload(s)
  PROVE  SeqInv'
<1>1. UNCHANGED wire
  BY DEF SendLock, SendStep, SendRead, SendCheck, SendCount, SendFails,
     SendError, SendErrorReadConn, SendErrorCloseConn, SendErrorClearConn,
     SendErrorMark, netVars
<1>2. \A t \in Senders \ {s} : /\ spc'[t] = spc[t] /\ sconn'[t] = sconn[t]
                               /\ sseq'[t] = sseq[t]
  BY SendKeepsOther DEF WireInv
<1>3. CASE SendCheck(s)
  <2>1. spc[s] = "check" /\ sconn[s] \in Conns /\ UNCHANGED sconn
    BY <1>3 DEF SendCheck, WireInv, LockInv
  <2>2. \A t \in Senders \ {s} : spc'[t] \in {"idle", "count"}
    BY <2>1, <1>2, MutualExclusion DEF WireInv
  <2>3. \/ spc'[s] = "idle" /\ sendSeq' = sendSeq
        \/ spc'[s] = "header" /\ sseq'[s] = sendSeq /\ sendSeq' = sendSeq + 1
    BY <1>3 DEF SendCheck, TypeOK, SendTypeOK
  <2>4. sendSeq \in Nat /\ SeqIncreases'
    BY <1>1 DEF TypeOK, SendTypeOK, SeqInv, SeqIncreases
  <2>5. \A c \in Conns : \A i \in 1..Len(wire[c]) : wire[c][i].seq \in Nat
    <3>1. \A c \in Conns : \A i \in 1..Len(wire[c]) : wire[c][i] \in Chunk
      BY DEF TypeOK, NetTypeOK
    <3> QED BY <3>1 DEF Chunk
  <2>6. \A c \in Conns : \A i \in 1..Len(wire[c]) : wire[c][i].seq < sendSeq
    BY DEF SeqInv
  <2>7. \A c \in Conns : \A i \in 1..Len(wire[c]) : wire[c][i].seq < sendSeq'
    BY <2>3, <2>4, <2>5, <2>6
  <2>8. spc'[s] = "header" =>
          /\ sseq'[s] < sendSeq'
          /\ \A i \in 1..Len(wire[sconn[s]]) : wire[sconn[s]][i].seq < sseq'[s]
    BY <2>1, <2>3, <2>4, <2>6
  <2> QED BY <1>1, <2>1, <2>2, <2>3, <2>4, <2>7, <2>8 DEF SeqInv
<1>4. CASE ~SendCheck(s)
  <2>1. UNCHANGED sendSeq /\ spc'[s] \notin {"header", "payload"}
    BY <1>4 DEF TypeOK, SendTypeOK, SendGoto, SendLock, SendStep, SendRead,
     SendCount, SendFails, SendError, SendErrorReadConn, SendErrorCloseConn,
     SendErrorClearConn, SendErrorMark, sendVars
  <2>2. SeqIncreases'
    BY <1>1 DEF SeqInv, SeqIncreases
  <2> QED BY <1>1, <1>2, <2>1, <2>2 DEF SeqInv
<1> QED BY <1>3, <1>4

(* Along every wire the sequence numbers of the packets increase: a number  *)
(* is taken and used under the same hold of the send lock (118-121).       *)
THEOREM SequenceIncreases == Spec => []SeqIncreases
<1>1. Init => SeqInv
  BY DEF Init, SeqInv, SeqIncreases
<1>2. TypeOK /\ WireInv /\ SeqInv /\ [Next]_vars => SeqInv'
  BY QuietSteps, SeqQuiet, SeqWrite, SeqOther DEF WireInv
<1>3. SeqInv => SeqIncreases
  BY DEF SeqInv
<1> QED
  BY <1>1, <1>2, <1>3, TypeCorrect, WireCorrect, PTL DEF Spec
=============================================================================
