---------------------------- MODULE TcpConnection ----------------------------
(***************************************************************************)
(* The life of a connection: tcp-socket-base-custom.cc from Connect to     *)
(* CLOSED, at both of its ends, with the listener and the demultiplexer of *)
(* tcp-l4-protocol-custom.cc in front of the passive one.                  *)
(*                                                                         *)
(* A is the socket of BulkSendApplication: it connects, writes up to N     *)
(* segments, and is closed.  B is the socket the listener of PacketSink    *)
(* forks: it writes nothing, hands on what it receives, and has inherited  *)
(* m_shutdownSend.  (B runs tcp-socket-base.cc, the file the custom one    *)
(* was copied from; nothing modelled here differs.)  Each way of the path  *)
(* keeps order and may lose.                                               *)
(*                                                                         *)
(* Sequence numbers count segments: SYN is 0, segment k of the application *)
(* (from 0) is k + 1, FIN is one past the data.  The handlers are          *)
(* operators on the record t of a socket:                                  *)
(*   state          m_state; ep: the endpoint is allocated                 *)
(*   nxt            m_nextTxSequence; head: m_firstByteSeq of m_txBuffer   *)
(*   buf, written   m_txBuffer, the data put into it                       *)
(*   cong, cwnd     m_congState, m_cWnd; recover: m_recover                *)
(*   rxNext, ooo    m_rxBuffer: m_nextRxSeq, what it holds beyond          *)
(*   fin            m_rxBuffer: m_finSeq, None without m_gotFin            *)
(*   got            segments handed to the application                     *)
(*   synCount, retries   m_synCount, m_dataRetrCount                       *)
(*   retx           m_retxEvent: {} if idle, {"RTO"} for ReTxTimeout, else *)
(*                  the flags it will call SendEmptyPacket with            *)
(*   lastAck, delAck, pend   m_lastAckEvent, m_delAckCount,                *)
(*                  m_sendPendingDataEvent                                 *)
(*   onEmpty, shut  m_closeOnEmpty, m_shutdownSend                         *)
(*   app            NotifyConnectionSucceeded / NewConnectionCreated came  *)
(*   normal, error, failed   NotifyNormalClose, -ErrorClose,               *)
(*                  -ConnectionFailed came                                 *)
(*   tx             the packets the handler has handed to IP               *)
(*                                                                         *)
(* The connection stays in its initial window, which is not paced, and too *)
(* small for a fast retransmission.                                        *)
(***************************************************************************)
EXTENDS TcpTxBuffer, Sequences

CONSTANTS
  SynRetries,    \* m_synRetries
  DataRetries,   \* m_dataRetries
  DelAckMax,     \* m_delAckMaxCount
  SinkStops,     \* PacketSink is stopped at some time
  MaxCloses,     \* bound on the calls of the application's Close()
  MaxDrops,      \* bound on the packets the path loses
  Spurious       \* timers expire with at most so many packets on the path

ASSUME ConnectionAssumption ==
  /\ N <= DupThresh
  /\ {SynRetries, DataRetries, DelAckMax} \subseteq Nat \ {0}
  /\ SinkStops \in BOOLEAN
  /\ {MaxCloses, MaxDrops, Spurious} \subseteq Nat

VARIABLES
  sock,      \* the sockets of A and B
  listening, \* the listener of PacketSink is open
  net,       \* packets on their way to A and to B, oldest first
  closes,    \* calls of Close() by A's application
  drops      \* packets lost

vars == <<sock, listening, net, closes, drops>>

Ends == {"A", "B"}
Peer(x) == IF x = "A" THEN "B" ELSE "A"

States == {"CLOSED", "SYN_SENT", "SYN_RCVD", "ESTABLISHED", "CLOSE_WAIT",
           "LAST_ACK", "FIN_WAIT_1", "FIN_WAIT_2", "CLOSING", "TIME_WAIT"}

SeqNos == 0 .. N + 3

Packets ==
  [flags: SUBSET {"SYN", "ACK", "FIN", "RST"}, seq: SeqNos, ack: SeqNos,
   len: 0..1, sack: SUBSET (0..N-1)]

Sockets ==
  [state: States, ep: BOOLEAN, nxt: SeqNos, head: SeqNos, buf: Buffers,
   written: 0..N, cong: {"CA_OPEN", "CA_DISORDER", "CA_LOSS"}, cwnd: {1, N},
   recover: SeqNos, rxNext: SeqNos, ooo: SUBSET (0..N-1),
   fin: SeqNos \cup {None}, got: 0..N, synCount: 0..SynRetries,
   retries: 0..DataRetries,
   retx: {{}, {"RTO"}, {"SYN"}, {"SYN", "ACK"}, {"FIN", "ACK"}},
   lastAck: BOOLEAN, delAck: 0..DelAckMax, pend: BOOLEAN, onEmpty: BOOLEAN,
   shut: BOOLEAN, app: BOOLEAN, normal: BOOLEAN, error: BOOLEAN,
   failed: BOOLEAN, tx: Seq(Packets)]

NewSocket ==
  [state |-> "CLOSED", ep |-> FALSE, nxt |-> 0, head |-> 0,
   buf |-> EmptyBuffer, written |-> 0, cong |-> "CA_OPEN", cwnd |-> N,
   recover |-> 0, rxNext |-> 0, ooo |-> {}, fin |-> None, got |-> 0,
   synCount |-> SynRetries, retries |-> DataRetries, retx |-> {},
   lastAck |-> FALSE, delAck |-> 0, pend |-> FALSE, onEmpty |-> FALSE,
   shut |-> FALSE, app |-> FALSE, normal |-> FALSE, error |-> FALSE,
   failed |-> FALSE, tx |-> <<>>]

Init ==
  /\ sock = [x \in Ends |-> NewSocket]
  /\ listening = TRUE
  /\ net = [x \in Ends |-> <<>>]
  /\ closes = 0
  /\ drops = 0

-----------------------------------------------------------------------------
\* The buffers, in sequence numbers.

\* Size, and SizeFromSequence(m_nextTxSequence) = 0.
Size(t) == t.written - t.buf.una
AllSent(t) == t.head = 0 \/ t.nxt > t.written

HighTx(t) == t.buf.high + 1

\* Finished: everything up to the peer's FIN has been received.
Finished(t) == t.fin # None /\ t.fin < t.rxNext

\* Variant: the FIN is in sequence wherever it is.
SetFinSequence_Jumps(t, seq) == [t EXCEPT !.fin = seq, !.rxNext = seq + 1]

SetFinSequence(t, seq) ==
  [t EXCEPT !.fin = seq, !.rxNext = IF @ = seq THEN @ + 1 ELSE @]

\* DiscardUpTo; the acknowledgment of a FIN moves m_firstByteSeq past the data.
Discard(t, ack) ==
  IF ack <= t.head THEN t
  ELSE [t EXCEPT !.head = ack,
                 !.buf = IF Size(t) = 0 THEN @
                         ELSE DiscardUpTo(@, Min({ack - 1, t.written}))]

-----------------------------------------------------------------------------
\* Ending a socket, and sending.

\* Variant: the timers run on.
DeallocateEndPoint_KeepsTimers(t) == [t EXCEPT !.ep = FALSE]

DeallocateEndPoint(t) ==
  [t EXCEPT !.ep = FALSE, !.retx = {}, !.lastAck = FALSE, !.pend = FALSE,
            !.delAck = 0]

CloseAndNotify(t) ==
  [DeallocateEndPoint(t) EXCEPT !.normal = TRUE, !.state = "CLOSED"]

\* NotifyErrorClose and DeallocateEndPoint: the state is left as it is.
Drop(t) == [DeallocateEndPoint(t) EXCEPT !.error = TRUE]

\* Variant: the SYN is sent again for ever.
SendEmptyPacket_NoLimit(t, asked) ==
  LET flags == IF "FIN" \in asked THEN asked \cup {"ACK"} ELSE asked
  IN IF ~t.ep THEN t
     ELSE [t EXCEPT
       !.synCount = IF "SYN" \in flags THEN @ - 1 ELSE @,
       !.delAck = IF "ACK" \in flags THEN 0 ELSE @,
       !.retx = IF @ = {} /\ flags \cap {"SYN", "FIN"} # {} THEN flags ELSE @,
       !.tx = Append(@, [flags |-> flags, seq |-> t.nxt, ack |-> t.rxNext,
                         len |-> 0, sack |-> {}])]

\* SendEmptyPacket.  A FIN is always sent with ACK.
SendEmptyPacket(t, asked) ==
  LET flags == IF "FIN" \in asked THEN asked \cup {"ACK"} ELSE asked
      past == "FIN" \notin asked /\ t.state \in {"FIN_WAIT_1", "LAST_ACK", "CLOSING"}
      acks == "ACK" \in flags
      packet == [flags |-> flags, seq |-> IF past THEN t.nxt + 1 ELSE t.nxt,
                 ack |-> t.rxNext, len |-> 0, sack |-> IF acks THEN t.ooo ELSE {}]
  IN IF ~t.ep THEN t
     ELSE IF "SYN" \in flags /\ t.synCount = 0 THEN
       [DeallocateEndPoint(t) EXCEPT !.failed = TRUE, !.state = "CLOSED"]
     ELSE [t EXCEPT
       !.synCount = IF "SYN" \in flags THEN @ - 1 ELSE @,
       !.delAck = IF acks THEN 0 ELSE @,
       !.retx = IF @ = {} /\ flags \cap {"SYN", "FIN"} # {} THEN flags ELSE @,
       !.tx = Append(@, packet)]

SendRST(t) == Drop(SendEmptyPacket(t, {"RST"}))

\* SendDataPacket: with m_closeOnEmpty the last segment carries the FIN.
SendDataPacket(t, seg) ==
  LET last == t.onEmpty /\ seg + 1 = t.written
      flags == IF last THEN {"ACK", "FIN"} ELSE {"ACK"}
  IN [t EXCEPT
       !.buf = Copy(@, seg),
       !.nxt = seg + 2,
       !.delAck = 0,
       !.retx = IF @ = {} THEN {"RTO"} ELSE @,
       !.state = CASE last /\ @ = "ESTABLISHED" -> "FIN_WAIT_1"
                   [] last /\ @ = "CLOSE_WAIT" -> "LAST_ACK"
                   [] OTHER -> @,
       !.tx = Append(@, [flags |-> flags, seq |-> seg + 1, ack |-> t.rxNext,
                         len |-> 1, sack |-> {}])]

\* One round of the loop of SendPendingData.
SendNext(t) ==
  LET seg == NextSeg(t.buf, FALSE)
  IN IF /\ t.ep /\ Size(t) > 0
        /\ InFlight(t.buf) < t.cwnd
        /\ ~(t.cong = "CA_OPEN" /\ t.state = "FIN_WAIT_1")
        /\ seg # None /\ seg < t.written
     THEN SendDataPacket(t, seg)
     ELSE t

SendPendingData(t) ==
  LET after[k \in 0..N] == IF k = 0 THEN t ELSE SendNext(after[k - 1])
  IN after[N]

-----------------------------------------------------------------------------
\* Closing.

DoClose(t) ==
  CASE t.state = "ESTABLISHED" ->
         [SendEmptyPacket(t, {"FIN"}) EXCEPT !.state = "FIN_WAIT_1"]
    [] t.state = "CLOSE_WAIT" ->
         [SendEmptyPacket(t, {"FIN", "ACK"}) EXCEPT !.state = "LAST_ACK"]
    [] t.state \in {"SYN_SENT", "CLOSING"} -> CloseAndNotify(SendRST(t))
    [] OTHER -> t

\* Close.  What the receive buffer holds is what it holds out of order: the
\* application reads at once.
Close(t) ==
  IF t.ooo # {} THEN SendRST(t)
  ELSE IF ~AllSent(t) THEN [t EXCEPT !.onEmpty = TRUE]
  ELSE DoClose(t)

\* Variant: m_shutdownSend is not looked at.
DoPeerClose_Waits(t) ==
  SendEmptyPacket([t EXCEPT !.state = "CLOSE_WAIT", !.normal = TRUE], {"ACK"})

\* DoPeerClose
DoPeerClose(t) ==
  LET told == [t EXCEPT !.state = "CLOSE_WAIT", !.normal = TRUE]
      done == IF t.shut THEN Close(told) ELSE SendEmptyPacket(told, {"ACK"})
  IN IF done.state = "LAST_ACK"
     THEN [done EXCEPT !.retries = DataRetries, !.lastAck = TRUE]
     ELSE done

\* TimeWait: CancelAllTimers, and the timer of 2 MSL, which runs while the state
\* lasts.
TimeWait(t) ==
  [t EXCEPT !.state = "TIME_WAIT", !.normal = TRUE, !.retx = {},
            !.lastAck = FALSE, !.pend = FALSE, !.delAck = 0]

-----------------------------------------------------------------------------
\* Receiving data.

\* TcpRxBuffer::Add of a segment not held yet.
Add(t, k) ==
  LET held == t.ooo \cup {k}
      got  == CHOOSE n \in t.got .. N : t.got .. n-1 \subseteq held /\ n \notin held
      moved == [t EXCEPT !.ooo = held \ 0..got-1, !.got = got,
                         !.rxNext = IF got > t.got THEN got + 1 ELSE @]
  IN IF moved.rxNext = moved.fin THEN [moved EXCEPT !.rxNext = @ + 1] ELSE moved

\* ReceivedData
ReceivedData(t, p) ==
  LET k == p.seq - 1
      a == Add(t, k)
  IN IF p.seq < t.rxNext \/ k \in t.ooo THEN SendEmptyPacket(t, {"ACK"})
     ELSE IF a.rxNext > t.rxNext /\ Finished(a) /\ "FIN" \notin p.flags
       THEN DoPeerClose(a)
     ELSE IF a.ooo # {} \/ a.rxNext > t.rxNext + 1 \/ a.delAck + 1 >= DelAckMax
       THEN SendEmptyPacket(a, {"ACK"})
     ELSE [a EXCEPT !.delAck = @ + 1]

\* OutOfRange, of the segment p; MaxRxSequence is the FIN's number.
OutOfRange(t, p) ==
  CASE t.state \in {"SYN_SENT", "SYN_RCVD"} -> FALSE
    [] t.state \in {"LAST_ACK", "CLOSING", "CLOSE_WAIT"} -> p.seq # t.rxNext
    [] OTHER -> p.seq + 1 < t.rxNext \/ (t.fin # None /\ t.fin <= p.seq)

-----------------------------------------------------------------------------
\* Receiving an ACK.

\* Variant: no timer once the data is acknowledged, the FIN outstanding or not.
NewAck_ForgetsFin(t, ack) ==
  [t EXCEPT
    !.retries = DataRetries,
    !.nxt = IF ack > @ THEN ack ELSE @,
    !.retx = IF Size(t) = 0 THEN {} ELSE {"RTO"}]

\* NewAck
NewAck(t, ack) ==
  [t EXCEPT
    !.retries = DataRetries,
    !.nxt = IF ack > @ THEN ack ELSE @,
    !.retx = IF Size(t) = 0 /\ t.state \notin {"FIN_WAIT_1", "CLOSING"}
             THEN {} ELSE {"RTO"}]

\* ProcessAck and DupAck, without fast recovery.
ProcessAck(t, ack, oldHead, isDupack) ==
  LET d == IF isDupack /\ t.cong = "CA_OPEN"
           THEN [t EXCEPT !.cong = "CA_DISORDER"] ELSE t
      open == \/ d.cong = "CA_OPEN"
              \/ d.cong = "CA_DISORDER" /\ ~isDupack
              \/ d.cong = "CA_LOSS" /\ ack >= d.recover
  IN IF ack = oldHead
       THEN IF ack > HighTx(d) THEN [d EXCEPT !.nxt = ack] ELSE d
     ELSE IF open
       THEN NewAck([d EXCEPT !.cong = "CA_OPEN",
                             !.cwnd = IF d.cong = "CA_OPEN" THEN @ ELSE N], ack)
     ELSE IF d.cong = "CA_LOSS" THEN NewAck(d, ack)
     ELSE d

\* ReceivedAck
ReceivedAck(t, p) ==
  LET board == [t EXCEPT !.buf = Update(@, p.sack)]
      isDupack == board.buf.sacked # t.buf.sacked
      acked == ProcessAck(Discard(board, p.ack), p.ack, t.head, isDupack)
      Data(u) == IF p.len > 0 THEN ReceivedData(u, p) ELSE u
  IN IF p.ack < t.head THEN Data(board) ELSE SendPendingData(Data(acked))

-----------------------------------------------------------------------------
\* The state machine.

\* Variant: a FIN ends the stream in whatever order it comes.
PeerClose_AnyOrder(t, p) ==
  IF p.seq < t.rxNext THEN t
  ELSE DoPeerClose(IF p.len > 0 THEN ReceivedData(t, p) ELSE t)

\* PeerClose: a FIN below m_nextRxSeq is ignored, and not acknowledged.
PeerClose(t, p) ==
  LET noted == SetFinSequence(t, p.seq + p.len)
      taken == IF p.len > 0 THEN ReceivedData(noted, p) ELSE noted
  IN IF p.seq < t.rxNext \/ (t.fin # None /\ p.seq > t.fin) THEN t
     ELSE IF Finished(taken) THEN DoPeerClose(taken) ELSE taken

ProcessEstablished(t, p) ==
  CASE p.flags = {"ACK"} ->
         IF p.ack < t.head THEN t
         ELSE IF p.ack > HighTx(t) THEN SendEmptyPacket(t, {"ACK"})
         ELSE ReceivedAck(t, p)
    [] p.flags = {"FIN", "ACK"} -> PeerClose(t, p)
    [] "SYN" \in p.flags -> t
    [] OTHER -> CloseAndNotify(t)

\* The handshake is over: one past the SYN is the first number of the data.
Established(t) ==
  [t EXCEPT !.app = TRUE, !.retx = {}, !.nxt = @ + 1, !.head = t.nxt + 1]

\* ProcessSynSent
ProcessSynSent(t, p) ==
  LET up == [Established(t) EXCEPT !.state = "ESTABLISHED", !.rxNext = p.seq + 1]
  IN CASE p.flags = {"SYN", "ACK"} ->
            [SendPendingData(SendEmptyPacket(up, {"ACK"})) EXCEPT
               !.delAck = DelAckMax]
       [] p.flags = {"RST"} -> CloseAndNotify(t)
       [] OTHER -> t

\* ProcessSynRcvd.  Without data of its own, an ACK means one past the SYN.
ProcessSynRcvd(t, p) ==
  LET up == [Established(t) EXCEPT !.state = "ESTABLISHED", !.delAck = DelAckMax]
  IN CASE p.flags = {"ACK"} -> ReceivedAck(up, p)
       [] p.flags = {"SYN"} -> SendEmptyPacket(t, {"SYN", "ACK"})
       [] p.flags = {"FIN", "ACK"} ->
            IF p.seq = t.rxNext THEN PeerClose(Established(t), p) ELSE t
       [] OTHER -> CloseAndNotify(t)

\* The end of ProcessWait: the peer's FIN has come in sequence.
WaitFinished(t, p) ==
  LET moved == CASE t.state = "FIN_WAIT_2" -> TimeWait(t)
                 [] Size(t) = 0 /\ p.ack = HighTx(t) + 1 -> TimeWait(t)
                 [] OTHER -> [t EXCEPT !.state = "CLOSING"]
  IN IF t.state \in {"FIN_WAIT_1", "FIN_WAIT_2"} /\ Finished(t)
     THEN SendEmptyPacket(moved, {"ACK"}) ELSE t

\* ProcessWait.  The FIN is noted at the packet's number, not past its data.
ProcessWait(t, p) ==
  LET acked == ReceivedAck(t, p)
      finAcked == acked.state = "FIN_WAIT_1" /\ Size(acked) = 0
                    /\ p.ack = HighTx(acked) + 1
  IN CASE p.flags = {"ACK"} ->
            WaitFinished(IF finAcked THEN [acked EXCEPT !.state = "FIN_WAIT_2"]
                         ELSE acked, p)
       [] p.flags = {"FIN", "ACK"} ->
            WaitFinished(SetFinSequence(acked, p.seq), p)
       [] "SYN" \in p.flags -> t
       [] OTHER -> CloseAndNotify(t)

ProcessClosing(t, p) ==
  CASE p.flags = {"ACK"} -> IF p.seq = t.rxNext THEN TimeWait(t) ELSE t
    [] p.flags = {"FIN", "ACK"} -> CloseAndNotify(SendEmptyPacket(t, {"ACK"}))
    [] p.flags = {"RST"} -> CloseAndNotify(t)
    [] OTHER -> CloseAndNotify(SendRST(t))

ProcessLastAck(t, p) ==
  CASE p.flags = {"ACK"} -> IF p.seq = t.rxNext THEN CloseAndNotify(t) ELSE t
    [] p.flags \in {{"FIN", "ACK"}, {"RST"}} -> CloseAndNotify(t)
    [] OTHER -> CloseAndNotify(SendRST(t))

\* ForwardUp and DoForwardUp.  A segment out of range is acknowledged and dropped;
\* one with ACK but no timestamp, which only NoEndPointsFound sends, is discarded;
\* a SYN sets the initial window again.
DoForwardUp(t, p) ==
  LET u == IF "SYN" \in p.flags THEN [t EXCEPT !.cwnd = N] ELSE t
  IN IF p.len > 0 /\ OutOfRange(t, p) THEN SendEmptyPacket(t, {"ACK"})
     ELSE IF p.flags = {"RST", "ACK"} THEN t
     ELSE CASE t.state = "ESTABLISHED" -> ProcessEstablished(u, p)
            [] t.state = "SYN_SENT" -> ProcessSynSent(u, p)
            [] t.state = "SYN_RCVD" -> ProcessSynRcvd(u, p)
            [] t.state \in {"FIN_WAIT_1", "FIN_WAIT_2", "CLOSE_WAIT"} -> ProcessWait(u, p)
            [] t.state = "CLOSING" -> ProcessClosing(u, p)
            [] t.state = "LAST_ACK" -> ProcessLastAck(u, p)
            [] t.state = "TIME_WAIT" -> u

\* ProcessListen, Fork and CompleteFork: a new socket in SYN_RCVD, with the
\* listener's m_shutdownSend and m_closeOnEmpty.
CompleteFork(p) ==
  SendEmptyPacket([NewSocket EXCEPT !.ep = TRUE, !.state = "SYN_RCVD",
                     !.shut = TRUE, !.onEmpty = TRUE, !.rxNext = p.seq + 1],
                  {"SYN", "ACK"})

\* TcpL4ProtocolCustom::NoEndPointsFound
NoEndPointsFound(t, p) ==
  LET flags == IF "ACK" \in p.flags THEN {"RST"} ELSE {"RST", "ACK"}
  IN IF "RST" \in p.flags THEN t
     ELSE [t EXCEPT !.tx = <<[flags |-> flags, seq |-> 0, ack |-> 0, len |-> 0,
                              sack |-> {}]>>]

-----------------------------------------------------------------------------
\* Timers.

\* Variant: everything is marked lost, and nothing sent.
ReTxTimeout_Silent(t) ==
  IF Size(t) = 0 \/ t.retries = 0 THEN t
  ELSE [t EXCEPT !.retries = @ - 1, !.buf = SetSentListLost(@),
                 !.recover = HighTx(t), !.cong = "CA_LOSS", !.cwnd = 1]

\* ReTxTimeout
ReTxTimeout(t) ==
  LET lost == [t EXCEPT !.retries = @ - 1, !.buf = SetSentListLost(@),
                        !.recover = HighTx(t), !.cong = "CA_LOSS", !.cwnd = 1]
  IN IF Size(t) = 0 THEN
       IF t.state \in {"FIN_WAIT_1", "CLOSING"} THEN SendEmptyPacket(t, {"FIN"})
       ELSE t
     ELSE IF t.retries = 0 THEN Drop(t)
     ELSE SendPendingData(lost)

LastAckTimeout(t) ==
  IF t.retries = 0 THEN Drop(t)
  ELSE SendEmptyPacket([t EXCEPT !.retries = @ - 1], {"FIN", "ACK"})

-----------------------------------------------------------------------------
\* The actions.  A handler replaces a socket; what it sent joins the path.

Handled(x, t) ==
  /\ sock' = [sock EXCEPT ![x] = [t EXCEPT !.tx = <<>>]]
  /\ net' = [net EXCEPT ![Peer(x)] = @ \o t.tx]

\* Connect and DoConnect
Connect ==
  LET t == [sock["A"] EXCEPT !.ep = TRUE]
  IN /\ sock["A"] = NewSocket
     /\ closes = 0
     /\ Handled("A", [SendEmptyPacket(t, {"SYN"}) EXCEPT !.state = "SYN_SENT"])
     /\ UNCHANGED <<listening, closes, drops>>

\* Send, by an application that is connected and has not closed.
Send ==
  LET t == sock["A"]
  IN /\ t.app /\ closes = 0 /\ t.written < N
     /\ t.state \in {"ESTABLISHED", "CLOSE_WAIT"}
     /\ sock' = [sock EXCEPT !["A"].written = @ + 1,
                             !["A"].pend = @ \/ InFlight(t.buf) < t.cwnd]
     /\ UNCHANGED <<listening, net, closes, drops>>

\* m_sendPendingDataEvent
SendPending ==
  /\ sock["A"].pend
  /\ Handled("A", [SendPendingData(sock["A"]) EXCEPT !.pend = FALSE])
  /\ UNCHANGED <<listening, closes, drops>>

\* BulkSendApplication is done, or stopped.
CloseA ==
  /\ sock["A"] # NewSocket
  /\ closes < MaxCloses
  /\ closes' = closes + 1
  /\ Handled("A", Close(sock["A"]))
  /\ UNCHANGED <<listening, drops>>

\* PacketSink::StopApplication: the accepted socket and the listener are closed.
StopSink ==
  /\ SinkStops /\ listening
  /\ listening' = FALSE
  /\ Handled("B", IF sock["B"].app THEN Close(sock["B"]) ELSE sock["B"])
  /\ UNCHANGED <<closes, drops>>

\* TcpL4ProtocolCustom::Receive
Receive(x) ==
  /\ net[x] # <<>>
  /\ LET p == Head(net[x])
         t == CASE sock[x].ep -> DoForwardUp(sock[x], p)
                [] x = "B" /\ listening /\ ~sock[x].ep ->
                     IF p.flags = {"SYN"} THEN CompleteFork(p) ELSE sock[x]
                [] OTHER -> NoEndPointsFound(sock[x], p)
     IN /\ sock' = [sock EXCEPT ![x] = [t EXCEPT !.tx = <<>>]]
        /\ net' = [net EXCEPT ![x] = Tail(@), ![Peer(x)] = @ \o t.tx]
  /\ UNCHANGED <<listening, closes, drops>>

Quiet == Len(net["A"]) + Len(net["B"]) <= Spurious

\* m_retxEvent: ReTxTimeout, or SendEmptyPacket again.
RetxExpires(x) ==
  LET t == [sock[x] EXCEPT !.retx = {}]
  IN /\ sock[x].retx # {} /\ Quiet
     /\ Handled(x, IF sock[x].retx = {"RTO"} THEN ReTxTimeout(t)
                   ELSE SendEmptyPacket(t, sock[x].retx))
     /\ UNCHANGED <<listening, closes, drops>>

LastAckExpires(x) ==
  /\ sock[x].lastAck /\ Quiet
  /\ Handled(x, LastAckTimeout(sock[x]))
  /\ UNCHANGED <<listening, closes, drops>>

\* m_delAckEvent runs between the first segment not acknowledged and the last.
\* The count is set past it at the handshake, so that the first one is at once.
DelAckRuns(t) == t.delAck \in 1 .. DelAckMax - 1

\* DelAckTimeout
DelAckExpires(x) ==
  /\ sock[x].ep /\ DelAckRuns(sock[x])
  /\ Handled(x, SendEmptyPacket(sock[x], {"ACK"}))
  /\ UNCHANGED <<listening, closes, drops>>

\* The timer of TimeWait: 2 MSL after the last packet of the connection.
TimeWaitExpires(x) ==
  /\ sock[x].ep /\ sock[x].state = "TIME_WAIT"
  /\ \A y \in Ends : net[y] = <<>>
  /\ Handled(x, CloseAndNotify(sock[x]))
  /\ UNCHANGED <<listening, closes, drops>>

\* The path loses the oldest packet of a direction.
Lose(x) ==
  /\ drops < MaxDrops /\ net[x] # <<>>
  /\ drops' = drops + 1
  /\ net' = [net EXCEPT ![x] = Tail(@)]
  /\ UNCHANGED <<sock, listening, closes>>

Next ==
  \/ Connect
  \/ Send
  \/ SendPending
  \/ CloseA
  \/ StopSink
  \/ \E x \in Ends :
       \/ Receive(x)
       \/ RetxExpires(x)
       \/ LastAckExpires(x)
       \/ DelAckExpires(x)
       \/ TimeWaitExpires(x)
       \/ Lose(x)

Spec == Init /\ [][Next]_vars

TypeOK ==
  /\ sock \in [Ends -> Sockets]
  /\ listening \in BOOLEAN
  /\ net \in [Ends -> Seq(Packets)]
  /\ closes \in 0..MaxCloses
  /\ drops \in 0..MaxDrops

-----------------------------------------------------------------------------
\* Properties.

A == sock["A"]
B == sock["B"]

\* TypeOK above, with the bounds: no retry counter passes zero.

\* The sink learns of the end of the stream (NotifyNormalClose in DoPeerClose)
\* only when the writer has closed and every segment written has been handed on:
\* a FIN that overtakes data waits for it in m_finSeq.
EofComplete ==
  B.state \in {"CLOSE_WAIT", "LAST_ACK"} => B.got = A.written /\ closes > 0

\* FIN_WAIT_2 means the peer has the FIN (tcp-socket.h), and with it all the data:
\* the test of the ACK in ProcessWait takes no earlier ACK for that of the FIN.
HalfClosed == A.state = "FIN_WAIT_2" => Finished(B) /\ B.got = A.written

\* No end waits for an answer without a timer: in every state entered by sending a
\* SYN or a FIN one of the events that send it again is scheduled, and while data
\* is outstanding it is ReTxTimeout.  NewAck, SendEmptyPacket and SendDataPacket
\* share one event, and each leaves it alone if another has scheduled it.
WaitTimed ==
  \A x \in Ends :
    LET t == sock[x]
    IN t.ep =>
       /\ t.state \in {"SYN_SENT", "SYN_RCVD", "FIN_WAIT_1", "CLOSING"} => t.retx # {}
       /\ t.state = "LAST_ACK" => t.retx # {} \/ t.lastAck
       /\ t.state \in {"ESTABLISHED", "CLOSE_WAIT"} /\ t.buf.una < t.buf.high
            => t.retx = {"RTO"}

\* A socket whose endpoint is gone has no timer left that could act on it, in
\* whatever handler, or chain of handlers, it was closed.  (m_sendPendingDataEvent
\* may be scheduled once more: the state Drop leaves still lets Send in.)
ClosedIsQuiet ==
  \A x \in Ends :
    LET t == sock[x]
    IN ~t.ep => t.retx = {} /\ ~t.lastAck /\ ~DelAckRuns(t)

\* The connection is a stream to its applications, through handshake, losses, both
\* ends closing at any time and resets.
Stream ==
  INSTANCE StreamService WITH
    Length <- N, written <- A.written, closed <- closes > 0,
    delivered <- B.got, ended <- Finished(B),
    released <- A.buf.una

IsStream == Stream!Spec

\* What the simulator guarantees: a scheduled event runs, a packet arrives or is
\* lost.  Weak fairness of each action, strong for TIME_WAIT, in which packets may
\* still come; where ENABLED is long to evaluate, with the guard written out.
FairSpec ==
  /\ Spec
  /\ WF_vars(Connect)
  /\ []<>~A.pend \/ []<><<SendPending>>_vars
  /\ \A x \in Ends :
       /\ []<>(net[x] = <<>>) \/ []<><<Receive(x)>>_vars
       /\ \/ []<>(~DelAckRuns(sock[x]) \/ ~sock[x].ep)
          \/ []<><<DelAckExpires(x)>>_vars
       /\ []<>(sock[x].retx = {} \/ ~Quiet) \/ []<><<RetxExpires(x)>>_vars
       /\ []<>(~sock[x].lastAck \/ ~Quiet) \/ []<><<LastAckExpires(x)>>_vars
       /\ \/ <>[](\/ sock[x].state # "TIME_WAIT" \/ ~sock[x].ep
                 \/ \E y \in Ends : net[y] # <<>>)
          \/ []<><<TimeWaitExpires(x)>>_vars

\* What is written is handed on, lossy path or not, unless an end is closed.
Delivered == (A.buf.high = N) ~> (B.got = N \/ ~A.ep \/ ~B.ep)

\* A connection its writer closes ends at both ends, on a path that loses nothing,
\* the sink stopping at any time or not.
BothEnd == (closes > 0) ~> (drops > 0 \/ (~A.ep /\ ~B.ep))

\* A deferred Close still has something to wait for ("App close with pending data
\* must wait until all data transmitted", Close).
CloseWaitsForData ==
  A.ep /\ A.state = "ESTABLISHED" /\ A.onEmpty => A.buf.una < A.written

\* FINs are not sent for ever ("prevent endless FINs", DoPeerClose): FIN_WAIT_1 ends.
FinsEnd == (A.state = "FIN_WAIT_1") ~> (A.state # "FIN_WAIT_1" \/ ~A.ep)

=============================================================================
