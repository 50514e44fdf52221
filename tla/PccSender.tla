------------------------------ MODULE PccSender ------------------------------
(***************************************************************************)
(* The sending half of an ESTABLISHED connection that runs PCC Aurora: the *)
(* congestion state machine, loss recovery, retransmission timeout and     *)
(* pacing of scratch/tcp/tcp-pcc-aurora/tcp-socket-base-custom.cc, with    *)
(* its scoreboard (TcpTxBuffer) and its congestion control (PccAurora),    *)
(* against the receiving TCP across a path that keeps order and may lose.  *)
(*                                                                         *)
(* The simulator is single-threaded: a handler runs to its end.  Each      *)
(* action below is one handler, with everything it calls.  The handlers    *)
(* are operators on the record s that holds the sender:                    *)
(*   buf            m_txBuffer                                             *)
(*   state          m_tcb->m_congState                                     *)
(*   dupAcks        m_dupAckCount                                          *)
(*   recover        m_recover, recoverActive m_recoverActive               *)
(*   firstPartial   m_isFirstPartialAck                                    *)
(*   retries        m_dataRetrCount                                        *)
(*   rto, pacing    whether m_retxEvent, m_pacingTimer are running         *)
(*   ecn            m_tcb->m_ecnState                                      *)
(*   echo, cwr      m_ecnEchoSeq, m_ecnCWRSeq                              *)
(*   closed         the endpoint is deallocated (NotifyErrorClose)         *)
(*   cc             m_congestionControl                                    *)
(*   tx             the segments the handler has handed to IP              *)
(*                                                                         *)
(* The connection has left its unpaced initial window behind               *)
(* (IsPacingEnabled), all data is waiting in the buffer, and the           *)
(* receiver's window does not bind.                                        *)
(***************************************************************************)
EXTENDS TcpTxBuffer, PccAurora

CONSTANTS
  DataRetries,   \* m_dataRetries
  EcnEnabled,    \* m_tcb->m_useEcn is not Off
  SackBlocks,    \* SACK blocks an ACK has room for: 3 beside the timestamps
  SackListSize,  \* SACK blocks the receiver remembers: 4
  MaxDrops       \* bound on the packets the path loses

ASSUME SenderAssumption == /\ DataRetries \in Nat
                           /\ EcnEnabled \in BOOLEAN
                           /\ SackBlocks \in Nat \ {0}
                           /\ SackListSize \in Nat \ {0}
                           /\ MaxDrops \in Nat

VARIABLES
  s,        \* the sender
  data,     \* segments on their way to the receiver, oldest first
  rcv,      \* the receiver: next expected, out of order and which of that it
            \* has in its SACK list, held back ACKs
  acks,     \* ACKs on their way back, oldest first
  drops     \* packets lost so far

vars == <<s, data, rcv, acks, drops>>

CongStates == {"CA_OPEN", "CA_DISORDER", "CA_CWR", "CA_RECOVERY", "CA_LOSS"}
EcnStates == {"ECN_DISABLED", "ECN_IDLE", "ECN_ECE_RCVD", "ECN_CWR_SENT"}

Segments == 0 .. N - 1

Senders ==
  [buf: Buffers, state: CongStates, dupAcks: Nat, recover: 0..N,
   recoverActive: BOOLEAN, firstPartial: BOOLEAN, retries: 0..DataRetries,
   rto: BOOLEAN, pacing: BOOLEAN, ecn: EcnStates, echo: 0..N, cwr: 0..N,
   closed: BOOLEAN, cc: CongestionControls, tx: Seq(Segments)]

Receivers == [nxt: 0..N, ooo: SUBSET Segments, listed: SUBSET Segments, held: 0..1]

Acks == [ack: 0..N, sack: SUBSET Segments]

TypeOK ==
  /\ s \in Senders
  /\ data \in Seq(Segments)
  /\ rcv \in Receivers
  /\ acks \in Seq(Acks)
  /\ drops \in 0..MaxDrops

Init ==
  /\ s = [buf |-> EmptyBuffer, state |-> "CA_OPEN", dupAcks |-> 0,
          recover |-> 0, recoverActive |-> FALSE, firstPartial |-> TRUE,
          retries |-> DataRetries, rto |-> FALSE, pacing |-> FALSE,
          ecn |-> IF EcnEnabled THEN "ECN_IDLE" ELSE "ECN_DISABLED",
          echo |-> 0, cwr |-> 0, closed |-> FALSE, cc |-> InitialCC,
          tx |-> <<>>]
  /\ data = <<>>
  /\ rcv = [nxt |-> 0, ooo |-> {}, listed |-> {}, held |-> 0]
  /\ acks = <<>>
  /\ drops = 0

-----------------------------------------------------------------------------
\* Sending.

\* SendDataPacket: the pacing and the retransmission timer are started unless
\* they run; then, with m_highTxMark up to date, OnPacketSent.
SendDataPacket(t, seg, r) ==
  LET isNew == seg = t.buf.high
      cwrNow == t.ecn = "ECN_ECE_RCVD" /\ t.echo > t.cwr /\ isNew
  IN [t EXCEPT !.buf    = Copy(@, seg),
               !.pacing = TRUE,
               !.rto    = TRUE,
               !.ecn    = IF cwrNow THEN "ECN_CWR_SENT" ELSE @,
               !.cwr    = IF cwrNow THEN seg ELSE @,
               !.tx     = Append(@, seg),
               !.cc     = OnPacketSent(@, seg, r)]

\* SendPendingData.  Under pacing the first packet sent starts the timer, and a
\* running timer ends the loop: at most one packet leaves.
SendPendingData(t, r) ==
  LET seg == NextSeg(t.buf, t.state = "CA_RECOVERY")
  IN IF /\ t.buf.una < N
        /\ ~t.closed
        /\ ~t.pacing
        /\ InFlight(t.buf) < t.cc.cwnd
        /\ seg # None
     THEN SendDataPacket(t, seg, r)
     ELSE t

\* DoRetransmit: the first lost segment not yet retransmitted or, as NextSeg
\* has it, new data; the head if there is neither.  OnPacketLost follows the
\* OnPacketSent of the same number.
DoRetransmit(t, r) ==
  LET next == NextSeg(t.buf, FALSE)
      seg  == IF next = None THEN t.buf.una ELSE next
  IN [SendDataPacket(t, seg, r) EXCEPT !.cc = OnPacketLost(@, seg)]

-----------------------------------------------------------------------------
\* Receiving an ACK.

SetCongState(t, st) ==
  [t EXCEPT !.state = st, !.cc = CongestionStateSet(@, st)]

EnterRecovery(t, r) ==
  LET buf == IF IsLost(t.buf, t.buf.una) THEN t.buf ELSE MarkHeadAsLost(t.buf)
      in  == [SetCongState(t, "CA_RECOVERY") EXCEPT
                !.buf = buf, !.recover = t.buf.high, !.recoverActive = TRUE]
  IN DoRetransmit(in, r)

\* EnterCwr.  It calls ProcessECN, and not CongestionStateSet.
EnterCwr(t) == [t EXCEPT !.state = "CA_CWR", !.recover = t.buf.high]

\* DupAck: m_highRxAckMark is the cumulative ACK, the head of the buffer.
DupAck(t, r) ==
  LET counted == IF t.state = "CA_RECOVERY" THEN t
                 ELSE [t EXCEPT !.dupAcks = @ + 1]
      d == IF t.state = "CA_OPEN" THEN SetCongState(counted, "CA_DISORDER")
           ELSE counted
      enter == \/ /\ d.dupAcks = DupThresh
                  /\ d.buf.una >= d.recover \/ ~d.recoverActive
               \/ IsLost(d.buf, d.buf.una + 1)
  IN IF t.state = "CA_LOSS" THEN t
     ELSE IF d.state = "CA_DISORDER" /\ enter THEN EnterRecovery(d, r)
     ELSE d

\* Variant: duplicate ACKs are never forgotten.
ForgetDupAcks_Never(t, isDupack) == t

\* An ACK that is no duplicate resets m_dupAckCount.
ForgetDupAcks(t, isDupack) ==
  IF isDupack THEN t ELSE [t EXCEPT !.dupAcks = 0]

\* Variant: the recovery point itself still belongs to the recovery.
BelowRecover_OrAt(t) == t.buf.una <= t.recover

\* ackNumber < m_recover
BelowRecover(t) == t.buf.una < t.recover

\* Variant: the retransmission timer is cancelled and not scheduled again.
NewAck_NoRestart(t, resetRto) ==
  [t EXCEPT !.retries = DataRetries, !.rto = @ /\ ~resetRto]

\* NewAck.  The timer is restarted on request, and stopped when the buffer is
\* empty.
NewAck(t, resetRto) ==
  [t EXCEPT !.retries = DataRetries,
            !.rto     = (@ \/ resetRto) /\ t.buf.una < N]

\* ProcessAck's branch for an ACK below the recovery point in CA_RECOVERY.
PartialAck(t, r) ==
  LET again == IF IsRetransmittedDataAcked(t.buf, t.buf.una)
               THEN t ELSE DoRetransmit(t, r)
  IN [NewAck(again, t.firstPartial) EXCEPT !.firstPartial = FALSE]

\* Its last branch: no recovery is under way, or the ACK ends it.
FullAck(t, isDupack) ==
  LET back == CASE t.state = "CA_DISORDER" /\ ~isDupack ->
                     SetCongState(t, "CA_OPEN")
                [] t.state = "CA_RECOVERY" ->
                     [SetCongState(t, "CA_OPEN") EXCEPT
                        !.firstPartial = TRUE, !.dupAcks = 0]
                [] t.state = "CA_LOSS" ->
                     [SetCongState(t, "CA_OPEN") EXCEPT !.firstPartial = TRUE]
                [] OTHER -> t
      done == [back EXCEPT !.recoverActive = @ /\ BelowRecover(t)]
  IN IF done.state = "CA_OPEN" THEN NewAck(done, TRUE) ELSE done

\* ProcessAck.  The scoreboard already holds the ACK: the head is ackNumber.
ProcessAck(t, oldHead, isDupack, r) ==
  LET d == IF isDupack THEN DupAck(t, r) ELSE t
      e == ForgetDupAcks(d, isDupack)
  IN IF t.buf.una = oldHead THEN d
     ELSE IF BelowRecover(e) /\ e.state = "CA_RECOVERY" THEN PartialAck(e, r)
     ELSE IF BelowRecover(e) /\ e.state = "CA_LOSS" THEN NewAck(e, TRUE)
     ELSE IF e.state = "CA_CWR" THEN NewAck(e, TRUE)
     ELSE FullAck(e, isDupack)

\* The ECN part of ReceivedAck.
ProcessEce(t, oldHead, ece) ==
  LET heard == [t EXCEPT !.echo = t.buf.una, !.ecn = "ECN_ECE_RCVD"]
  IN IF t.buf.una > oldHead /\ t.ecn # "ECN_DISABLED" /\ ece
     THEN IF t.echo >= t.buf.una THEN t
          ELSE IF t.state = "CA_CWR" THEN heard ELSE EnterCwr(heard)
     ELSE IF t.ecn = "ECN_ECE_RCVD" /\ ~ece THEN [t EXCEPT !.ecn = "ECN_IDLE"]
     ELSE t

\* Variant: an ACK beyond the recovery point does not end CA_CWR.
LeaveCwr_Never(t, ack) == t

\* The ACK that passes m_recover ends CA_CWR; again CongestionStateSet is not
\* called.
LeaveCwr(t, ack) ==
  IF t.state = "CA_CWR" /\ ack > t.recover
  THEN [t EXCEPT !.state = "CA_OPEN"] ELSE t

\* m_lastAckedSackedBytes: what Update and DiscardUpTo find newly delivered.
NewlyDelivered(b, a) ==
  Cardinality((Sent(b) \cap (0..a.ack-1 \cup a.sack)) \ b.sacked)

\* ReceivedAck.
AckProcessed(t, a, ece, r) ==
  LET oldHead  == t.buf.una
      updated  == Update(t.buf, a.sack)
      isDupack == updated.sacked # t.buf.sacked
      acked    == [t EXCEPT !.buf = DiscardUpTo(updated, a.ack)]
      p        == ProcessAck(ProcessEce(LeaveCwr(acked, a.ack), oldHead, ece),
                             oldHead, isDupack, r)
      q        == [p EXCEPT !.cc =
                     CongControl(@, a.ack, NewlyDelivered(t.buf, a))]
  IN SendPendingData(q, r)

-----------------------------------------------------------------------------
\* ReTxTimeout.
TimedOut(t, r) ==
  LET lossy == [SetCongState(t, "CA_LOSS") EXCEPT
                  !.buf = SetSentListLost(@), !.retries = @ - 1,
                  !.dupAcks = 0, !.recover = t.buf.high,
                  !.recoverActive = TRUE, !.cc.cwnd = 1,
                  !.pacing = FALSE, !.rto = FALSE]
  IN IF t.buf.una = N THEN [t EXCEPT !.rto = FALSE]
     ELSE IF t.retries = 0 THEN [t EXCEPT !.closed = TRUE, !.rto = FALSE,
                                         !.pacing = FALSE]
     ELSE SendPendingData(lossy, r)

-----------------------------------------------------------------------------
\* The actions.

\* A handler starts with nothing handed to IP or to the rate controller; what it
\* hands to IP is on the path when it ends.
Begin(t) == [t EXCEPT !.tx = <<>>, !.cc.calls = <<>>, !.cc.queue = Aged(@)]

Transmit == data' = data \o s'.tx

ReceivedAck ==
  /\ acks # <<>>
  /\ ~s.closed
  /\ \E r \in Rates, ece \in {FALSE, EcnEnabled} :
       s' = AckProcessed(Begin(s), Head(acks), ece, r)
  /\ acks' = Tail(acks)
  /\ Transmit
  /\ UNCHANGED <<rcv, drops>>

ReTxTimeout ==
  /\ s.rto
  /\ ~s.closed
  /\ \E r \in Rates : s' = TimedOut(Begin(s), r)
  /\ Transmit
  /\ UNCHANGED <<rcv, acks, drops>>

\* NotifyPacingPerformed
PacingTimerExpires ==
  /\ s.pacing
  /\ \E r \in Rates : s' = SendPendingData([Begin(s) EXCEPT !.pacing = FALSE], r)
  /\ Transmit
  /\ UNCHANGED <<rcv, acks, drops>>

\* The application's Send: the buffer has data and nothing has been sent.
Start ==
  /\ s.buf.high = 0 /\ ~s.rto /\ ~s.closed
  /\ \E r \in Rates : s' = SendPendingData(Begin(s), r)
  /\ Transmit
  /\ UNCHANGED <<rcv, acks, drops>>

\* The clock passes the end of the newest interval: ComputeMonitorDuration makes
\* that at least two RTT estimates after its first packet.
IntervalEnds ==
  /\ s.cc.queue # <<>>
  /\ ~Back(s.cc.queue).ended
  /\ s' = [Begin(s) EXCEPT !.cc.queue[Len(s.cc.queue)].ended = TRUE]
  /\ UNCHANGED <<data, rcv, acks, drops>>

-----------------------------------------------------------------------------
\* The receiving TCP: ReceivedData and its reassembly buffer.

\* The block of a SACK list, taken as the set of its segments, that i belongs to.
Block(S, i) == {j \in S : i..j \cup j..i \subseteq S}

Blocks(S) == {Block(S, i) : i \in S}

\* UpdateSackList: seg joins the blocks it touches.  A block too many is forgotten, not
\* the one of seg; which other one, the order of the list decides, which is left open.
UpdateSackList(listed, seg) ==
  LET S == listed \cup {seg}
  IN IF Cardinality(Blocks(S)) <= SackListSize THEN {S}
     ELSE {S \ B : B \in Blocks(S) \ {Block(S, seg)}}

\* AddOptionSack: the first blocks of the list, as many as there is room for.  The one of
\* a segment just stored out of order is the first.
SackOption(listed, stored) ==
  LET n == Min({SackBlocks, Cardinality(Blocks(listed))})
  IN {R \in {UNION P : P \in kSubset(n, Blocks(listed))} : stored \subseteq R}

SendAck(stored) ==
  \E R \in SackOption(rcv'.listed, stored) :
    acks' = Append(acks, [ack |-> rcv'.nxt, sack |-> R])

\* Variant: filling a hole uncovers one segment only.
RunEnd_One(ooo, i) == i

\* The segment after the run that starts at i.
RunEnd(ooo, i) == CHOOSE j \in i..N : j \notin ooo /\ i..j-1 \subseteq ooo

ReceiveOld(seg) ==
  /\ seg < rcv.nxt \/ seg \in rcv.ooo
  /\ rcv' = [rcv EXCEPT !.held = 0]
  /\ SendAck({})

\* A hole opened, narrowed or filled is acknowledged at once.
ReceiveBeyond(seg) ==
  /\ seg > rcv.nxt /\ seg \notin rcv.ooo
  /\ \E listed \in UpdateSackList(rcv.listed, seg) :
       rcv' = [rcv EXCEPT !.ooo = @ \cup {seg}, !.listed = listed, !.held = 0]
  /\ SendAck({seg})

ReceiveInHole(seg) ==
  /\ seg = rcv.nxt /\ rcv.ooo # {}
  /\ LET nxt == RunEnd(rcv.ooo, seg + 1)
     IN rcv' = [nxt |-> nxt, ooo |-> rcv.ooo \ 0..nxt,
                listed |-> rcv.listed \ 0..nxt, held |-> 0]
  /\ SendAck({})

\* In sequence: every second segment is acknowledged (DelAckCount).
ReceiveInOrder(seg) ==
  /\ seg = rcv.nxt /\ rcv.ooo = {}
  /\ rcv' = [rcv EXCEPT !.nxt = @ + 1, !.held = 1 - @]
  /\ IF rcv.held = 1 THEN SendAck({}) ELSE UNCHANGED acks

ReceivedData ==
  /\ data # <<>>
  /\ data' = Tail(data)
  /\ \/ ReceiveOld(Head(data))
     \/ ReceiveBeyond(Head(data))
     \/ ReceiveInHole(Head(data))
     \/ ReceiveInOrder(Head(data))
  /\ UNCHANGED <<s, drops>>

DelAckTimeout ==
  /\ rcv.held = 1
  /\ rcv' = [rcv EXCEPT !.held = 0]
  /\ SendAck({})
  /\ UNCHANGED <<s, data, drops>>

\* The path loses the oldest packet of a direction.
Drop ==
  /\ drops < MaxDrops
  /\ drops' = drops + 1
  /\ \/ data # <<>> /\ data' = Tail(data) /\ UNCHANGED acks
     \/ acks # <<>> /\ acks' = Tail(acks) /\ UNCHANGED data
  /\ UNCHANGED <<s, rcv>>

Next ==
  \/ Start
  \/ ReceivedAck
  \/ ReTxTimeout
  \/ PacingTimerExpires
  \/ IntervalEnds
  \/ ReceivedData
  \/ DelAckTimeout
  \/ Drop

Spec == Init /\ [][Next]_vars

\* The simulator runs every event it holds: timers expire, packets not lost
\* arrive, the clock moves.  Weak fairness of each handler, with the condition
\* that enables it written out.
FairSpec ==
  /\ Spec
  /\ ([]<>(s.buf.high # 0 \/ s.rto \/ s.closed)) \/ ([]<><<Start>>_vars)
  /\ ([]<>(acks = <<>> \/ s.closed)) \/ ([]<><<ReceivedAck>>_vars)
  /\ ([]<>(~s.rto \/ s.closed)) \/ ([]<><<ReTxTimeout>>_vars)
  /\ ([]<>(~s.pacing)) \/ ([]<><<PacingTimerExpires>>_vars)
  /\ ([]<>(s.cc.queue = <<>> \/ Back(s.cc.queue).ended)) \/ ([]<><<IntervalEnds>>_vars)
  /\ ([]<>(data = <<>>)) \/ ([]<><<ReceivedData>>_vars)
  /\ ([]<>(rcv.held = 0)) \/ ([]<><<DelAckTimeout>>_vars)

-----------------------------------------------------------------------------
\* Properties of the socket.

\* The scoreboard agrees with itself and with the receiver: no item is both
\* SACKed and lost, the head is never SACKed (the assertions of
\* TcpTxBuffer::Update and DiscardUpTo), the flags are on segments in the sent
\* list, and what is SACKed or acknowledged is what the receiver has.
ScoreboardConsistent ==
  /\ s.buf.sacked \cap s.buf.lost = {}
  /\ s.buf.una \notin s.buf.sacked
  /\ s.buf.sacked \cup s.buf.lost \cup s.buf.retrans \subseteq Sent(s.buf)
  /\ s.buf.una <= rcv.nxt
  /\ s.buf.sacked \subseteq rcv.ooo \cup 0..rcv.nxt - 1

\* What is known at one place of the loop from the receiver back to the sender: a
\* cumulative acknowledgment and the segments held beyond it.
Behind(v, w) == v.ack <= w.ack /\ v.sack \subseteq 0..w.ack-1 \cup w.sack

Board == [ack |-> s.buf.una, sack |-> s.buf.sacked]

Received == [ack |-> rcv.nxt, sack |-> rcv.ooo]

Sound(v) == v.sack \subseteq v.ack + 1 .. N - 1

\* An ACK takes nothing back of what v tells: it asks for no segment below or in it.
Upholds(v, w) == v.ack <= w.ack /\ w.ack \notin v.sack

\* The scoreboard and every ACK in flight are behind the receiver; nobody holds the
\* segment it waits for, and no ACK asks for a segment the scoreboard has as SACKed or an
\* ACK sent before it reported.  An ACK need not repeat what those reported, as it has
\* room for a few blocks only.  So ReceivedAck needs no test for an old ACK, and
\* DiscardUpTo finds no SACKed head.
KnowledgeGrows ==
  /\ Sound(Received)
  /\ rcv.listed \subseteq rcv.ooo
  /\ Behind(Board, Received)
  /\ \A i \in DOMAIN acks :
       /\ Sound(acks[i])
       /\ Upholds(Board, acks[i])
       /\ Behind(acks[i], Received)
       /\ \A j \in i+1 .. Len(acks) : Upholds(acks[i], acks[j])

\* While data is outstanding the retransmission timer runs: a loss of every
\* packet and of every ACK in flight cannot silence the connection.
TimerArmed == s.buf.una < s.buf.high /\ ~s.closed => s.rto

\* The assertions of DupAck: no duplicate ACK is remembered in CA_OPEN, so the
\* way to CA_DISORDER starts with the first; and there the count exceeds the
\* threshold only while a recovery point is active.  (Without ECN: LeaveCwr keeps
\* the count of CA_CWR.)
DupAckCounted ==
  /\ s.state = "CA_OPEN" => s.dupAcks = 0
  /\ s.state = "CA_DISORDER" => s.dupAcks <= DupThresh \/ s.recoverActive

\* Fast recovery is left by the very ACK that reaches its recovery point.
RecoveryOpen ==
  s.state = "CA_RECOVERY" => s.recoverActive /\ s.buf.una < s.recover

\* CA_CWR, too, is left by the ACK that passes its recovery point: the sender
\* answers one congestion mark per window.
CwrOpen == s.state = "CA_CWR" => s.buf.una <= s.recover

\* The assertion at the end of ReTxTimeout: one segment at most is in flight
\* when it returns.
TimeoutLeavesOne == [][ReTxTimeout => InFlight(s'.buf) <= 1]_vars

\* Every segment is acknowledged in the end, or the connection gives up; or the
\* agent leaves it at a rate whose window is less than a segment, with which nothing
\* is sent, no timer runs, and nobody asks the agent again.
AllAcked == <>(s.buf.una = N \/ s.closed) \/ <>[](s.cc.cwnd = 0)

-----------------------------------------------------------------------------
\* Properties of the congestion control under this socket.

Queue == s.cc.queue

\* Every interval has sent a packet, so GetAveragePacketSize divides by no zero,
\* and only the newest may still send.
IntervalsSent ==
  \A i \in DOMAIN Queue :
    /\ Queue[i].nSent > 0
    /\ i < Len(Queue) => Queue[i].ended

\* n_packets_accounted_for never passes what the sequence numbers it was summed
\* from allow; a sum that went below zero would wrap and do so.
AccountedBounded ==
  \A i \in DOMAIN Queue :
    Queue[i].nAcc <= Queue[i].nSent + (Queue[i].lastAcc - Min(Queue[i].pkts)) + 1

\* Outside wait mode no interval is left behind: once the cumulative ACK has
\* passed its last packet it is accounted for, whatever was lost, retransmitted,
\* or missed during a wait.
PassedIsAccounted ==
  ~s.cc.waitMode =>
    \A i \in DOMAIN Queue :
      Queue[i].last < SeqNo(s.buf.una) => Queue[i].nAcc = Queue[i].nSent

\* The congestion control waits exactly while the socket is in CA_LOSS.
WaitModeIsLoss == s.cc.waitMode <=> s.state = "CA_LOSS"

\* The rate changes only where an interval ends: a monitored rate is the rate
\* the whole interval was sent at.
RateSteady ==
  [][s.cc.queue # <<>> /\ ~Back(s.cc.queue).ended => s'.cc.rate = s.cc.rate]_vars

\* No interval blocks the queue for ever: in the end at most the one that was
\* still sending when the last ACK came is left.  With ECN the congestion control
\* may be left in wait mode (WaitEndsWithLoss), and then finishes nothing.
QueueDrains == <>[](s.closed \/ s.cc.waitMode \/ Len(Queue) <= 1)

-----------------------------------------------------------------------------
\* What comments and assertions of the code say, and the code does not do.

\* monitoring-interval.h:37: an interval serves to "pinpoint a acked/lost packet
\* to the corresponding MonitorInterval": it is credited with no more than it
\* sent.
CreditWithinSent ==
  \A i \in DOMAIN Queue : Queue[i].bytesAcked <= Queue[i].bytesSent

\* tcp-congestion-ops.h:133: CongestionStateSet "notifies the congestion control
\* algorithm that this state is about to be changed", so wait mode, begun with
\* CA_LOSS, ends with it.
WaitEndsWithLoss == s.cc.waitMode => s.state = "CA_LOSS"

=============================================================================
