-------------------------- MODULE PccSender_proofs --------------------------
(***************************************************************************)
(* Theorems about PccSender, for every amount of data, duplicate           *)
(* threshold, set of rates, number of retries and of losses.               *)
(*                                                                         *)
(* The argument has four layers.  The operations of the scoreboard keep it *)
(* consistent (TcpTxBuffer_proofs).  The callbacks of the congestion       *)
(* control keep its types and do not touch the wait mode.  A handler is a  *)
(* composition of operators on the sender: Keeps says what each of them    *)
(* preserves.  The last is about the actions: the receiver's knowledge     *)
(* only grows and ACKs arrive in the order they were sent                  *)
(* (KnowledgeGrows), so the ACK a handler processes asks for no segment    *)
(* the scoreboard has as SACKed, though it may have no room to repeat it.  *)
(*                                                                         *)
(* The last part goes through the same operators with another relation     *)
(* (Continues): CA_RECOVERY and CA_CWR are left by the ACK that reaches    *)
(* their recovery point; the rate does not change while an interval is     *)
(* sent; without ECN duplicate ACKs are counted as the assertions of       *)
(* DupAck say; and a timeout leaves one segment at most in flight, as the  *)
(* assertion at the end of ReTxTimeout says.                               *)
(***************************************************************************)
EXTENDS PccSender, TcpTxBuffer_proofs, SequenceTheorems

-----------------------------------------------------------------------------
\* The congestion control: every callback leads from a congestion control to a
\* congestion control; and what each one leaves alone.

\* A wrapped counter is a natural number, also when the sum went below zero.
LEMMA U32Type == \A x \in Int : U32(x) \in Nat
  BY UintModAssumption DEF U32

\* The constructor makes an interval.
LEMMA NewIntervalType == NewInterval \in Intervals
  BY DEF NewInterval, Intervals

\* MonitorInterval::OnPacketSent keeps the fields within their types.
LEMMA MISentType ==
  ASSUME NEW mi \in Intervals, NEW p \in Int, NEW sz \in Int
  PROVE  MISent(mi, p, sz) \in Intervals
<1>1. /\ U32(mi.nSent + 1) \in Nat /\ U32(mi.bytesSent + sz) \in Nat
  BY U32Type DEF Intervals
<1>2. /\ (IF mi.nSent = 0 THEN p ELSE mi.first) \in Int
      /\ (IF mi.nSent = 0 THEN p - 1 ELSE mi.lastAcc) \in Int
      /\ mi.pkts \cup {p} \in SUBSET Int
  BY DEF Intervals
<1> QED
  BY <1>1, <1>2 DEF MISent, Intervals

\* A packet that is too late or too early for a time is so or is not.
LEMMA NowIsLaterType ==
  ASSUME NEW mi \in Intervals, NEW p \in Int
  PROVE  NowIsLater(mi, p) \in BOOLEAN
  BY DEF NowIsLater, Intervals

\* Setting the times keeps the fields within their types.
LEMMA TimeAcksType ==
  ASSUME NEW mi \in Intervals, NEW p \in Int
  PROVE  TimeAcks(mi, p) \in Intervals
<1> DEFINE firstAck == mi.firstAck \/ p >= mi.first
           lastAck  == mi.lastAck \/ p >= mi.last
           fresh    == mi.fresh \/ (p >= mi.first /\ ~mi.firstAck)
           apart    == IF p >= mi.last /\ ~mi.lastAck THEN NowIsLater(mi, p)
                       ELSE mi.apart /\ (mi.firstAck \/ p < mi.first)
<1>1. /\ firstAck \in BOOLEAN /\ lastAck \in BOOLEAN
      /\ fresh \in BOOLEAN /\ apart \in BOOLEAN
  BY NowIsLaterType DEF Intervals
<1>2. TimeAcks(mi, p) = [mi EXCEPT !.firstAck = firstAck, !.lastAck = lastAck,
                                   !.fresh = fresh, !.apart = apart]
  BY DEF TimeAcks, Intervals
<1> HIDE DEF firstAck, lastAck, fresh, apart
<1> QED
  BY <1>1, <1>2 DEF Intervals

\* The accounting that OnPacketAcked and OnPacketLost share keeps them so.
LEMMA AccountType ==
  ASSUME NEW mi \in Intervals, NEW p \in Int
  PROVE  Account(mi, p) \in Intervals
<1> DEFINE m == TimeAcks(mi, p)
<1>1. m \in Intervals
  BY TimeAcksType
<1>2. U32(m.nAcc + (p - mi.lastAcc)) \in Nat /\ mi.nSent \in Nat /\ mi.last \in Int
  BY <1>1, U32Type DEF Intervals
<1> HIDE DEF m
<1> DEFINE nAcc == IF ContainsPacket(mi, p) THEN U32(m.nAcc + (p - mi.lastAcc))
                   ELSE IF p > mi.last THEN mi.nSent ELSE m.nAcc
           lastAcc == IF ContainsPacket(mi, p) THEN p
                      ELSE IF p > mi.last THEN mi.last ELSE m.lastAcc
<1>3. nAcc \in Nat /\ lastAcc \in Int
  BY <1>1, <1>2 DEF Intervals
<1>4. Account(mi, p) = [m EXCEPT !.nAcc = nAcc, !.lastAcc = lastAcc]
  BY <1>1 DEF Account, m, Intervals
<1> HIDE DEF nAcc, lastAcc
<1> QED
  BY <1>1, <1>3, <1>4 DEF Intervals

\* So does MonitorInterval::OnPacketAcked.
LEMMA MIAckedType ==
  ASSUME NEW mi \in Intervals, NEW p \in Int, NEW sz \in Int
  PROVE  MIAcked(mi, p, sz) \in Intervals
<1> DEFINE m == Account(mi, p)
<1>1. m \in Intervals
  BY AccountType
<1>2. U32(m.bytesAcked + sz) \in Nat
  BY <1>1, U32Type DEF Intervals
<1> HIDE DEF m
<1>3. [m EXCEPT !.bytesAcked = U32(@ + sz), !.sampled = TRUE,
                !.lastAck = TRUE, !.apart = NowIsLater(mi, p)] \in Intervals
  BY <1>1, <1>2, NowIsLaterType DEF Intervals
<1> QED
  BY <1>1, <1>3 DEF MIAcked, m

\* So does MonitorInterval::OnPacketLost.
LEMMA MILostType ==
  ASSUME NEW mi \in Intervals, NEW p \in Int, NEW sz \in Int
  PROVE  MILost(mi, p, sz) \in Intervals
<1> DEFINE m == Account(mi, p)
<1>1. m \in Intervals
  BY AccountType
<1>2. U32(m.bytesLost + sz) \in Nat
  BY <1>1, U32Type DEF Intervals
<1> HIDE DEF m
<1>3. [m EXCEPT !.bytesLost = U32(@ + sz)] \in Intervals
  BY <1>1, <1>2 DEF Intervals
<1> QED
  BY <1>1, <1>3 DEF MILost, m

\* The queue's OnPacketSent keeps it a queue of intervals.
LEMMA QueueSentType ==
  ASSUME NEW q \in Seq(Intervals), NEW p \in Int, NEW sz \in Int
  PROVE  QueueSent(q, p, sz) \in Seq(Intervals)
<1>1. CASE q = <<>>
  BY <1>1 DEF QueueSent
<1>2. CASE q # <<>>
  <2>1. Len(q) \in 1..Len(q) /\ q[Len(q)] \in Intervals
    BY <1>2
  <2>2. MISent(q[Len(q)], p, sz) \in Intervals
    BY <2>1, MISentType
  <2> QED
    BY <1>2, <2>1, <2>2 DEF QueueSent
<1> QED
  BY <1>1, <1>2

\* The queue's OnPacketAcked neither adds nor drops an interval.
LEMMA QueueAckedType ==
  ASSUME NEW q \in Seq(Intervals), NEW p \in Int, NEW sz \in Int
  PROVE  /\ QueueAcked(q, p, sz) \in Seq(Intervals)
         /\ Len(QueueAcked(q, p, sz)) = Len(q)
<1>1. \A i \in 1..Len(q) : q[i] \in Intervals /\ MIAcked(q[i], p, sz) \in Intervals
  BY MIAckedType
<1> QED
  BY <1>1 DEF QueueAcked

\* Nor does its OnPacketLost.
LEMMA QueueLostType ==
  ASSUME NEW q \in Seq(Intervals), NEW p \in Int, NEW sz \in Int
  PROVE  /\ QueueLost(q, p, sz) \in Seq(Intervals)
         /\ Len(QueueLost(q, p, sz)) = Len(q)
<1>1. \A i \in 1..Len(q) : q[i] \in Intervals /\ MILost(q[i], p, sz) \in Intervals
  BY MILostType
<1> QED
  BY <1>1 DEF QueueLost

\* Nor does the clock.
LEMMA AgedType ==
  ASSUME NEW q \in Seq(Intervals)
  PROVE  /\ Aged(q) \in Seq(Intervals)
         /\ Len(Aged(q)) = Len(q)
<1> DEFINE aged(mi) == [mi EXCEPT !.fresh = FALSE]
<1>1. \A mi \in Intervals : aged(mi) \in Intervals
  BY DEF Intervals
<1>2. Aged(q) = [i \in 1..Len(q) |-> aged(q[i])]
  BY DEF Aged
<1> HIDE DEF aged
<1>3. \A i \in 1..Len(q) : q[i] \in Intervals /\ aged(q[i]) \in Intervals
  BY <1>1
<1> QED
  BY <1>2, <1>3

-----------------------------------------------------------------------------
\* The loop of CheckMonitoringInterval ends at one place: everything before it is
\* accounted for, what follows is not, and nothing is lost or reordered.
LEMMA FinishedPrefixExists ==
  ASSUME NEW q \in Seq(Intervals)
  PROVE  /\ FinishedPrefix(q) \in 0..Len(q)
         /\ \A i \in 1..FinishedPrefix(q) : AllPacketsAccountedFor(q[i])
         /\ FinishedPrefix(q) < Len(q) =>
              ~AllPacketsAccountedFor(q[FinishedPrefix(q) + 1])
<1> DEFINE S == {n \in 0..Len(q) :
                   n < Len(q) => ~AllPacketsAccountedFor(q[n + 1])}
<1>1. S \in SUBSET Nat /\ Len(q) \in S
  OBVIOUS
<1>2. Min(S) \in S /\ \A y \in S : Min(S) <= y
  <2> HIDE DEF S
  <2> QED
    BY <1>1, MinInSet
<1>3. PICK n \in S : \A y \in S : n <= y
  BY <1>2
<1>4. \A i \in 1..n : AllPacketsAccountedFor(q[i])
  <2> SUFFICES ASSUME NEW i \in 1..n, ~AllPacketsAccountedFor(q[i])
               PROVE  FALSE
    OBVIOUS
  <2>1. i - 1 \in S
    OBVIOUS
  <2>2. n <= i - 1
    BY <1>3, <2>1
  <2> QED
    BY <2>2
<1>5. \E k \in 0..Len(q) :
        /\ \A i \in 1..k : AllPacketsAccountedFor(q[i])
        /\ k < Len(q) => ~AllPacketsAccountedFor(q[k + 1])
  BY <1>3, <1>4
<1> QED
  BY <1>5 DEF FinishedPrefix

\* What CheckMonitoringInterval pops is reported; what it leaves is a queue of
\* intervals.
LEMMA FinishedPendingType ==
  ASSUME NEW q \in Seq(Intervals)
  PROVE  /\ [i \in 1..FinishedPrefix(q) |-> Reported(q[i])] \in Seq(Calls)
         /\ Pending(q) \in Seq(Intervals)
<1>1. FinishedPrefix(q) \in 0..Len(q)
  BY FinishedPrefixExists
<1>2. \A i \in 1..FinishedPrefix(q) : Reported(q[i]) \in Calls
  <2>1. \A i \in 1..FinishedPrefix(q) : q[i] \in Intervals
    BY <1>1
  <2> QED
    BY <2>1 DEF Reported, Calls
<1>3. [i \in 1..FinishedPrefix(q) |-> Reported(q[i])] \in Seq(Calls)
  BY <1>1, <1>2
<1> QED
  BY <1>1, <1>3 DEF Pending

-----------------------------------------------------------------------------
\* The congestion control starts within its type.
LEMMA InitialCCType == InitialCC \in CongestionControls
  BY PccAssumption DEF InitialCC, CongestionControls

\* Sequence numbers and byte counts are integers.
LEMMA SeqNoType == \A seg \in Int : SeqNo(seg) \in Int /\ seg * MSS \in Int
  BY PccAssumption DEF SeqNo

\* CongestionStateSet keeps the congestion control within its type, for every state.
LEMMA CongestionStateSetType ==
  ASSUME NEW cc \in CongestionControls, NEW newState
  PROVE  CongestionStateSet(cc, newState) \in CongestionControls
  BY PccAssumption
     DEF CongestionStateSet, UpdatePacingRate, CongestionControls

\* CheckMonitoringInterval reports intervals and touches nothing else.
LEMMA CheckMonitoringIntervalType ==
  ASSUME NEW cc \in CongestionControls
  PROVE  /\ CheckMonitoringInterval(cc) \in CongestionControls
         /\ CheckMonitoringInterval(cc).waitMode = cc.waitMode
<1>1. /\ cc.queue \in Seq(Intervals) /\ cc.calls \in Seq(Calls)
  BY DEF CongestionControls
<1>2. /\ Pending(cc.queue) \in Seq(Intervals)
      /\ cc.calls \o [i \in 1..FinishedPrefix(cc.queue) |->
                        Reported(cc.queue[i])] \in Seq(Calls)
  BY <1>1, FinishedPendingType
<1> QED
  BY <1>2 DEF CheckMonitoringInterval, CongestionControls

\* Opening an interval does not touch the wait mode.
LEMMA OpenIntervalType ==
  ASSUME NEW cc \in CongestionControls, NEW r \in Rates
  PROVE  /\ OpenInterval(cc, r) \in CongestionControls
         /\ OpenInterval(cc, r).waitMode = cc.waitMode
<1>1. /\ Append(cc.queue, NewInterval) \in Seq(Intervals)
      /\ Append(cc.calls, Asked) \in Seq(Calls)
  BY NewIntervalType DEF CongestionControls, Calls
<1>2. Window[r] \in Nat
  BY PccAssumption
<1> QED
  BY <1>1, <1>2 DEF OpenInterval, UpdatePacingRate, CongestionControls

\* A packet sent does not touch the wait mode.
LEMMA OnPacketSentType ==
  ASSUME NEW cc \in CongestionControls, NEW seg \in Int, NEW r \in Rates
  PROVE  /\ OnPacketSent(cc, seg, r) \in CongestionControls
         /\ OnPacketSent(cc, seg, r).waitMode = cc.waitMode
<1> DEFINE open == IF ShouldCreateNewMonitorInterval(cc)
                   THEN OpenInterval(cc, r) ELSE cc
<1>1. open \in CongestionControls /\ open.waitMode = cc.waitMode
  BY OpenIntervalType
<1> HIDE DEF open
<1>2. QueueSent(open.queue, SeqNo(seg), MSS) \in Seq(Intervals)
  BY <1>1, SeqNoType, QueueSentType, PccAssumption DEF CongestionControls
<1>3. /\ [open EXCEPT !.queue = QueueSent(@, SeqNo(seg), MSS)]
           \in CongestionControls
      /\ [open EXCEPT !.queue = QueueSent(@, SeqNo(seg), MSS)].waitMode
           = cc.waitMode
  BY <1>1, <1>2 DEF CongestionControls
<1> QED
  BY <1>3 DEF OnPacketSent, open

\* A packet lost does not touch it either.
LEMMA OnPacketLostType ==
  ASSUME NEW cc \in CongestionControls, NEW seg \in Int
  PROVE  /\ OnPacketLost(cc, seg) \in CongestionControls
         /\ OnPacketLost(cc, seg).waitMode = cc.waitMode
<1> DEFINE heard == [cc EXCEPT !.queue = QueueLost(@, SeqNo(seg), MSS)]
<1>1. QueueLost(cc.queue, SeqNo(seg), MSS) \in Seq(Intervals)
  BY SeqNoType, QueueLostType, PccAssumption DEF CongestionControls
<1>2. heard \in CongestionControls /\ heard.waitMode = cc.waitMode
  BY <1>1 DEF CongestionControls
<1> HIDE DEF heard
<1> QED
  BY <1>2, CheckMonitoringIntervalType DEF OnPacketLost, heard

\* Nor does an ACK.
LEMMA CongControlType ==
  ASSUME NEW cc \in CongestionControls, NEW ack \in Int, NEW newly \in Int
  PROVE  /\ CongControl(cc, ack, newly) \in CongestionControls
         /\ CongControl(cc, ack, newly).waitMode = cc.waitMode
<1> DEFINE heard == [cc EXCEPT !.queue =
                       QueueAcked(@, SeqNo(ack), newly * MSS)]
<1>1. QueueAcked(cc.queue, SeqNo(ack), newly * MSS) \in Seq(Intervals)
  BY SeqNoType, QueueAckedType DEF CongestionControls
<1>2. heard \in CongestionControls /\ heard.waitMode = cc.waitMode
  BY <1>1 DEF CongestionControls
<1> HIDE DEF heard
<1> QED
  BY <1>2, CheckMonitoringIntervalType DEF CongControl, heard

-----------------------------------------------------------------------------
\* What a part of a handler keeps.

GoodSender(t) == t \in Senders /\ GoodBuffer(t.buf)

\* TimerArmed, of any sender.
Armed(t) == t.buf.una < t.buf.high /\ ~t.closed => t.rto

\* WaitModeIsLoss, of any sender, with what it needs: without ECN there is no
\* way into CA_CWR, whose ends the congestion control does not hear of.
Waits(t) ==
  ~EcnEnabled => /\ t.ecn = "ECN_DISABLED"
                 /\ t.state # "CA_CWR"
                 /\ t.cc.waitMode <=> t.state = "CA_LOSS"

\* What a part of a handler does to the sender that comes after DiscardUpTo.
Keeps(t, u) ==
  /\ GoodSender(u)
  /\ u.buf.una = t.buf.una
  /\ u.buf.sacked = t.buf.sacked
  /\ Armed(t) => Armed(u)
  /\ Waits(t) => Waits(u)

\* What two calls of a handler each keep, both keep.
LEMMA KeepsTransitive ==
  ASSUME NEW t, NEW u, NEW v, Keeps(t, u), Keeps(u, v)
  PROVE  Keeps(t, v)
  BY DEF Keeps

\* A call that does nothing keeps everything.
LEMMA KeepsReflexive ==
  ASSUME NEW t, GoodSender(t)
  PROVE  Keeps(t, t)
  BY DEF Keeps

-----------------------------------------------------------------------------
\* Sending.

\* SendDataPacket, given a segment that can be copied, keeps the sender and
\* leaves the retransmission timer running.
LEMMA SendDataPacketKeeps ==
  ASSUME NEW t, GoodSender(t), NEW seg, CanCopy(t.buf, seg), NEW r \in Rates
  PROVE  /\ Keeps(t, SendDataPacket(t, seg, r))
         /\ SendDataPacket(t, seg, r).rto
<1> DEFINE u == SendDataPacket(t, seg, r)
<1>1. /\ GoodBuffer(Copy(t.buf, seg))
      /\ Copy(t.buf, seg).una = t.buf.una
      /\ Copy(t.buf, seg).sacked = t.buf.sacked
      /\ seg \in Segments
  BY CopyGood DEF GoodSender, Segments
<1>2. /\ OnPacketSent(t.cc, seg, r) \in CongestionControls
      /\ OnPacketSent(t.cc, seg, r).waitMode = t.cc.waitMode
  BY <1>1, OnPacketSentType, TxBufferAssumption DEF GoodSender, Senders, Segments
<1>3. Append(t.tx, seg) \in Seq(Segments)
  BY <1>1 DEF GoodSender, Senders
<1>4. seg \in 0..N /\ Copy(t.buf, seg) \in Buffers
  BY <1>1, TxBufferAssumption DEF Segments, GoodBuffer
<1>5. u \in Senders
  BY <1>2, <1>3, <1>4 DEF GoodSender, Senders, SendDataPacket, EcnStates
<1>6. /\ u.buf = Copy(t.buf, seg) /\ u.rto = TRUE
      /\ u.cc = OnPacketSent(t.cc, seg, r)
      /\ u.state = t.state
      /\ t.ecn = "ECN_DISABLED" => u.ecn = "ECN_DISABLED"
  BY DEF GoodSender, Senders, SendDataPacket
<1> HIDE DEF u
<1>7. Keeps(t, u) /\ u.rto
  BY <1>1, <1>2, <1>5, <1>6 DEF Keeps, GoodSender, Armed, Waits
<1> QED
  BY <1>7 DEF u

\* SendPendingData sends only what NextSeg allows.
LEMMA SendPendingDataKeeps ==
  ASSUME NEW t, GoodSender(t), NEW r \in Rates
  PROVE  Keeps(t, SendPendingData(t, r))
<1> DEFINE seg == NextSeg(t.buf, t.state = "CA_RECOVERY")
<1>1. CASE SendPendingData(t, r) = t
  BY <1>1, KeepsReflexive
<1>2. CASE seg # None /\ SendPendingData(t, r) = SendDataPacket(t, seg, r)
  <2>1. CanCopy(t.buf, seg)
    BY <1>2, NextSegCanCopy DEF GoodSender
  <2> HIDE DEF seg
  <2> QED
    BY <1>2, <2>1, SendDataPacketKeeps
<1> QED
  BY <1>1, <1>2 DEF SendPendingData

\* DoRetransmit always sends: the timer runs afterwards.
LEMMA DoRetransmitKeeps ==
  ASSUME NEW t, GoodSender(t), t.buf.una < N, NEW r \in Rates
  PROVE  Keeps(t, DoRetransmit(t, r)) /\ DoRetransmit(t, r).rto
<1> DEFINE next == NextSeg(t.buf, FALSE)
           seg == IF next = None THEN t.buf.una ELSE next
           u == SendDataPacket(t, seg, r)
           v == DoRetransmit(t, r)
<1>1. CanCopy(t.buf, seg)
  <2>1. CASE next = None
    BY <2>1, TxBufferAssumption
       DEF GoodSender, GoodBuffer, Buffers, CanCopy, Sent
  <2>2. CASE next # None
    BY <2>2, NextSegCanCopy DEF GoodSender
  <2> QED
    BY <2>1, <2>2
<1>2. seg \in Int
  <2> HIDE DEF seg
  <2>1. seg \in 0..N-1
    BY <1>1, CopyGood DEF GoodSender
  <2> QED
    BY <2>1, TxBufferAssumption
<1>3. v = [u EXCEPT !.cc = OnPacketLost(@, seg)]
  BY DEF DoRetransmit
<1> HIDE DEF seg
<1>4. Keeps(t, u) /\ u.rto
  BY <1>1, SendDataPacketKeeps
<1> HIDE DEF u
<1>5. u.cc \in CongestionControls
  BY <1>4 DEF Keeps, GoodSender, Senders
<1>6. /\ OnPacketLost(u.cc, seg) \in CongestionControls
      /\ OnPacketLost(u.cc, seg).waitMode = u.cc.waitMode
  BY <1>2, <1>5, OnPacketLostType
<1>7. /\ v \in Senders
      /\ v.buf = u.buf /\ v.rto = u.rto /\ v.closed = u.closed
      /\ v.state = u.state /\ v.ecn = u.ecn /\ v.cc = OnPacketLost(u.cc, seg)
  BY <1>3, <1>4, <1>6 DEF Keeps, GoodSender, Senders
<1> HIDE DEF v
<1>8. Keeps(t, v) /\ v.rto
  BY <1>4, <1>6, <1>7 DEF Keeps, GoodSender, Armed, Waits
<1> QED
  BY <1>8 DEF v

-----------------------------------------------------------------------------
\* Receiving an ACK.

\* SetCongState moves the state, and the wait mode with it.
LEMMA SetCongStateGood ==
  ASSUME NEW t, GoodSender(t), NEW st \in CongStates
  PROVE  LET u == SetCongState(t, st)
         IN  /\ GoodSender(u)
             /\ u.state = st
             /\ u.cc.waitMode =
                  IF st = "CA_OPEN" THEN FALSE
                  ELSE IF st = "CA_LOSS" THEN TRUE ELSE t.cc.waitMode
             /\ u.buf = t.buf /\ u.ecn = t.ecn
             /\ u.rto = t.rto /\ u.closed = t.closed
<1> DEFINE u == SetCongState(t, st)
           c == CongestionStateSet(t.cc, st)
<1>1. t.cc \in CongestionControls /\ c \in CongestionControls
  BY CongestionStateSetType DEF GoodSender, Senders
<1>2. c.waitMode = IF st = "CA_OPEN" THEN FALSE
                   ELSE IF st = "CA_LOSS" THEN TRUE ELSE t.cc.waitMode
  BY <1>1 DEF CongestionStateSet, UpdatePacingRate, CongestionControls
<1> HIDE DEF c
<1>3. u = [t EXCEPT !.state = st, !.cc = c]
  BY DEF SetCongState, c
<1>4. /\ u \in Senders /\ u.buf = t.buf /\ u.state = st /\ u.cc = c
      /\ u.ecn = t.ecn /\ u.rto = t.rto /\ u.closed = t.closed
  BY <1>1, <1>3 DEF GoodSender, Senders
<1> HIDE DEF u
<1> QED
  BY <1>2, <1>4 DEF GoodSender, u

\* EnterRecovery, taken from CA_DISORDER.
LEMMA EnterRecoveryKeeps ==
  ASSUME NEW t, GoodSender(t), t.buf.una < N, t.state = "CA_DISORDER",
         NEW r \in Rates
  PROVE  Keeps(t, EnterRecovery(t, r))
<1> DEFINE buf == IF IsLost(t.buf, t.buf.una) THEN t.buf
                  ELSE MarkHeadAsLost(t.buf)
           c == SetCongState(t, "CA_RECOVERY")
           in == [c EXCEPT !.buf = buf, !.recover = t.buf.high,
                           !.recoverActive = TRUE]
<1>1. /\ GoodBuffer(buf) /\ buf.una = t.buf.una /\ buf.high = t.buf.high
      /\ buf.sacked = t.buf.sacked
  BY MarkHeadAsLostGood DEF GoodSender
<1>2. buf \in Buffers /\ t.buf.high \in 0..N
  BY <1>1 DEF GoodBuffer, GoodSender, Buffers
<1> HIDE DEF buf
<1>3. /\ GoodSender(c) /\ c.state = "CA_RECOVERY"
      /\ c.cc.waitMode = t.cc.waitMode
      /\ c.ecn = t.ecn /\ c.rto = t.rto /\ c.closed = t.closed
  BY SetCongStateGood DEF CongStates
<1> HIDE DEF c
<1>4. /\ in \in Senders /\ in.buf = buf /\ in.state = c.state /\ in.cc = c.cc
      /\ in.ecn = c.ecn /\ in.rto = c.rto /\ in.closed = c.closed
  BY <1>2, <1>3 DEF GoodSender, Senders
<1>5. EnterRecovery(t, r) = DoRetransmit(in, r)
  BY DEF EnterRecovery, buf, c
<1> HIDE DEF in
<1>6. Keeps(t, in)
  BY <1>1, <1>3, <1>4 DEF Keeps, GoodSender, Armed, Waits
<1>7. GoodSender(in) /\ in.buf.una < N
  BY <1>1, <1>4, <1>6 DEF Keeps
<1> QED
  BY <1>5, <1>6, <1>7, DoRetransmitKeeps, KeepsTransitive

\* DupAck.
LEMMA DupAckKeeps ==
  ASSUME NEW t, GoodSender(t), t.buf.una < N, NEW r \in Rates
  PROVE  Keeps(t, DupAck(t, r))
<1> DEFINE counted == IF t.state = "CA_RECOVERY" THEN t
                      ELSE [t EXCEPT !.dupAcks = @ + 1]
           d == IF t.state = "CA_OPEN" THEN SetCongState(counted, "CA_DISORDER")
                ELSE counted
<1>1. /\ GoodSender(counted) /\ counted.buf = t.buf /\ counted.state = t.state
      /\ counted.cc = t.cc /\ counted.ecn = t.ecn /\ counted.rto = t.rto
      /\ counted.closed = t.closed
  BY DEF GoodSender, Senders
<1> HIDE DEF counted
<1>2. Keeps(t, d)
  <2>1. CASE t.state = "CA_OPEN"
    <3> DEFINE o == SetCongState(counted, "CA_DISORDER")
    <3>1. /\ GoodSender(o) /\ o.buf = counted.buf /\ o.state = "CA_DISORDER"
          /\ o.cc.waitMode = counted.cc.waitMode /\ o.ecn = counted.ecn
          /\ o.rto = counted.rto /\ o.closed = counted.closed
      BY <1>1, SetCongStateGood DEF CongStates
    <3> HIDE DEF o
    <3>2. Keeps(t, o)
      BY <1>1, <2>1, <3>1 DEF Keeps, GoodSender, Armed, Waits
    <3> QED
      BY <2>1, <3>2 DEF o
  <2>2. CASE t.state # "CA_OPEN"
    <3>1. d = counted
      BY <2>2
    <3> HIDE DEF d
    <3> QED
      BY <1>1, <3>1 DEF Keeps, GoodSender, Armed, Waits
  <2> QED
    BY <2>1, <2>2
<1>3. \/ DupAck(t, r) = t
      \/ DupAck(t, r) = d
      \/ d.state = "CA_DISORDER" /\ DupAck(t, r) = EnterRecovery(d, r)
  BY DEF DupAck, counted
<1> HIDE DEF d
<1>4. GoodSender(d) /\ d.buf.una < N
  BY <1>2 DEF Keeps
<1>5. ASSUME d.state = "CA_DISORDER"
      PROVE  Keeps(t, EnterRecovery(d, r))
  BY <1>2, <1>4, <1>5, EnterRecoveryKeeps, KeepsTransitive
<1> QED
  BY <1>2, <1>3, <1>5, KeepsReflexive

\* Resetting the count of duplicate ACKs touches nothing else.
LEMMA ForgetDupAcksKeeps ==
  ASSUME NEW t, GoodSender(t), NEW isDupack
  PROVE  Keeps(t, ForgetDupAcks(t, isDupack))
<1>1. CASE isDupack
  BY <1>1, KeepsReflexive DEF ForgetDupAcks
<1>2. CASE ~isDupack
  <2> DEFINE u == ForgetDupAcks(t, isDupack)
  <2>1. /\ u \in Senders /\ u.buf = t.buf /\ u.state = t.state /\ u.cc = t.cc
        /\ u.ecn = t.ecn /\ u.rto = t.rto /\ u.closed = t.closed
    BY <1>2 DEF GoodSender, Senders, ForgetDupAcks
  <2> HIDE DEF u
  <2>2. Keeps(t, u)
    BY <2>1 DEF Keeps, GoodSender, Armed, Waits
  <2> QED
    BY <2>2 DEF u
<1> QED
  BY <1>1, <1>2

\* NewAck stops the timer only when everything is acknowledged.
LEMMA NewAckKeeps ==
  ASSUME NEW t, GoodSender(t), NEW resetRto \in BOOLEAN
  PROVE  Keeps(t, NewAck(t, resetRto))
<1> DEFINE u == NewAck(t, resetRto)
<1>1. /\ u.buf = t.buf /\ u.state = t.state /\ u.cc = t.cc
      /\ u.ecn = t.ecn /\ u.closed = t.closed
      /\ u.rto <=> ((t.rto \/ resetRto) /\ t.buf.una < N)
  BY DEF GoodSender, Senders, NewAck
<1>2. u \in Senders
  <2> DEFINE run == (t.rto \/ resetRto) /\ t.buf.una < N
  <2>1. run \in BOOLEAN /\ DataRetries \in 0..DataRetries
    BY SenderAssumption
  <2>2. u = [t EXCEPT !.retries = DataRetries, !.rto = run]
    BY DEF NewAck
  <2> HIDE DEF run, u
  <2> QED
    BY <2>1, <2>2 DEF GoodSender, Senders
<1>3. t.buf.una < t.buf.high => t.buf.una < N
  BY TxBufferAssumption DEF GoodSender, GoodBuffer, Buffers
<1> HIDE DEF u
<1>4. Keeps(t, u)
  BY <1>1, <1>2, <1>3 DEF Keeps, GoodSender, Armed, Waits
<1> QED
  BY <1>4 DEF u

\* PartialAck: below the recovery point something is left to retransmit.
LEMMA PartialAckKeeps ==
  ASSUME NEW t, GoodSender(t), BelowRecover(t), NEW r \in Rates
  PROVE  Keeps(t, PartialAck(t, r))
<1> DEFINE again == IF IsRetransmittedDataAcked(t.buf, t.buf.una)
                    THEN t ELSE DoRetransmit(t, r)
           n == NewAck(again, t.firstPartial)
           u == [n EXCEPT !.firstPartial = FALSE]
<1>1. t.buf.una < N /\ t.firstPartial \in BOOLEAN
  BY TxBufferAssumption
     DEF BelowRecover, GoodSender, GoodBuffer, Buffers, Senders
<1>2. Keeps(t, again)
  BY <1>1, DoRetransmitKeeps, KeepsReflexive
<1> HIDE DEF again
<1>3. Keeps(t, n)
  BY <1>1, <1>2, NewAckKeeps, KeepsTransitive DEF Keeps
<1>4. u = PartialAck(t, r)
  BY DEF PartialAck, again
<1> HIDE DEF n
<1>5. /\ u \in Senders /\ u.buf = n.buf /\ u.state = n.state /\ u.cc = n.cc
      /\ u.ecn = n.ecn /\ u.rto = n.rto /\ u.closed = n.closed
  BY <1>3 DEF Keeps, GoodSender, Senders
<1> HIDE DEF u
<1>6. Keeps(t, u)
  BY <1>3, <1>5 DEF Keeps, GoodSender, Armed, Waits
<1> QED
  BY <1>4, <1>6

\* FullAck.
LEMMA FullAckKeeps ==
  ASSUME NEW t, GoodSender(t), NEW isDupack \in BOOLEAN
  PROVE  Keeps(t, FullAck(t, isDupack))
<1> DEFINE o == SetCongState(t, "CA_OPEN")
           back == CASE t.state = "CA_DISORDER" /\ ~isDupack -> o
                     [] t.state = "CA_RECOVERY" ->
                          [o EXCEPT !.firstPartial = TRUE, !.dupAcks = 0]
                     [] t.state = "CA_LOSS" ->
                          [o EXCEPT !.firstPartial = TRUE]
                     [] OTHER -> t
           active == back.recoverActive /\ BelowRecover(t)
           done == [back EXCEPT !.recoverActive = active]
<1>1. /\ GoodSender(o) /\ o.buf = t.buf /\ o.state = "CA_OPEN"
      /\ o.cc.waitMode = FALSE
      /\ o.ecn = t.ecn /\ o.rto = t.rto /\ o.closed = t.closed
  BY SetCongStateGood DEF CongStates
<1>2. \/ back = o
      \/ back = [o EXCEPT !.firstPartial = TRUE, !.dupAcks = 0]
      \/ back = [o EXCEPT !.firstPartial = TRUE]
      \/ back = t
  <2> HIDE DEF o
  <2> QED
    BY Zenon
<1>3. FullAck(t, isDupack) = IF done.state = "CA_OPEN"
                             THEN NewAck(done, TRUE) ELSE done
  BY DEF FullAck
<1> HIDE DEF o
<1>4. Keeps(t, o)
  BY <1>1 DEF Keeps, GoodSender, Armed, Waits
<1> HIDE DEF back
<1>5. Keeps(t, back)
  <2>1. ASSUME /\ back \in Senders /\ back.buf = o.buf /\ back.state = o.state
               /\ back.cc = o.cc /\ back.ecn = o.ecn /\ back.rto = o.rto
               /\ back.closed = o.closed
        PROVE  Keeps(t, back)
    BY <1>4, <2>1 DEF Keeps, GoodSender, Armed, Waits
  <2>2. CASE back = [o EXCEPT !.firstPartial = TRUE, !.dupAcks = 0]
    BY <1>1, <2>1, <2>2 DEF GoodSender, Senders
  <2>3. CASE back = [o EXCEPT !.firstPartial = TRUE]
    BY <1>1, <2>1, <2>3 DEF GoodSender, Senders
  <2> QED
    BY <1>2, <1>4, <2>2, <2>3, KeepsReflexive
<1>6. active \in BOOLEAN
  <2>1. back.recoverActive \in BOOLEAN
    BY <1>5 DEF Keeps, GoodSender, Senders
  <2> QED
    BY <2>1
<1> HIDE DEF active
<1>7. /\ done \in Senders /\ done.buf = back.buf /\ done.state = back.state
      /\ done.cc = back.cc /\ done.ecn = back.ecn /\ done.rto = back.rto
      /\ done.closed = back.closed
  BY <1>5, <1>6 DEF Keeps, GoodSender, Senders
<1> HIDE DEF done
<1>8. Keeps(t, done)
  BY <1>5, <1>7 DEF Keeps, GoodSender, Armed, Waits
<1>9. Keeps(t, NewAck(done, TRUE))
  BY <1>8, NewAckKeeps, KeepsTransitive DEF Keeps
<1> QED
  BY <1>3, <1>8, <1>9

\* ProcessAck.  Only a scoreboard with a segment above the head makes an ACK a
\* duplicate: then there is data left to retransmit.
LEMMA ProcessAckKeeps ==
  ASSUME NEW t, GoodSender(t), NEW oldHead, NEW isDupack \in BOOLEAN,
         isDupack => t.buf.una < N, NEW r \in Rates
  PROVE  Keeps(t, ProcessAck(t, oldHead, isDupack, r))
<1> DEFINE d == IF isDupack THEN DupAck(t, r) ELSE t
           e == ForgetDupAcks(d, isDupack)
<1>1. Keeps(t, d)
  BY DupAckKeeps, KeepsReflexive
<1>2. \/ ProcessAck(t, oldHead, isDupack, r) = d
      \/ /\ BelowRecover(e)
         /\ ProcessAck(t, oldHead, isDupack, r) = PartialAck(e, r)
      \/ ProcessAck(t, oldHead, isDupack, r) = NewAck(e, TRUE)
      \/ ProcessAck(t, oldHead, isDupack, r) = FullAck(e, isDupack)
  BY DEF ProcessAck
<1> HIDE DEF d
<1>3. Keeps(t, e) /\ GoodSender(e)
  BY <1>1, ForgetDupAcksKeeps, KeepsTransitive DEF Keeps
<1> HIDE DEF e
<1>4. BelowRecover(e) => Keeps(t, PartialAck(e, r))
  BY <1>3, PartialAckKeeps, KeepsTransitive
<1>5. Keeps(t, NewAck(e, TRUE)) /\ Keeps(t, FullAck(e, isDupack))
  BY <1>3, NewAckKeeps, FullAckKeeps, KeepsTransitive
<1> QED
  BY <1>1, <1>2, <1>4, <1>5

\* ProcessEce changes the state only when ECN is in use.
LEMMA ProcessEceKeeps ==
  ASSUME NEW t, GoodSender(t), NEW oldHead, NEW ece \in BOOLEAN
  PROVE  Keeps(t, ProcessEce(t, oldHead, ece))
<1> DEFINE heard == [t EXCEPT !.echo = t.buf.una, !.ecn = "ECN_ECE_RCVD"]
           u == ProcessEce(t, oldHead, ece)
<1>1. t.buf.una \in 0..N /\ t.buf.high \in 0..N
  BY DEF GoodSender, GoodBuffer, Buffers
<1>2. CASE u = t
  BY <1>2, KeepsReflexive
<1>3. CASE t.ecn # "ECN_DISABLED" /\ (u = heard \/ u = EnterCwr(heard))
  <2>1. /\ u \in Senders /\ u.buf = t.buf
        /\ u.rto = t.rto /\ u.closed = t.closed
    BY <1>1, <1>3
       DEF GoodSender, Senders, EnterCwr, CongStates, EcnStates
  <2> HIDE DEF u
  <2>2. Keeps(t, u)
    BY <1>3, <2>1 DEF Keeps, GoodSender, Armed, Waits
  <2> QED
    BY <2>2 DEF u
<1>4. CASE t.ecn = "ECN_ECE_RCVD" /\ u = [t EXCEPT !.ecn = "ECN_IDLE"]
  <2>1. /\ u \in Senders /\ u.buf = t.buf
        /\ u.rto = t.rto /\ u.closed = t.closed
    BY <1>4 DEF GoodSender, Senders, EcnStates
  <2> HIDE DEF u
  <2>2. Keeps(t, u)
    BY <1>4, <2>1 DEF Keeps, GoodSender, Armed, Waits
  <2> QED
    BY <2>2 DEF u
<1> QED
  BY <1>2, <1>3, <1>4 DEF ProcessEce

\* The way out of CA_CWR leaves buffer, timers and wait mode alone.
LEMMA LeaveCwrKeeps ==
  ASSUME NEW t, GoodSender(t), NEW ack
  PROVE  Keeps(t, LeaveCwr(t, ack))
<1>1. CASE t.state = "CA_CWR" /\ ack > t.recover
  <2> DEFINE u == LeaveCwr(t, ack)
  <2>1. /\ u \in Senders /\ u.buf = t.buf /\ u.rto = t.rto
        /\ u.closed = t.closed
    BY <1>1 DEF GoodSender, Senders, LeaveCwr, CongStates
  <2> HIDE DEF u
  <2>2. Keeps(t, u)
    BY <1>1, <2>1 DEF Keeps, GoodSender, Armed, Waits
  <2> QED
    BY <2>2 DEF u
<1>2. CASE ~(t.state = "CA_CWR" /\ ack > t.recover)
  BY <1>2, KeepsReflexive DEF LeaveCwr
<1> QED
  BY <1>1, <1>2

\* The number of segments newly delivered is a natural number.
LEMMA NewlyDeliveredType ==
  ASSUME NEW b, GoodBuffer(b), NEW a
  PROVE  NewlyDelivered(b, a) \in Nat
<1> DEFINE D == (Sent(b) \cap (0..a.ack-1 \cup a.sack)) \ b.sacked
<1>1. IsFiniteSet(Sent(b))
  <2>1. b.una \in Int /\ b.high - 1 \in Int
    BY TxBufferAssumption DEF GoodBuffer, Buffers
  <2> QED
    BY <2>1, FS_Interval, Zenon DEF Sent
<1>2. D \subseteq Sent(b)
  OBVIOUS
<1> HIDE DEF D
<1>3. Cardinality(D) \in Nat
  BY <1>1, <1>2, FS_Subset, FS_CardinalityType
<1> QED
  BY <1>3 DEF NewlyDelivered, D

\* An ACK that reports on segments above the one it waits for, and waits for one
\* that is not SACKed.
CanProcess(t, a) ==
  /\ a \in Acks
  /\ t.buf.una <= a.ack
  /\ a.ack \notin t.buf.sacked
  /\ a.sack \subseteq a.ack + 1 .. N - 1

\* The whole of ReceivedAck.
LEMMA AckProcessedGood ==
  ASSUME NEW t, GoodSender(t), Armed(t), Waits(t), NEW a, CanProcess(t, a),
         NEW ece \in BOOLEAN, NEW r \in Rates
  PROVE  LET u == AckProcessed(t, a, ece, r)
         IN  /\ GoodSender(u) /\ Armed(u) /\ Waits(u)
             /\ u.buf.una = a.ack
             /\ u.buf.sacked =
                  (t.buf.sacked \cup (a.sack \cap Sent(t.buf))) \ 0..a.ack-1
<1> DEFINE oldHead  == t.buf.una
           updated  == Update(t.buf, a.sack)
           isDupack == updated.sacked # t.buf.sacked
           buf      == DiscardUpTo(updated, a.ack)
           acked    == [t EXCEPT !.buf = buf]
           e        == ProcessEce(LeaveCwr(acked, a.ack), oldHead, ece)
           p        == ProcessAck(e, oldHead, isDupack, r)
           q        == [p EXCEPT !.cc =
                          CongControl(@, a.ack, NewlyDelivered(t.buf, a))]
           u        == SendPendingData(q, r)
           sacked   == t.buf.sacked \cup (a.sack \cap Sent(t.buf))
<1>1. /\ a.ack \in 0..N /\ t.buf.una \in 0..N /\ t.buf.high \in 0..N
      /\ N \in Nat
  BY TxBufferAssumption
     DEF CanProcess, Acks, GoodSender, GoodBuffer, Buffers
<1>2. /\ GoodBuffer(updated) /\ updated.una = t.buf.una
      /\ updated.high = t.buf.high /\ updated.sacked = sacked
  <2>1. t.buf.una \notin a.sack
    BY <1>1 DEF CanProcess
  <2> QED
    BY <2>1, UpdateGood DEF GoodSender
<1>3. isDupack => a.ack < N
  <2> SUFFICES ASSUME isDupack
               PROVE  a.ack < N
    OBVIOUS
  <2>1. PICK i \in a.sack : TRUE
    BY <1>2
  <2>2. i \in a.ack + 1 .. N - 1
    BY <2>1 DEF CanProcess
  <2> QED
    BY <1>1, <2>2
<1>4. isDupack \in BOOLEAN
  OBVIOUS
<1> HIDE DEF updated, isDupack
<1>5. /\ GoodBuffer(buf) /\ buf.una = a.ack
      /\ buf.high = IF a.ack > t.buf.high THEN a.ack ELSE t.buf.high
      /\ buf.sacked = sacked \ 0..a.ack-1
  <2>1. a.ack \notin sacked
    BY <1>1 DEF CanProcess
  <2> QED
    BY <1>1, <1>2, <2>1, DiscardUpToGood DEF CanProcess
<1> HIDE DEF buf, sacked
<1>6. /\ acked \in Senders /\ acked.buf = buf /\ acked.rto = t.rto
      /\ acked.closed = t.closed /\ acked.state = t.state
      /\ acked.cc = t.cc /\ acked.ecn = t.ecn
  BY <1>5 DEF GoodBuffer, GoodSender, Senders
<1> HIDE DEF acked
<1>7. GoodSender(acked) /\ Armed(acked) /\ Waits(acked)
  <2>1. buf.una < buf.high => t.buf.una < t.buf.high
    BY <1>1, <1>5 DEF CanProcess
  <2> QED
    BY <1>5, <1>6, <2>1 DEF GoodSender, Armed, Waits
<1>8. Keeps(acked, e) /\ GoodSender(e)
  BY <1>7, LeaveCwrKeeps, ProcessEceKeeps, KeepsTransitive DEF Keeps
<1> HIDE DEF e
<1>9. Keeps(acked, p)
  <2>1. isDupack => e.buf.una < N
    BY <1>3, <1>5, <1>6, <1>8 DEF Keeps
  <2> QED
    BY <1>4, <1>8, <2>1, ProcessAckKeeps, KeepsTransitive
<1> HIDE DEF p
<1>10. Keeps(acked, q)
  <2> DEFINE c == CongControl(p.cc, a.ack, NewlyDelivered(t.buf, a))
  <2>1. p.cc \in CongestionControls
    BY <1>9 DEF Keeps, GoodSender, Senders
  <2>2. NewlyDelivered(t.buf, a) \in Int /\ a.ack \in Int
    BY <1>1, NewlyDeliveredType DEF GoodSender
  <2>3. c \in CongestionControls /\ c.waitMode = p.cc.waitMode
    BY <2>1, <2>2, CongControlType
  <2> HIDE DEF c
  <2>4. q = [p EXCEPT !.cc = c]
    BY DEF c
  <2>5. /\ q \in Senders /\ q.buf = p.buf /\ q.rto = p.rto
        /\ q.closed = p.closed /\ q.state = p.state
        /\ q.cc = c /\ q.ecn = p.ecn
    BY <1>9, <2>3, <2>4 DEF Keeps, GoodSender, Senders
  <2> HIDE DEF q
  <2> QED
    BY <1>9, <2>3, <2>5 DEF Keeps, GoodSender, Armed, Waits
<1> HIDE DEF q
<1>11. Keeps(acked, u)
  BY <1>10, SendPendingDataKeeps, KeepsTransitive DEF Keeps
<1>12. u = AckProcessed(t, a, ece, r)
  BY DEF AckProcessed, q, p, e, acked, buf, isDupack, updated
<1> HIDE DEF u
<1>13. /\ GoodSender(u) /\ Armed(u) /\ Waits(u)
       /\ u.buf.una = a.ack /\ u.buf.sacked = sacked \ 0..a.ack-1
  BY <1>5, <1>6, <1>7, <1>11 DEF Keeps
<1> QED
  BY <1>12, <1>13 DEF sacked

-----------------------------------------------------------------------------
\* The whole of ReTxTimeout.  It stops the timer; that the timer runs again when
\* data is outstanding is because SendPendingData then has a segment to send.
LEMMA TimedOutGood ==
  ASSUME NEW t, GoodSender(t), Waits(t), NEW r \in Rates
  PROVE  LET u == TimedOut(t, r)
         IN  /\ GoodSender(u) /\ Armed(u) /\ Waits(u)
             /\ u.buf.una = t.buf.una
             /\ u.buf.sacked = t.buf.sacked
<1>1. CASE t.buf.una = N
  <2> DEFINE u == [t EXCEPT !.rto = FALSE]
  <2>1. /\ u \in Senders /\ u.buf = t.buf /\ u.state = t.state
        /\ u.cc = t.cc /\ u.ecn = t.ecn
    BY DEF GoodSender, Senders
  <2>2. ~(t.buf.una < t.buf.high)
    BY <1>1, TxBufferAssumption DEF GoodSender, GoodBuffer, Buffers
  <2> HIDE DEF u
  <2>3. GoodSender(u) /\ Armed(u) /\ Waits(u)
    BY <2>1, <2>2 DEF GoodSender, Armed, Waits
  <2> QED
    BY <1>1, <2>1, <2>3 DEF TimedOut, u
<1>2. CASE t.buf.una # N /\ t.retries = 0
  <2> DEFINE u == [t EXCEPT !.closed = TRUE, !.rto = FALSE, !.pacing = FALSE]
  <2>1. /\ u \in Senders /\ u.buf = t.buf /\ u.state = t.state
        /\ u.cc = t.cc /\ u.ecn = t.ecn /\ u.closed = TRUE
    BY DEF GoodSender, Senders
  <2> HIDE DEF u
  <2>2. GoodSender(u) /\ Armed(u) /\ Waits(u)
    BY <2>1 DEF GoodSender, Armed, Waits
  <2> QED
    BY <1>2, <2>1, <2>2 DEF TimedOut, u
<1>3. CASE t.buf.una # N /\ t.retries # 0
  <2> DEFINE o == SetCongState(t, "CA_LOSS")
             lossy == [o EXCEPT
                         !.buf = SetSentListLost(@), !.retries = @ - 1,
                         !.dupAcks = 0, !.recover = t.buf.high,
                         !.recoverActive = TRUE, !.cc.cwnd = 1,
                         !.pacing = FALSE, !.rto = FALSE]
             u == SendPendingData(lossy, r)
  <2>1. /\ GoodSender(o) /\ o.buf = t.buf /\ o.state = "CA_LOSS"
        /\ o.cc.waitMode = TRUE /\ o.ecn = t.ecn /\ o.closed = t.closed
        /\ o.retries = t.retries
    <3>1. o.retries = t.retries
      BY DEF SetCongState, GoodSender, Senders
    <3> QED
      BY <3>1, SetCongStateGood DEF CongStates
  <2>2. TimedOut(t, r) = u
    BY <1>3 DEF TimedOut
  <2> HIDE DEF o
  <2> DEFINE buf == SetSentListLost(o.buf)
             c == [o.cc EXCEPT !.cwnd = 1]
  <2>3. /\ GoodBuffer(buf) /\ buf.una = t.buf.una /\ buf.high = t.buf.high
        /\ buf.sacked = t.buf.sacked /\ InFlight(buf) = 0
        /\ t.buf.una < t.buf.high => NextSeg(buf, FALSE) # None
    <3>1. GoodBuffer(o.buf) /\ o.buf = t.buf
      BY <2>1 DEF GoodSender
    <3> HIDE DEF lossy, u, c
    <3>2. /\ GoodBuffer(buf) /\ buf.una = t.buf.una /\ buf.high = t.buf.high
          /\ buf.sacked = t.buf.sacked
      BY <3>1, SetSentListLostGood
    <3>3. /\ InFlight(buf) = 0
          /\ t.buf.una < t.buf.high => NextSeg(buf, FALSE) # None
      BY <3>1, TimeoutHasSegment
    <3> HIDE DEF buf
    <3> QED
      BY <3>2, <3>3
  <2>4. c \in CongestionControls /\ c.waitMode = TRUE /\ c.cwnd = 1
    BY <2>1 DEF GoodSender, Senders, CongestionControls
  <2>5. lossy = [o EXCEPT
                   !.buf = buf, !.retries = @ - 1, !.dupAcks = 0,
                   !.recover = t.buf.high, !.recoverActive = TRUE,
                   !.cc = c, !.pacing = FALSE, !.rto = FALSE]
    BY <2>1 DEF GoodSender, Senders
  <2> HIDE DEF buf, c, lossy
  <2>6. /\ t.retries - 1 \in 0..DataRetries /\ t.buf.high \in 0..N
        /\ buf \in Buffers
    <3>1. t.retries \in 0..DataRetries /\ t.retries # 0
      BY <1>3 DEF GoodSender, Senders
    <3>2. \A n \in 0..DataRetries : n # 0 => n - 1 \in 0..DataRetries
      BY SenderAssumption
    <3>3. t.buf.high \in 0..N
      <4>1. GoodBuffer(t.buf)
        BY DEF GoodSender
      <4> QED
        BY <4>1 DEF GoodBuffer, Buffers
    <3>4. buf \in Buffers
      BY <2>3 DEF GoodBuffer
    <3> QED
      BY <3>1, <3>2, <3>3, <3>4
  <2>7. /\ lossy \in Senders /\ lossy.buf = buf /\ lossy.state = "CA_LOSS"
        /\ lossy.cc = c /\ lossy.ecn = t.ecn /\ lossy.closed = t.closed
        /\ ~lossy.pacing
    BY <2>1, <2>4, <2>5, <2>6 DEF GoodSender, Senders
  <2>8. GoodSender(lossy) /\ Waits(lossy)
    BY <2>1, <2>3, <2>4, <2>7 DEF GoodSender, Waits
  <2>9. Keeps(lossy, u)
    BY <2>8, SendPendingDataKeeps
  <2>10. ASSUME t.buf.una < t.buf.high, ~t.closed
         PROVE  u.rto
    <3> DEFINE seg == NextSeg(lossy.buf, lossy.state = "CA_RECOVERY")
    <3>1. seg = NextSeg(buf, FALSE) /\ seg # None
      <4>1. (lossy.state = "CA_RECOVERY") = FALSE
        BY <2>7
      <4> QED
        BY <2>3, <2>7, <2>10, <4>1
    <3>2. /\ lossy.buf.una < N /\ ~lossy.closed /\ ~lossy.pacing
          /\ InFlight(lossy.buf) < lossy.cc.cwnd
      BY <2>3, <2>4, <2>6, <2>7, <2>10, TxBufferAssumption
         DEF GoodSender, GoodBuffer, Buffers
    <3>3. u = SendDataPacket(lossy, seg, r)
      BY <3>1, <3>2 DEF SendPendingData
    <3>4. CanCopy(lossy.buf, seg)
      BY <2>8, <3>1, NextSegCanCopy DEF GoodSender
    <3> QED
      BY <2>8, <3>3, <3>4, SendDataPacketKeeps
  <2> HIDE DEF u
  <2>11. Armed(u)
    <3>1. CASE t.buf.una < t.buf.high /\ ~t.closed
      BY <2>10, <3>1 DEF Armed
    <3>2. CASE ~(t.buf.una < t.buf.high /\ ~t.closed)
      BY <2>3, <2>7, <2>9, <3>2 DEF Armed, Keeps
    <3> QED
      BY <3>1, <3>2
  <2> QED
    BY <2>2, <2>3, <2>7, <2>8, <2>9, <2>11 DEF Keeps
<1> QED
  BY <1>1, <1>2, <1>3

-----------------------------------------------------------------------------
\* The system.

\* The inductive invariant: the types, the scoreboard, what the receiver and the
\* ACKs on their way say about it, the timer, the wait mode.
IInv ==
  /\ TypeOK
  /\ GoodBuffer(s.buf)
  /\ KnowledgeGrows
  /\ Armed(s)
  /\ Waits(s)

\* Knowledge is ordered.
LEMMA BehindTransitive ==
  ASSUME NEW v, NEW w, NEW x, v.ack \in Int, w.ack \in Int, x.ack \in Int,
         Behind(v, w), Behind(w, x)
  PROVE  Behind(v, x)
<1>1. 0..w.ack-1 \subseteq 0..x.ack-1
  BY DEF Behind
<1> QED
  BY <1>1 DEF Behind

\* What is told where the receiver is known to stand is upheld there.
LEMMA BehindUpholds ==
  ASSUME NEW v, NEW w, v.ack \in Int, w.ack \in Int, Behind(v, w), Sound(w), NEW R
  PROVE  Upholds(v, [ack |-> w.ack, sack |-> R])
<1>1. v.ack <= w.ack /\ w.ack \notin 0..w.ack-1 \cup w.sack
  BY DEF Behind, Sound
<1> QED
  BY <1>1 DEF Behind, Upholds

\* The connection starts in the invariant.
LEMMA InitIInv == Init => IInv
<1> SUFFICES ASSUME Init
             PROVE  IInv
  OBVIOUS
<1>1. EmptyBuffer \in Buffers /\ GoodBuffer(EmptyBuffer)
  BY EmptyBufferGood DEF GoodBuffer
<1>2. InitialCC \in CongestionControls /\ InitialCC.waitMode = FALSE
  BY InitialCCType DEF InitialCC
<1>3. /\ s.buf = EmptyBuffer /\ s.cc = InitialCC /\ s.state = "CA_OPEN"
      /\ s.ecn = IF EcnEnabled THEN "ECN_IDLE" ELSE "ECN_DISABLED"
  BY DEF Init
<1>4. s \in Senders
  BY <1>1, <1>2, TxBufferAssumption, SenderAssumption
     DEF Init, Senders, CongStates, EcnStates
<1>5. TypeOK
  BY <1>4, TxBufferAssumption, SenderAssumption
     DEF Init, TypeOK, Receivers
<1>6. KnowledgeGrows
  BY <1>3, TxBufferAssumption
     DEF Init, KnowledgeGrows, Sound, Behind, Upholds, Received, Board, EmptyBuffer
<1>7. Armed(s) /\ Waits(s)
  BY <1>2, <1>3, TxBufferAssumption DEF Armed, Waits, EmptyBuffer
<1> QED
  BY <1>1, <1>3, <1>5, <1>6, <1>7 DEF IInv

\* The start of a handler.
LEMMA BeginKeeps ==
  ASSUME NEW t, GoodSender(t)
  PROVE  Keeps(t, Begin(t)) /\ Len(Begin(t).cc.queue) = Len(t.cc.queue)
<1> DEFINE c == [t.cc EXCEPT !.calls = <<>>, !.queue = Aged(@)]
           u == Begin(t)
<1>1. /\ c \in CongestionControls /\ c.waitMode = t.cc.waitMode
      /\ Len(c.queue) = Len(t.cc.queue)
  <2>1. t.cc \in CongestionControls
    BY DEF GoodSender, Senders
  <2>2. <<>> \in Seq(Calls)
    OBVIOUS
  <2>3. /\ t.cc.queue \in Seq(Intervals) /\ Aged(t.cc.queue) \in Seq(Intervals)
        /\ Len(Aged(t.cc.queue)) = Len(t.cc.queue)
    BY <2>1, AgedType DEF CongestionControls
  <2> QED
    BY <2>1, <2>2, <2>3 DEF CongestionControls
<1>2. u = [t EXCEPT !.tx = <<>>, !.cc = c]
  BY DEF Begin, GoodSender, Senders, CongestionControls
<1> HIDE DEF c, u
<1>3. /\ u \in Senders /\ u.buf = t.buf /\ u.rto = t.rto /\ u.cc = c
      /\ u.closed = t.closed /\ u.state = t.state /\ u.ecn = t.ecn
  <2>1. <<>> \in Seq(Segments)
    OBVIOUS
  <2> QED
    BY <1>1, <1>2, <2>1 DEF GoodSender, Senders
<1>4. Keeps(t, u) /\ Len(u.cc.queue) = Len(t.cc.queue)
  BY <1>1, <1>3 DEF Keeps, GoodSender, Armed, Waits
<1> QED
  BY <1>4 DEF u

\* A handler that leaves the cumulative ACK and the SACKed segments alone.
LEMMA SenderStep ==
  ASSUME IInv, GoodSender(s'), Armed(s'), Waits(s'), Board' = Board,
         Transmit, UNCHANGED <<rcv, acks, drops>>
  PROVE  IInv'
<1>1. data' \in Seq(Segments)
  <2>1. data \in Seq(Segments) /\ s'.tx \in Seq(Segments)
    BY DEF IInv, TypeOK, GoodSender, Senders
  <2> QED
    BY <2>1 DEF Transmit
<1>2. TypeOK'
  BY <1>1 DEF IInv, TypeOK, GoodSender
<1>3. KnowledgeGrows'
  <2>1. Received' = Received
    BY DEF Received
  <2> QED
    BY <2>1 DEF IInv, KnowledgeGrows, Sound, Behind, Upholds
<1> QED
  BY <1>2, <1>3 DEF IInv, GoodSender, Armed, Waits

\* An ACK reports blocks of the list, the one just stored among them.
LEMMA SendAckIs ==
  ASSUME NEW stored, SendAck(stored)
  PROVE  \E R \in SUBSET rcv'.listed :
           /\ stored \subseteq R
           /\ acks' = Append(acks, [ack |-> rcv'.nxt, sack |-> R])
<1>1. PICK R \in SackOption(rcv'.listed, stored) :
             acks' = Append(acks, [ack |-> rcv'.nxt, sack |-> R])
  BY DEF SendAck
<1>2. stored \subseteq R
  BY DEF SackOption
<1>3. PICK P \in SUBSET Blocks(rcv'.listed) : R = UNION P
  BY DEF SackOption, kSubset
<1>4. \A B \in Blocks(rcv'.listed) : B \subseteq rcv'.listed
  BY DEF Blocks, Block
<1>5. R \subseteq rcv'.listed
  BY <1>3, <1>4
<1> QED
  BY <1>1, <1>2, <1>5

\* A step of the receiver that forgets nothing but blocks of its list and sends at most
\* one ACK.
LEMMA ReceiverStep ==
  ASSUME IInv, rcv' \in Receivers, Sound(Received)', Behind(Received, Received'),
         rcv'.listed \subseteq rcv'.ooo,
         acks' = acks \/ \E stored : SendAck(stored),
         data' \in Seq(Segments), UNCHANGED <<s, drops>>
  PROVE  IInv'
<1>1. /\ acks \in Seq(Acks) /\ rcv \in Receivers /\ s.buf \in Buffers
  BY DEF IInv, TypeOK, Senders
<1>2. /\ Received' \in Acks /\ Received'.ack = rcv'.nxt /\ Received'.sack = rcv'.ooo
      /\ Sound(Received')
  BY DEF Receivers, Acks, Received, Sound
<1>3. PICK a : /\ a \in Acks /\ a.ack = Received'.ack /\ a.sack \subseteq Received'.sack
               /\ a = [ack |-> Received'.ack, sack |-> a.sack]
               /\ acks' = acks \/ acks' = Append(acks, a)
  <2>1. CASE acks' = acks
    BY <1>2, <2>1 DEF Received
  <2>2. CASE \E stored : SendAck(stored)
    <3>1. PICK R \in SUBSET rcv'.listed :
                 acks' = Append(acks, [ack |-> rcv'.nxt, sack |-> R])
      BY <2>2, SendAckIs
    <3>2. [ack |-> rcv'.nxt, sack |-> R] \in Acks /\ R \subseteq rcv'.ooo
      BY <3>1 DEF Receivers, Acks
    <3> QED
      BY <1>2, <3>1, <3>2
  <2> QED
    BY <2>1, <2>2
<1>4. TypeOK'
  <2>1. acks' \in Seq(Acks)
    BY <1>1, <1>3
  <2> QED
    BY <2>1 DEF IInv, TypeOK
<1>5. Board' = Board
  BY DEF Board
<1>6. /\ Board.ack \in Int /\ Received.ack \in Int /\ Received'.ack \in Int
      /\ \A i \in DOMAIN acks : acks[i].ack \in Int
  <2>1. \A k \in Acks : k.ack \in Int
    BY TxBufferAssumption DEF Acks
  <2> QED
    BY <1>1, <1>2, <2>1, TxBufferAssumption
       DEF Board, Received, Receivers, Buffers
<1>7. Behind(Board, Received')
  BY <1>6, BehindTransitive DEF IInv, KnowledgeGrows
<1>8. \A i \in DOMAIN acks : Behind(acks[i], Received')
  BY <1>6, BehindTransitive DEF IInv, KnowledgeGrows
<1>9. /\ Upholds(Board, a)
      /\ \A i \in DOMAIN acks : Upholds(acks[i], a)
  BY <1>2, <1>3, <1>6, <1>7, <1>8, BehindUpholds
<1>10. Sound(a) /\ Behind(a, Received')
  BY <1>2, <1>3, <1>6 DEF Sound, Behind
<1>11. KnowledgeGrows'
  <2>1. CASE acks' = acks
    BY <1>5, <1>7, <1>8, <2>1 DEF IInv, KnowledgeGrows, Sound, Behind, Upholds
  <2>2. CASE acks' = Append(acks, a)
    <3>1. /\ DOMAIN acks' = 1..Len(acks) + 1 /\ Len(acks') = Len(acks) + 1
          /\ \A i \in DOMAIN acks : acks'[i] = acks[i]
          /\ acks'[Len(acks) + 1] = a
          /\ DOMAIN acks = 1..Len(acks) /\ Len(acks) \in Nat
      BY <1>1, <1>3, <2>2
    <3>2. ASSUME NEW i \in DOMAIN acks'
          PROVE  /\ Sound(acks'[i])
                 /\ Upholds(Board, acks'[i])
                 /\ Behind(acks'[i], Received')
                 /\ \A j \in i+1 .. Len(acks') : Upholds(acks'[i], acks'[j])
      <4>1. CASE i \in DOMAIN acks
        <5>1. /\ Sound(acks[i]) /\ Upholds(Board, acks[i])
              /\ \A j \in i+1 .. Len(acks) : Upholds(acks[i], acks[j])
          BY <4>1 DEF IInv, KnowledgeGrows
        <5>2. ASSUME NEW j \in i+1 .. Len(acks')
              PROVE  Upholds(acks'[i], acks'[j])
          <6>1. CASE j \in i+1 .. Len(acks)
            BY <3>1, <4>1, <5>1, <6>1
          <6>2. CASE j = Len(acks) + 1
            BY <1>9, <3>1, <4>1, <6>2
          <6> QED
            BY <3>1, <4>1, <5>2, <6>1, <6>2
        <5> QED
          BY <1>8, <3>1, <4>1, <5>1, <5>2
      <4>2. CASE i = Len(acks) + 1
        <5>1. i+1 .. Len(acks') = {}
          BY <3>1, <4>2
        <5> QED
          BY <1>9, <1>10, <3>1, <4>2, <5>1
      <4> QED
        BY <3>1, <3>2, <4>1, <4>2
    <3> QED
      BY <1>5, <1>7, <3>2 DEF KnowledgeGrows, Sound, Behind, Upholds
  <2> QED
    BY <1>3, <2>1, <2>2
<1> QED
  BY <1>4, <1>11 DEF IInv, Armed, Waits

-----------------------------------------------------------------------------
\* The actions.

\* The oldest ACK in flight is one the sender can process: the invariant says so.
LEMMA AckPresent ==
  ASSUME IInv, acks # <<>>
  PROVE  /\ Head(acks) = acks[1] /\ 1 \in DOMAIN acks
         /\ CanProcess(Begin(s), Head(acks))
<1>1. /\ acks \in Seq(Acks) /\ Head(acks) = acks[1] /\ 1 \in DOMAIN acks
      /\ acks[1] \in Acks
  BY DEF IInv, TypeOK
<1>2. Sound(acks[1]) /\ Upholds(Board, acks[1])
  BY <1>1 DEF IInv, KnowledgeGrows
<1>3. Begin(s).buf.una = s.buf.una /\ Begin(s).buf.sacked = s.buf.sacked
  BY BeginKeeps DEF Keeps, IInv, GoodSender, TypeOK
<1>4. acks[1].ack \in Nat
  BY <1>1, TxBufferAssumption DEF Acks
<1> QED
  BY <1>1, <1>2, <1>3, <1>4 DEF CanProcess, Sound, Upholds, Board

\* ReceivedAck preserves the invariant.
LEMMA ReceivedAckStep ==
  ASSUME IInv, ReceivedAck
  PROVE  IInv'
<1> DEFINE b == Begin(s)
           a == Head(acks)
<1>1. PICK r \in Rates, ece \in BOOLEAN : s' = AckProcessed(b, a, ece, r)
  BY SenderAssumption DEF ReceivedAck
<1>2. /\ a = acks[1] /\ 1 \in DOMAIN acks /\ CanProcess(b, a)
      /\ acks' = Tail(acks) /\ rcv' = rcv /\ drops' = drops
  BY AckPresent DEF ReceivedAck
<1>3. GoodSender(s) /\ Armed(s) /\ Waits(s)
  BY DEF IInv, TypeOK, GoodSender
<1>4. /\ GoodSender(b) /\ Armed(b) /\ Waits(b)
      /\ b.buf.una = s.buf.una /\ b.buf.sacked = s.buf.sacked
  BY <1>3, BeginKeeps DEF Keeps
<1> HIDE DEF a, b
<1>5. /\ GoodSender(s') /\ Armed(s') /\ Waits(s')
      /\ s'.buf.una = a.ack
      /\ s'.buf.sacked = (b.buf.sacked \cup (a.sack \cap Sent(b.buf))) \ 0..a.ack-1
  BY <1>1, <1>2, <1>4, AckProcessedGood
<1>6. data' \in Seq(Segments) /\ Tail(acks) \in Seq(Acks)
  <2>1. data \in Seq(Segments) /\ s'.tx \in Seq(Segments) /\ acks \in Seq(Acks)
    BY <1>5 DEF IInv, TypeOK, GoodSender, Senders
  <2>2. acks # <<>>
    BY <1>2
  <2> QED
    BY <2>1, <2>2 DEF ReceivedAck, Transmit
<1>7. TypeOK'
  BY <1>2, <1>5, <1>6 DEF IInv, TypeOK, GoodSender
<1>8. KnowledgeGrows'
  <2>1. /\ Received' = Received /\ Len(acks') = Len(acks) - 1
        /\ Len(acks) \in Nat /\ DOMAIN acks = 1..Len(acks)
        /\ DOMAIN acks' = 1..Len(acks)-1
        /\ \A i \in DOMAIN acks' : acks'[i] = acks[i+1]
    BY <1>2 DEF Received, IInv, TypeOK
  <2>2. \A v : Behind(Board, v) /\ Behind(a, v) => Behind(Board', v)
    BY <1>4, <1>5 DEF Behind, Board
  <2>3. Behind(Board', Received)
    BY <1>2, <2>2 DEF IInv, KnowledgeGrows
  <2>4. \A v : Upholds(Board, v) /\ Upholds(a, v) => Upholds(Board', v)
    BY <1>4, <1>5 DEF Upholds, Board
  <2>5. ASSUME NEW i \in DOMAIN acks'
        PROVE  /\ Sound(acks'[i])
               /\ Upholds(Board', acks'[i])
               /\ Behind(acks'[i], Received)
               /\ \A j \in i+1 .. Len(acks') : Upholds(acks'[i], acks'[j])
    <3>1. i + 1 \in DOMAIN acks /\ i + 1 \in 2..Len(acks)
      BY <2>1, <2>5
    <3>2. Upholds(a, acks[i+1])
      BY <1>2, <3>1 DEF IInv, KnowledgeGrows
    <3>3. /\ Sound(acks[i+1]) /\ Upholds(Board, acks[i+1])
          /\ Behind(acks[i+1], Received)
          /\ \A j \in (i+1)+1 .. Len(acks) : Upholds(acks[i+1], acks[j])
      BY <3>1 DEF IInv, KnowledgeGrows
    <3>4. \A j \in i+1 .. Len(acks') :
            j \in DOMAIN acks' /\ j + 1 \in (i+1)+1 .. Len(acks)
      BY <2>1, <2>5
    <3> QED
      BY <2>1, <2>4, <2>5, <3>2, <3>3, <3>4
  <2> QED
    BY <1>2, <2>1, <2>3, <2>5 DEF IInv, KnowledgeGrows, Sound, Behind, Upholds
<1> QED
  BY <1>5, <1>7, <1>8 DEF IInv, GoodSender, Armed, Waits

\* ReTxTimeout preserves it.
LEMMA ReTxTimeoutStep ==
  ASSUME IInv, ReTxTimeout
  PROVE  IInv'
<1>1. PICK r \in Rates : s' = TimedOut(Begin(s), r)
  BY DEF ReTxTimeout
<1>2. GoodSender(s) /\ Waits(s)
  BY DEF IInv, TypeOK, GoodSender
<1>3. Keeps(s, Begin(s)) /\ GoodSender(Begin(s)) /\ Waits(Begin(s))
  BY <1>2, BeginKeeps DEF Keeps
<1>4. /\ GoodSender(s') /\ Armed(s') /\ Waits(s') /\ Board' = Board
  BY <1>1, <1>3, TimedOutGood DEF Keeps, Board
<1> QED
  BY <1>4, SenderStep DEF ReTxTimeout

\* So does a handler that ends in SendPendingData.
LEMMA SendingStep ==
  ASSUME IInv, NEW t, Keeps(s, t), NEW r \in Rates, s' = SendPendingData(t, r),
         Transmit, UNCHANGED <<rcv, acks, drops>>
  PROVE  IInv'
<1>1. Keeps(s, s')
  BY SendPendingDataKeeps, KeepsTransitive DEF Keeps
<1>2. /\ GoodSender(s') /\ Armed(s') /\ Waits(s') /\ Board' = Board
  BY <1>1 DEF IInv, Keeps, Board
<1> QED
  BY <1>2, SenderStep

\* The application's Send is one.
LEMMA StartStep ==
  ASSUME IInv, Start
  PROVE  IInv'
<1>1. PICK r \in Rates : s' = SendPendingData(Begin(s), r)
  BY DEF Start
<1>2. Keeps(s, Begin(s))
  BY BeginKeeps DEF IInv, TypeOK, GoodSender
<1> QED
  BY <1>1, <1>2, SendingStep DEF Start

\* The pacing timer's handler is another.
LEMMA PacingStep ==
  ASSUME IInv, PacingTimerExpires
  PROVE  IInv'
<1> DEFINE t == [Begin(s) EXCEPT !.pacing = FALSE]
<1>1. PICK r \in Rates : s' = SendPendingData(t, r)
  BY DEF PacingTimerExpires
<1>2. Keeps(s, Begin(s))
  BY BeginKeeps DEF IInv, TypeOK, GoodSender
<1>3. /\ t \in Senders /\ t.buf = Begin(s).buf /\ t.rto = Begin(s).rto
      /\ t.closed = Begin(s).closed /\ t.state = Begin(s).state
      /\ t.cc = Begin(s).cc /\ t.ecn = Begin(s).ecn
  BY <1>2 DEF Keeps, GoodSender, Senders
<1> HIDE DEF t
<1>4. Keeps(s, t)
  BY <1>2, <1>3 DEF Keeps, GoodSender, Armed, Waits
<1> QED
  BY <1>1, <1>4, SendingStep DEF PacingTimerExpires

\* The end of an interval is noted in the newest one and nowhere else.
LEMMA IntervalEndsStep ==
  ASSUME IInv, IntervalEnds
  PROVE  IInv'
<1> DEFINE b == Begin(s)
           n == Len(s.cc.queue)
           c == [b.cc EXCEPT !.queue[n].ended = TRUE]
<1>1. Keeps(s, b) /\ Len(b.cc.queue) = Len(s.cc.queue)
  BY BeginKeeps DEF IInv, TypeOK, GoodSender
<1>2. s' = [b EXCEPT !.cc.queue[n].ended = TRUE]
  BY DEF IntervalEnds
<1> HIDE DEF b
<1>3. b \in Senders /\ b.cc \in CongestionControls
  BY <1>1 DEF Keeps, GoodSender, Senders
<1>4. /\ b.cc.queue \in Seq(Intervals) /\ n \in 1..Len(b.cc.queue)
      /\ [b.cc.queue[n] EXCEPT !.ended = TRUE] \in Intervals
  <2>1. b.cc.queue \in Seq(Intervals) /\ s.cc.queue \in Seq(Intervals) /\ s.cc.queue # <<>>
    BY <1>3 DEF IInv, TypeOK, Senders, IntervalEnds, CongestionControls
  <2>2. n \in 1..Len(b.cc.queue) /\ b.cc.queue[n] \in Intervals
    BY <1>1, <2>1
  <2> HIDE DEF n
  <2> QED
    BY <2>1, <2>2 DEF Intervals
<1> HIDE DEF n
<1>5. [b.cc.queue EXCEPT ![n].ended = TRUE] \in Seq(Intervals)
  BY <1>4
<1>6. c \in CongestionControls /\ c.waitMode = b.cc.waitMode
  BY <1>3, <1>5 DEF CongestionControls
<1>7. s' = [b EXCEPT !.cc = c]
  BY <1>2, <1>3 DEF Senders, CongestionControls
<1> HIDE DEF c
<1>8. /\ s' \in Senders /\ s'.buf = b.buf /\ s'.rto = b.rto
      /\ s'.closed = b.closed /\ s'.state = b.state
      /\ s'.cc = c /\ s'.ecn = b.ecn /\ s'.tx = b.tx
  BY <1>3, <1>6, <1>7 DEF Senders
<1>9. /\ GoodSender(s') /\ Armed(s') /\ Waits(s') /\ Board' = Board
  BY <1>1, <1>6, <1>8 DEF IInv, Keeps, GoodSender, Armed, Waits, Board
<1>10. TypeOK'
  BY <1>9 DEF IInv, TypeOK, GoodSender, IntervalEnds
<1>11. KnowledgeGrows'
  <2>1. Received' = Received /\ acks' = acks /\ rcv' = rcv
    BY DEF Received, IntervalEnds
  <2> QED
    BY <1>9, <2>1 DEF IInv, KnowledgeGrows, Sound, Behind, Upholds
<1> QED
  BY <1>9, <1>10, <1>11 DEF IInv, GoodSender, Armed, Waits

\* The run that fills a hole ends at a segment the receiver does not hold.
LEMMA RunEndFound ==
  ASSUME NEW ooo \in SUBSET Segments, NEW i \in 0..N
  PROVE  /\ RunEnd(ooo, i) \in i..N
         /\ RunEnd(ooo, i) \notin ooo
         /\ i..RunEnd(ooo, i)-1 \subseteq ooo
<1> DEFINE S == {j \in i..N : j \notin ooo}
<1>1. S \in SUBSET Nat /\ N \in S
  BY TxBufferAssumption DEF Segments
<1>2. PICK m \in S : \A j \in S : m <= j
  <2>1. Min(S) \in S /\ \A y \in S : Min(S) <= y
    <3> HIDE DEF S
    <3> QED
      BY <1>1, MinInSet
  <2> QED
    BY <2>1
<1>3. m \in i..N /\ m \notin ooo
  OBVIOUS
<1>4. i..m-1 \subseteq ooo
  <2> SUFFICES ASSUME NEW j \in i..m-1, j \notin ooo
               PROVE  FALSE
    OBVIOUS
  <2>1. j \in S
    BY TxBufferAssumption
  <2>2. m <= j
    BY <1>2, <2>1
  <2> QED
    BY <2>2, TxBufferAssumption
<1>5. \E j \in i..N : j \notin ooo /\ i..j-1 \subseteq ooo
  BY <1>3, <1>4
<1> QED
  BY <1>5 DEF RunEnd

\* ReceivedData preserves the invariant: what was stored stays stored.
LEMMA ReceivedDataStep ==
  ASSUME IInv, ReceivedData
  PROVE  IInv'
<1> DEFINE seg == Head(data)
<1>1. /\ seg \in Segments /\ data' \in Seq(Segments) /\ UNCHANGED <<s, drops>>
  BY DEF ReceivedData, IInv, TypeOK
<1> HIDE DEF seg
<1>2. /\ rcv \in Receivers /\ rcv.nxt \in 0..N /\ rcv.ooo \in SUBSET Segments
      /\ rcv.ooo \subseteq rcv.nxt + 1 .. N - 1 /\ rcv.listed \subseteq rcv.ooo
  BY DEF IInv, TypeOK, Receivers, KnowledgeGrows, Sound, Received
<1>3. /\ Received.ack = rcv.nxt /\ Received.sack = rcv.ooo
      /\ Received'.ack = rcv'.nxt /\ Received'.sack = rcv'.ooo
  BY DEF Received
<1>4. CASE ReceiveOld(seg)
  <2>1. /\ rcv' \in Receivers /\ rcv'.nxt = rcv.nxt /\ rcv'.ooo = rcv.ooo
        /\ rcv'.listed = rcv.listed
    BY <1>2, <1>4 DEF ReceiveOld, Receivers
  <2>2. Sound(Received)' /\ Behind(Received, Received')
    BY <1>2, <1>3, <2>1, TxBufferAssumption DEF Sound, Behind
  <2> QED
    BY <1>1, <1>2, <1>4, <2>1, <2>2, ReceiverStep DEF ReceiveOld
<1>5. CASE ReceiveBeyond(seg)
  <2>1. seg > rcv.nxt /\ seg \in 0..N-1
    BY <1>1, <1>5 DEF ReceiveBeyond, Segments
  <2>2. PICK listed \in UpdateSackList(rcv.listed, seg) :
               rcv' = [rcv EXCEPT !.ooo = @ \cup {seg}, !.listed = listed, !.held = 0]
    BY <1>5 DEF ReceiveBeyond
  <2>3. listed \subseteq rcv.listed \cup {seg}
    BY DEF UpdateSackList
  <2>4. /\ rcv' \in Receivers /\ rcv'.nxt = rcv.nxt
        /\ rcv'.ooo = rcv.ooo \cup {seg} /\ rcv'.listed = listed
    <3> DEFINE ooo == rcv.ooo \cup {seg}
    <3>1. listed \in SUBSET Segments /\ ooo \in SUBSET Segments
      BY <1>1, <1>2, <2>3
    <3>2. rcv' = [rcv EXCEPT !.ooo = ooo, !.listed = listed, !.held = 0]
      BY <2>2
    <3> HIDE DEF ooo
    <3>3. rcv = [nxt |-> rcv.nxt, ooo |-> rcv.ooo, listed |-> rcv.listed,
                 held |-> rcv.held]
      BY <1>2 DEF Receivers
    <3>4. rcv' = [nxt |-> rcv.nxt, ooo |-> ooo, listed |-> listed, held |-> 0]
      BY <3>2, <3>3
    <3>5. 0 \in 0..1
      OBVIOUS
    <3>6. /\ rcv' \in Receivers /\ rcv'.nxt = rcv.nxt
          /\ rcv'.ooo = ooo /\ rcv'.listed = listed
      BY <1>2, <3>1, <3>4, <3>5 DEF Receivers
    <3> QED
      BY <3>6 DEF ooo
  <2>5. Sound(Received)' /\ Behind(Received, Received')
    BY <1>2, <1>3, <2>1, <2>4, TxBufferAssumption DEF Sound, Behind
  <2> QED
    BY <1>1, <1>2, <1>5, <2>3, <2>4, <2>5, ReceiverStep DEF ReceiveBeyond
<1>6. CASE ReceiveInHole(seg)
  <2> DEFINE nxt == RunEnd(rcv.ooo, seg + 1)
  <2>1. seg + 1 \in 0..N /\ seg = rcv.nxt
    BY <1>1, <1>6, TxBufferAssumption DEF Segments, ReceiveInHole
  <2>2. nxt \in seg + 1 .. N /\ nxt \notin rcv.ooo
    BY <1>2, <2>1, RunEndFound
  <2>3. rcv' = [nxt |-> nxt, ooo |-> rcv.ooo \ 0..nxt,
                listed |-> rcv.listed \ 0..nxt, held |-> 0]
    BY <1>6 DEF ReceiveInHole
  <2> HIDE DEF nxt
  <2>4. /\ rcv' \in Receivers /\ rcv'.nxt = nxt
        /\ rcv'.ooo = rcv.ooo \ 0..nxt /\ rcv'.listed = rcv.listed \ 0..nxt
    BY <1>2, <2>1, <2>2, <2>3, TxBufferAssumption DEF Receivers
  <2>5. Sound(Received)' /\ Behind(Received, Received')
    BY <1>2, <1>3, <2>1, <2>2, <2>4, TxBufferAssumption DEF Sound, Behind
  <2> QED
    BY <1>1, <1>2, <1>6, <2>4, <2>5, ReceiverStep DEF ReceiveInHole
<1>7. CASE ReceiveInOrder(seg)
  <2>1. rcv.nxt + 1 \in 0..N /\ rcv.ooo = {}
    BY <1>1, <1>7, TxBufferAssumption DEF ReceiveInOrder, Segments
  <2>2. /\ rcv' \in Receivers /\ rcv'.nxt = rcv.nxt + 1 /\ rcv'.ooo = {}
        /\ rcv'.listed = rcv.listed
    <3>1. rcv' = [rcv EXCEPT !.nxt = @ + 1, !.held = 1 - @]
      BY <1>7 DEF ReceiveInOrder
    <3>2. 1 - rcv.held \in 0..1
      BY <1>2 DEF Receivers
    <3> QED
      BY <1>2, <2>1, <3>1, <3>2 DEF Receivers
  <2>3. Sound(Received)' /\ Behind(Received, Received')
    BY <1>2, <1>3, <2>1, <2>2, TxBufferAssumption DEF Sound, Behind
  <2>4. acks' = acks \/ SendAck({})
    BY <1>7 DEF ReceiveInOrder
  <2> QED
    BY <1>1, <1>2, <2>1, <2>2, <2>3, <2>4, ReceiverStep
<1> QED
  BY <1>4, <1>5, <1>6, <1>7 DEF ReceivedData, seg

\* So does the ACK of the delayed-ACK timer.
LEMMA DelAckStep ==
  ASSUME IInv, DelAckTimeout
  PROVE  IInv'
<1>1. /\ rcv \in Receivers /\ data' \in Seq(Segments) /\ UNCHANGED <<s, drops>>
      /\ rcv.listed \subseteq rcv.ooo
  BY DEF DelAckTimeout, IInv, TypeOK, KnowledgeGrows
<1>2. /\ rcv' \in Receivers /\ rcv'.nxt = rcv.nxt /\ rcv'.ooo = rcv.ooo
      /\ rcv'.listed = rcv.listed
  BY <1>1 DEF DelAckTimeout, Receivers
<1>3. Received' = Received /\ Received.ack \in Int /\ Sound(Received)
  BY <1>1, <1>2, TxBufferAssumption
     DEF IInv, KnowledgeGrows, Received, Receivers
<1>4. Sound(Received)' /\ Behind(Received, Received')
  BY <1>3 DEF Sound, Behind
<1>5. SendAck({})
  BY DEF DelAckTimeout
<1> QED
  BY <1>1, <1>2, <1>4, <1>5, ReceiverStep

\* A packet lost contradicts nobody.
LEMMA DropStep ==
  ASSUME IInv, Drop
  PROVE  IInv'
<1>1. /\ data \in Seq(Segments) /\ acks \in Seq(Acks)
      /\ s' = s /\ rcv' = rcv /\ drops' \in 0..MaxDrops
  BY SenderAssumption DEF IInv, TypeOK, Drop
<1>2. Received' = Received /\ Board' = Board
  BY <1>1 DEF Received, Board
<1>3. CASE data # <<>> /\ data' = Tail(data) /\ UNCHANGED acks
  <2>1. TypeOK' /\ KnowledgeGrows'
    BY <1>1, <1>2, <1>3 DEF IInv, TypeOK, KnowledgeGrows, Sound, Behind, Upholds
  <2> QED
    BY <1>1, <2>1 DEF IInv, Armed, Waits
<1>4. CASE acks # <<>> /\ acks' = Tail(acks) /\ UNCHANGED data
  <2>1. /\ Len(acks') = Len(acks) - 1 /\ acks' \in Seq(Acks)
        /\ Len(acks) \in Nat /\ DOMAIN acks = 1..Len(acks)
        /\ DOMAIN acks' = 1..Len(acks)-1
        /\ \A i \in DOMAIN acks' : acks'[i] = acks[i+1]
    BY <1>1, <1>4
  <2>2. ASSUME NEW i \in DOMAIN acks'
        PROVE  /\ Sound(acks'[i])
               /\ Upholds(Board, acks'[i])
               /\ Behind(acks'[i], Received)
               /\ \A j \in i+1 .. Len(acks') : Upholds(acks'[i], acks'[j])
    <3>1. i + 1 \in DOMAIN acks
      BY <2>1, <2>2
    <3>2. /\ Sound(acks[i+1]) /\ Upholds(Board, acks[i+1])
          /\ Behind(acks[i+1], Received)
          /\ \A j \in (i+1)+1 .. Len(acks) : Upholds(acks[i+1], acks[j])
      BY <3>1 DEF IInv, KnowledgeGrows
    <3>3. \A j \in i+1 .. Len(acks') :
            j \in DOMAIN acks' /\ j + 1 \in (i+1)+1 .. Len(acks)
      BY <2>1, <2>2
    <3> QED
      BY <2>1, <2>2, <3>2, <3>3
  <2>3. TypeOK'
    BY <1>1, <1>4, <2>1 DEF IInv, TypeOK
  <2>4. KnowledgeGrows'
    BY <1>1, <1>2, <2>1, <2>2 DEF IInv, KnowledgeGrows, Sound, Behind, Upholds
  <2> QED
    BY <1>1, <2>3, <2>4 DEF IInv, Armed, Waits
<1> QED
  BY <1>3, <1>4 DEF Drop

\* The invariant is inductive.
LEMMA NextIInv == IInv /\ [Next]_vars => IInv'
<1> SUFFICES ASSUME IInv, [Next]_vars
             PROVE  IInv'
  OBVIOUS
<1>1. CASE UNCHANGED vars
  <2>1. Received' = Received /\ Board' = Board
    BY <1>1 DEF vars, Received, Board
  <2> QED
    BY <1>1, <2>1
       DEF vars, IInv, TypeOK, KnowledgeGrows, Sound, Behind, Upholds, Armed, Waits
<1> QED
  BY <1>1, StartStep, ReceivedAckStep, ReTxTimeoutStep, PacingStep,
     IntervalEndsStep, ReceivedDataStep, DelAckStep, DropStep DEF Next

-----------------------------------------------------------------------------
\* Every reachable state satisfies the inductive invariant.
THEOREM Invariant == Spec => []IInv
  BY InitIInv, NextIInv, PTL DEF Spec

\* Every handler leaves each variable, and each field of the sender, of the
\* congestion control and of its intervals, within its type.
THEOREM TypeCorrect == Spec => []TypeOK
<1>1. IInv => TypeOK
  BY DEF IInv
<1> QED
  BY <1>1, Invariant, PTL

\* The scoreboard never marks a segment both SACKed and lost, never SACKs the
\* head, and claims of the receiver only what the receiver holds.
THEOREM ScoreboardCorrect == Spec => []ScoreboardConsistent
<1>1. IInv => ScoreboardConsistent
  <2> SUFFICES ASSUME IInv
               PROVE  ScoreboardConsistent
    OBVIOUS
  <2>1. GoodBuffer(s.buf) /\ Behind(Board, Received)
    BY DEF IInv, KnowledgeGrows
  <2> QED
    BY <2>1 DEF ScoreboardConsistent, GoodBuffer, Behind, Board, Received
<1> QED
  BY <1>1, Invariant, PTL

\* No ACK asks for a segment that the scoreboard or an ACK before it has, whatever is
\* lost, for any number of holes and however few of their blocks an ACK has room for; and
\* none tells of a segment that the receiver lacks.
THEOREM KnowledgeCorrect == Spec => []KnowledgeGrows
<1>1. IInv => KnowledgeGrows
  BY DEF IInv
<1> QED
  BY <1>1, Invariant, PTL

\* No sequence of losses, timeouts and ACKs leaves data outstanding without a
\* running retransmission timer.
THEOREM TimerAlwaysArmed == Spec => []TimerArmed
<1>1. IInv => TimerArmed
  BY DEF IInv, Armed, TimerArmed
<1> QED
  BY <1>1, Invariant, PTL

\* Without ECN the congestion control waits exactly while the socket is in
\* CA_LOSS.
THEOREM WaitModeCorrect ==
  ASSUME ~EcnEnabled
  PROVE  Spec => []WaitModeIsLoss
<1>1. IInv => WaitModeIsLoss
  BY DEF IInv, Waits, WaitModeIsLoss
<1> QED
  BY <1>1, Invariant, PTL

-----------------------------------------------------------------------------
\* What the handlers do to the state of recovery and to the rate.

\* An interval is being sent.
Sending(c) == c.queue # <<>> /\ ~Back(c.queue).ended

\* While it is, the rate stays and the interval goes on.
Steady(c, d) == Sending(c) => Sending(d) /\ d.rate = c.rate

\* Two queues of intervals of which the same have ended.
SameEnds(q, p) ==
  Len(p) = Len(q) /\ \A i \in 1..Len(q) : p[i].ended = q[i].ended

\* RecoveryOpen and CwrOpen, of any sender.
InRecovery(t) == t.recoverActive /\ t.buf.una < t.recover

Within(t) ==
  /\ t.state = "CA_RECOVERY" => InRecovery(t)
  /\ t.state = "CA_CWR" => t.buf.una <= t.recover

\* What a part of a handler does to the sender that comes after DiscardUpTo: the
\* states with a recovery point are those it was in, or entered with a point
\* that is not yet reached.
Continues(t, u) ==
  /\ GoodSender(u)
  /\ u.buf.una = t.buf.una
  /\ Steady(t.cc, u.cc)
  /\ u.state = "CA_RECOVERY" =>
       \/ InRecovery(u)
       \/ /\ t.state = "CA_RECOVERY"
          /\ u.recover = t.recover
          /\ u.recoverActive = t.recoverActive
  /\ u.state = "CA_CWR" =>
       \/ u.buf.una <= u.recover
       \/ t.state = "CA_CWR" /\ u.recover = t.recover

\* What leaves the state and its recovery point alone.
SameState(t, u) ==
  /\ GoodSender(u)
  /\ u.buf.una = t.buf.una
  /\ u.state = t.state
  /\ u.recover = t.recover
  /\ u.recoverActive = t.recoverActive
  /\ Steady(t.cc, u.cc)

\* What the whole of ProcessAck does to it.
Settles(t, u) ==
  /\ GoodSender(u)
  /\ u.buf.una = t.buf.una
  /\ Steady(t.cc, u.cc)
  /\ Within(u)

-----------------------------------------------------------------------------
\* The congestion control.

\* No packet, no ACK and no loss ends an interval: only the clock does.
LEMMA IntervalKeepsEnded ==
  ASSUME NEW mi \in Intervals, NEW p \in Int, NEW sz \in Int
  PROVE  /\ MISent(mi, p, sz).ended = mi.ended
         /\ MIAcked(mi, p, sz).ended = mi.ended
         /\ MILost(mi, p, sz).ended = mi.ended
<1>1. MISent(mi, p, sz).ended = mi.ended
  BY DEF MISent, Intervals
<1> DEFINE m == TimeAcks(mi, p)
           a == Account(mi, p)
<1>2. m \in Intervals /\ a \in Intervals
  BY TimeAcksType, AccountType
<1>3. m.ended = mi.ended
  BY DEF TimeAcks, Intervals
<1> HIDE DEF m
<1>4. a.ended = m.ended
  BY <1>2 DEF Account, m, Intervals
<1> HIDE DEF a
<1>5. MIAcked(mi, p, sz).ended = a.ended /\ MILost(mi, p, sz).ended = a.ended
  BY <1>2 DEF MIAcked, MILost, a, Intervals
<1> QED
  BY <1>1, <1>3, <1>4, <1>5

\* Nor does any of the queue's operations.
LEMMA QueueKeepsEnded ==
  ASSUME NEW q \in Seq(Intervals), NEW p \in Int, NEW sz \in Int
  PROVE  /\ SameEnds(q, QueueSent(q, p, sz))
         /\ SameEnds(q, QueueAcked(q, p, sz))
         /\ SameEnds(q, QueueLost(q, p, sz))
         /\ SameEnds(q, Aged(q))
<1>1. \A i \in 1..Len(q) :
        /\ q[i] \in Intervals
        /\ MISent(q[i], p, sz).ended = q[i].ended
        /\ MIAcked(q[i], p, sz).ended = q[i].ended
        /\ MILost(q[i], p, sz).ended = q[i].ended
  BY IntervalKeepsEnded
<1>2. SameEnds(q, QueueSent(q, p, sz))
  BY <1>1 DEF SameEnds, QueueSent
<1>3. SameEnds(q, QueueAcked(q, p, sz))
  BY <1>1 DEF SameEnds, QueueAcked
<1>4. SameEnds(q, QueueLost(q, p, sz))
  BY <1>1 DEF SameEnds, QueueLost
<1>5. SameEnds(q, Aged(q))
  <2> DEFINE aged(mi) == [mi EXCEPT !.fresh = FALSE]
  <2>1. \A mi \in Intervals : aged(mi).ended = mi.ended
    BY DEF Intervals
  <2>2. Aged(q) = [i \in 1..Len(q) |-> aged(q[i])]
    BY DEF Aged
  <2> HIDE DEF aged
  <2> QED
    BY <1>1, <2>1, <2>2 DEF SameEnds
<1> QED
  BY <1>2, <1>3, <1>4, <1>5

\* A queue with the same ends and the same rate is as steady.
LEMMA SameEndsSteady ==
  ASSUME NEW c \in CongestionControls, NEW d \in CongestionControls,
         SameEnds(c.queue, d.queue), d.rate = c.rate
  PROVE  Steady(c, d)
<1>1. c.queue \in Seq(Intervals) /\ d.queue \in Seq(Intervals)
  BY DEF CongestionControls
<1>2. ASSUME c.queue # <<>>
      PROVE  Len(c.queue) \in 1..Len(c.queue) /\ d.queue # <<>>
  BY <1>1, <1>2 DEF SameEnds
<1> QED
  BY <1>1, <1>2 DEF Steady, Sending, Back, SameEnds

\* What two calls each leave steady, both do.
LEMMA SteadyTransitive ==
  ASSUME NEW c, NEW d, NEW e, Steady(c, d), Steady(d, e)
  PROVE  Steady(c, e)
  BY DEF Steady

\* CheckMonitoringInterval never pops the interval being sent.
LEMMA CheckMonitoringIntervalSteady ==
  ASSUME NEW c \in CongestionControls
  PROVE  Steady(c, CheckMonitoringInterval(c))
<1> DEFINE d == CheckMonitoringInterval(c)
           n == FinishedPrefix(c.queue)
<1> SUFFICES ASSUME Sending(c)
             PROVE  Sending(d) /\ d.rate = c.rate
  BY DEF Steady
<1>1. c.queue \in Seq(Intervals) /\ c.queue # <<>>
  BY DEF CongestionControls, Sending
<1>2. /\ n \in 0..Len(c.queue)
      /\ \A i \in 1..n : AllPacketsAccountedFor(c.queue[i])
  BY <1>1, FinishedPrefixExists
<1>3. d.queue = SubSeq(c.queue, n + 1, Len(c.queue)) /\ d.rate = c.rate
  BY DEF CheckMonitoringInterval, Pending, CongestionControls
<1> HIDE DEF n, d
<1>4. ~AllPacketsAccountedFor(c.queue[Len(c.queue)])
  BY DEF Sending, Back, AllPacketsAccountedFor, AllPacketsSent
<1>5. n < Len(c.queue)
  <2>1. Len(c.queue) \in 1..Len(c.queue)
    BY <1>1
  <2>2. n # Len(c.queue)
    BY <1>2, <1>4, <2>1
  <2> QED
    BY <1>1, <1>2, <2>2
<1>6. /\ Len(d.queue) = Len(c.queue) - n
      /\ \A i \in 1..Len(c.queue) - n : d.queue[i] = c.queue[n + i]
  <2> DEFINE q == c.queue
  <2>1. q \in Seq(Intervals) /\ n \in 0..Len(q) /\ n < Len(q)
    BY <1>1, <1>2, <1>5
  <2>2. d.queue = SubSeq(q, n + 1, Len(q))
    BY <1>3
  <2> HIDE DEF q
  <2>3. /\ Len(SubSeq(q, n + 1, Len(q))) = Len(q) - n
        /\ \A i \in 1..Len(q) - n : SubSeq(q, n + 1, Len(q))[i] = q[n + i]
    BY <2>1
  <2> QED
    BY <2>2, <2>3 DEF q
<1>7. /\ Len(c.queue) - n \in 1..Len(c.queue) - n
      /\ n + (Len(c.queue) - n) = Len(c.queue)
  BY <1>1, <1>2, <1>5
<1>8. d.queue # <<>> /\ d.queue[Len(d.queue)] = c.queue[Len(c.queue)]
  BY <1>6, <1>7
<1> QED
  BY <1>3, <1>8 DEF Sending, Back

\* A packet sent goes to the interval being sent, at its rate.
LEMMA OnPacketSentSteady ==
  ASSUME NEW c \in CongestionControls, NEW seg \in Int, NEW r \in Rates
  PROVE  Steady(c, OnPacketSent(c, seg, r))
<1> DEFINE d == OnPacketSent(c, seg, r)
           sent == [c EXCEPT !.queue = QueueSent(@, SeqNo(seg), MSS)]
<1>1. CASE ~Sending(c)
  BY <1>1 DEF Steady
<1>2. CASE Sending(c) /\ c.waitMode
  BY <1>2 DEF Steady, OnPacketSent
<1>3. CASE Sending(c) /\ ~c.waitMode
  <2>1. d = sent
    BY <1>3
       DEF OnPacketSent, ShouldCreateNewMonitorInterval, Sending, AllPacketsSent
  <2>2. d \in CongestionControls
    BY OnPacketSentType
  <2>3. SameEnds(c.queue, QueueSent(c.queue, SeqNo(seg), MSS))
    BY SeqNoType, QueueKeepsEnded, PccAssumption DEF CongestionControls
  <2>4. d.queue = QueueSent(c.queue, SeqNo(seg), MSS) /\ d.rate = c.rate
    BY <2>1 DEF CongestionControls
  <2> HIDE DEF d
  <2> QED
    BY <2>2, <2>3, <2>4, SameEndsSteady DEF d
<1> QED
  BY <1>1, <1>2, <1>3

\* A packet lost.
LEMMA OnPacketLostSteady ==
  ASSUME NEW c \in CongestionControls, NEW seg \in Int
  PROVE  Steady(c, OnPacketLost(c, seg))
<1> DEFINE heard == [c EXCEPT !.queue = QueueLost(@, SeqNo(seg), MSS)]
<1>1. /\ QueueLost(c.queue, SeqNo(seg), MSS) \in Seq(Intervals)
      /\ SameEnds(c.queue, QueueLost(c.queue, SeqNo(seg), MSS))
  <2>1. c.queue \in Seq(Intervals) /\ SeqNo(seg) \in Int /\ MSS \in Int
    BY SeqNoType, PccAssumption DEF CongestionControls
  <2> QED
    BY <2>1, QueueLostType, QueueKeepsEnded, Zenon
<1>2. /\ heard \in CongestionControls /\ heard.rate = c.rate
      /\ heard.queue = QueueLost(c.queue, SeqNo(seg), MSS)
  BY <1>1 DEF CongestionControls
<1>3. OnPacketLost(c, seg) = heard
      \/ OnPacketLost(c, seg) = CheckMonitoringInterval(heard)
  BY DEF OnPacketLost
<1> HIDE DEF heard
<1>4. Steady(c, heard)
  BY <1>1, <1>2, SameEndsSteady
<1>5. Steady(c, CheckMonitoringInterval(heard))
  BY <1>2, <1>4, CheckMonitoringIntervalSteady, SteadyTransitive
<1> QED
  BY <1>3, <1>4, <1>5

\* An ACK.
LEMMA CongControlSteady ==
  ASSUME NEW c \in CongestionControls, NEW ack \in Int, NEW newly \in Int
  PROVE  Steady(c, CongControl(c, ack, newly))
<1> DEFINE heard == [c EXCEPT !.queue =
                       QueueAcked(@, SeqNo(ack), newly * MSS)]
<1>1. /\ QueueAcked(c.queue, SeqNo(ack), newly * MSS) \in Seq(Intervals)
      /\ SameEnds(c.queue, QueueAcked(c.queue, SeqNo(ack), newly * MSS))
  <2>1. c.queue \in Seq(Intervals) /\ SeqNo(ack) \in Int /\ newly * MSS \in Int
    BY SeqNoType, PccAssumption DEF CongestionControls
  <2> QED
    BY <2>1, QueueAckedType, QueueKeepsEnded, Zenon
<1>2. /\ heard \in CongestionControls /\ heard.rate = c.rate
      /\ heard.queue = QueueAcked(c.queue, SeqNo(ack), newly * MSS)
  BY <1>1 DEF CongestionControls
<1>3. CongControl(c, ack, newly) = c
      \/ CongControl(c, ack, newly) = CheckMonitoringInterval(heard)
  BY DEF CongControl
<1> HIDE DEF heard
<1>4. Steady(c, heard)
  BY <1>1, <1>2, SameEndsSteady
<1>5. Steady(c, CheckMonitoringInterval(heard)) /\ Steady(c, c)
  BY <1>2, <1>4, CheckMonitoringIntervalSteady, SteadyTransitive DEF Steady
<1> QED
  BY <1>3, <1>5

\* A change of the socket's state, which may change the window.
LEMMA CongestionStateSetSteady ==
  ASSUME NEW c \in CongestionControls, NEW newState
  PROVE  Steady(c, CongestionStateSet(c, newState))
<1>1. /\ CongestionStateSet(c, newState).queue = c.queue
      /\ CongestionStateSet(c, newState).rate = c.rate
  BY DEF CongestionStateSet, UpdatePacingRate, CongestionControls
<1> QED
  BY <1>1 DEF Steady, Sending

-----------------------------------------------------------------------------
\* The relation.

\* What two calls of a handler each continue, both do.
LEMMA ContinuesTransitive ==
  ASSUME NEW t, NEW u, NEW v, Continues(t, u), Continues(u, v)
  PROVE  Continues(t, v)
<1>1. Steady(t.cc, v.cc)
  BY SteadyTransitive DEF Continues
<1>2. InRecovery(u) /\ v.recover = u.recover /\ v.recoverActive = u.recoverActive
        => InRecovery(v)
  BY DEF Continues, InRecovery
<1> QED
  BY <1>1, <1>2 DEF Continues

\* What two calls each leave in its state, both do.
LEMMA SameStateTransitive ==
  ASSUME NEW t, NEW u, NEW v, SameState(t, u), SameState(u, v)
  PROVE  SameState(t, v)
<1>1. Steady(t.cc, v.cc)
  BY SteadyTransitive DEF SameState
<1> QED
  BY <1>1 DEF SameState

\* A call that does nothing leaves everything.
LEMMA SameStateReflexive ==
  ASSUME NEW t, GoodSender(t)
  PROVE  SameState(t, t)
  BY DEF SameState, Steady

\* A state left alone is one continued.
LEMMA SameStateContinues ==
  ASSUME NEW t, NEW u, SameState(t, u)
  PROVE  Continues(t, u)
  BY DEF SameState, Continues

-----------------------------------------------------------------------------
\* Sending.

\* SendDataPacket.
LEMMA SendDataPacketSame ==
  ASSUME NEW t, GoodSender(t), NEW seg, CanCopy(t.buf, seg), NEW r \in Rates
  PROVE  SameState(t, SendDataPacket(t, seg, r))
<1> DEFINE u == SendDataPacket(t, seg, r)
<1>1. GoodSender(u) /\ u.buf.una = t.buf.una
  BY SendDataPacketKeeps DEF Keeps
<1>2. /\ u.state = t.state /\ u.recover = t.recover
      /\ u.recoverActive = t.recoverActive
      /\ u.cc = OnPacketSent(t.cc, seg, r)
  BY DEF GoodSender, Senders, SendDataPacket
<1>3. seg \in Int /\ t.cc \in CongestionControls
  <2>1. seg \in 0..N-1
    BY CopyGood DEF GoodSender
  <2> QED
    BY <2>1, TxBufferAssumption DEF GoodSender, Senders
<1> HIDE DEF u
<1>4. SameState(t, u)
  BY <1>1, <1>2, <1>3, OnPacketSentSteady DEF SameState
<1> QED
  BY <1>4 DEF u

\* SendPendingData.
LEMMA SendPendingDataSame ==
  ASSUME NEW t, GoodSender(t), NEW r \in Rates
  PROVE  SameState(t, SendPendingData(t, r))
<1> DEFINE seg == NextSeg(t.buf, t.state = "CA_RECOVERY")
<1>1. CASE SendPendingData(t, r) = t
  BY <1>1, SameStateReflexive
<1>2. CASE seg # None /\ SendPendingData(t, r) = SendDataPacket(t, seg, r)
  <2>1. CanCopy(t.buf, seg)
    BY <1>2, NextSegCanCopy DEF GoodSender
  <2> HIDE DEF seg
  <2> QED
    BY <1>2, <2>1, SendDataPacketSame
<1> QED
  BY <1>1, <1>2 DEF SendPendingData

\* DoRetransmit.
LEMMA DoRetransmitSame ==
  ASSUME NEW t, GoodSender(t), t.buf.una < N, NEW r \in Rates
  PROVE  SameState(t, DoRetransmit(t, r))
<1> DEFINE next == NextSeg(t.buf, FALSE)
           seg == IF next = None THEN t.buf.una ELSE next
           u == SendDataPacket(t, seg, r)
           v == DoRetransmit(t, r)
<1>1. CanCopy(t.buf, seg)
  <2>1. CASE next = None
    BY <2>1, TxBufferAssumption
       DEF GoodSender, GoodBuffer, Buffers, CanCopy, Sent
  <2>2. CASE next # None
    BY <2>2, NextSegCanCopy DEF GoodSender
  <2> QED
    BY <2>1, <2>2
<1>2. seg \in Int
  <2> HIDE DEF seg
  <2>1. seg \in 0..N-1
    BY <1>1, CopyGood DEF GoodSender
  <2> QED
    BY <2>1, TxBufferAssumption
<1>3. v = [u EXCEPT !.cc = OnPacketLost(@, seg)]
  BY DEF DoRetransmit
<1>4. GoodSender(v)
  BY DoRetransmitKeeps DEF Keeps
<1> HIDE DEF seg, v
<1>5. SameState(t, u)
  BY <1>1, SendDataPacketSame
<1> HIDE DEF u
<1>6. /\ v.buf = u.buf /\ v.state = u.state /\ v.recover = u.recover
      /\ v.recoverActive = u.recoverActive /\ v.cc = OnPacketLost(u.cc, seg)
  BY <1>3, <1>5 DEF SameState, GoodSender, Senders
<1>7. Steady(u.cc, v.cc)
  BY <1>2, <1>5, <1>6, OnPacketLostSteady DEF SameState, GoodSender, Senders
<1>8. SameState(u, v)
  BY <1>4, <1>6, <1>7 DEF SameState
<1>9. SameState(t, v)
  BY <1>5, <1>8, SameStateTransitive
<1> QED
  BY <1>9 DEF v

-----------------------------------------------------------------------------
\* Receiving an ACK.

\* SetCongState moves the state, and not the recovery point nor the rate.
LEMMA SetCongStateSteady ==
  ASSUME NEW t, GoodSender(t), NEW st \in CongStates
  PROVE  LET u == SetCongState(t, st)
         IN  /\ GoodSender(u) /\ u.buf = t.buf /\ u.state = st
             /\ u.recover = t.recover /\ u.recoverActive = t.recoverActive
             /\ Steady(t.cc, u.cc)
<1> DEFINE u == SetCongState(t, st)
<1>1. GoodSender(u) /\ u.buf = t.buf /\ u.state = st
  BY SetCongStateGood
<1>2. /\ u.recover = t.recover /\ u.recoverActive = t.recoverActive
      /\ u.cc = CongestionStateSet(t.cc, st)
  BY DEF SetCongState, GoodSender, Senders
<1>3. Steady(t.cc, u.cc)
  BY <1>2, CongestionStateSetSteady DEF GoodSender, Senders
<1> QED
  BY <1>1, <1>2, <1>3

\* EnterRecovery sets a point beyond the head: something is outstanding.
LEMMA EnterRecoveryContinues ==
  ASSUME NEW t, GoodSender(t), t.buf.una < t.buf.high, NEW r \in Rates
  PROVE  /\ Continues(t, EnterRecovery(t, r))
         /\ EnterRecovery(t, r).state = "CA_RECOVERY"
<1> DEFINE buf == IF IsLost(t.buf, t.buf.una) THEN t.buf
                  ELSE MarkHeadAsLost(t.buf)
           c == SetCongState(t, "CA_RECOVERY")
           in == [c EXCEPT !.buf = buf, !.recover = t.buf.high,
                           !.recoverActive = TRUE]
<1>1. /\ GoodBuffer(buf) /\ buf.una = t.buf.una
  BY MarkHeadAsLostGood DEF GoodSender
<1>2. buf \in Buffers /\ t.buf.high \in 0..N
  BY <1>1 DEF GoodBuffer, GoodSender, Buffers
<1> HIDE DEF buf
<1>3. GoodSender(c) /\ c.state = "CA_RECOVERY" /\ Steady(t.cc, c.cc)
  BY SetCongStateSteady DEF CongStates
<1> HIDE DEF c
<1>4. /\ in \in Senders /\ in.buf = buf /\ in.state = c.state /\ in.cc = c.cc
      /\ in.recover = t.buf.high /\ in.recoverActive = TRUE
  BY <1>2, <1>3 DEF GoodSender, Senders
<1>5. EnterRecovery(t, r) = DoRetransmit(in, r)
  BY DEF EnterRecovery, buf, c
<1> HIDE DEF in
<1>6. Continues(t, in)
  BY <1>1, <1>3, <1>4 DEF Continues, GoodSender, InRecovery
<1>7. GoodSender(in) /\ in.buf.una < N
  BY <1>1, <1>4, <1>6, TxBufferAssumption
     DEF Continues, GoodSender, GoodBuffer, Buffers
<1>8. SameState(in, DoRetransmit(in, r))
  BY <1>7, DoRetransmitSame
<1>9. in.state = "CA_RECOVERY"
  BY <1>3, <1>4
<1> QED
  BY <1>5, <1>6, <1>8, <1>9, SameStateContinues, ContinuesTransitive
     DEF SameState

\* DupAck.
LEMMA DupAckContinues ==
  ASSUME NEW t, GoodSender(t), t.buf.una < t.buf.high, NEW r \in Rates
  PROVE  Continues(t, DupAck(t, r))
<1> DEFINE counted == IF t.state = "CA_RECOVERY" THEN t
                      ELSE [t EXCEPT !.dupAcks = @ + 1]
           d == IF t.state = "CA_OPEN" THEN SetCongState(counted, "CA_DISORDER")
                ELSE counted
<1>1. SameState(t, counted) /\ counted.buf = t.buf
  <2>1. /\ counted \in Senders /\ counted.buf = t.buf
        /\ counted.state = t.state /\ counted.recover = t.recover
        /\ counted.recoverActive = t.recoverActive /\ counted.cc = t.cc
    BY DEF GoodSender, Senders
  <2> HIDE DEF counted
  <2> QED
    BY <2>1 DEF SameState, GoodSender, Steady
<1> HIDE DEF counted
<1>2. Continues(t, d) /\ d.buf = t.buf
  <2>1. CASE t.state = "CA_OPEN"
    <3> DEFINE o == SetCongState(counted, "CA_DISORDER")
    <3>1. /\ GoodSender(o) /\ o.buf = counted.buf /\ o.state = "CA_DISORDER"
          /\ Steady(counted.cc, o.cc)
      BY <1>1, SetCongStateSteady DEF SameState, CongStates
    <3> HIDE DEF o
    <3>2. Steady(t.cc, o.cc)
      BY <1>1, <3>1, SteadyTransitive DEF SameState
    <3>3. Continues(t, o)
      BY <1>1, <3>1, <3>2 DEF Continues
    <3> QED
      BY <1>1, <2>1, <3>1, <3>3 DEF o
  <2>2. CASE t.state # "CA_OPEN"
    <3>1. d = counted
      BY <2>2
    <3> HIDE DEF d
    <3> QED
      BY <1>1, <3>1, SameStateContinues
  <2> QED
    BY <2>1, <2>2
<1>3. \/ DupAck(t, r) = t
      \/ DupAck(t, r) = d
      \/ DupAck(t, r) = EnterRecovery(d, r)
  BY DEF DupAck, counted
<1> HIDE DEF d
<1>4. Continues(t, EnterRecovery(d, r))
  BY <1>2, EnterRecoveryContinues, ContinuesTransitive DEF Continues
<1> QED
  BY <1>2, <1>3, <1>4, SameStateReflexive, SameStateContinues

\* Resetting the count of duplicate ACKs.
LEMMA ForgetDupAcksSame ==
  ASSUME NEW t, GoodSender(t), NEW isDupack
  PROVE  SameState(t, ForgetDupAcks(t, isDupack))
<1> DEFINE u == ForgetDupAcks(t, isDupack)
<1>1. GoodSender(u)
  BY ForgetDupAcksKeeps DEF Keeps
<1>2. /\ u.buf = t.buf /\ u.state = t.state /\ u.recover = t.recover
      /\ u.recoverActive = t.recoverActive /\ u.cc = t.cc
  BY DEF GoodSender, Senders, ForgetDupAcks
<1> QED
  BY <1>1, <1>2 DEF SameState, Steady

\* NewAck.
LEMMA NewAckSame ==
  ASSUME NEW t, GoodSender(t), NEW resetRto \in BOOLEAN
  PROVE  SameState(t, NewAck(t, resetRto))
<1> DEFINE u == NewAck(t, resetRto)
<1>1. GoodSender(u)
  BY NewAckKeeps DEF Keeps
<1>2. /\ u.buf = t.buf /\ u.state = t.state /\ u.recover = t.recover
      /\ u.recoverActive = t.recoverActive /\ u.cc = t.cc
  BY DEF GoodSender, Senders, NewAck
<1> QED
  BY <1>1, <1>2 DEF SameState, Steady

\* PartialAck: the recovery goes on.
LEMMA PartialAckSame ==
  ASSUME NEW t, GoodSender(t), BelowRecover(t), NEW r \in Rates
  PROVE  SameState(t, PartialAck(t, r))
<1> DEFINE again == IF IsRetransmittedDataAcked(t.buf, t.buf.una)
                    THEN t ELSE DoRetransmit(t, r)
           n == NewAck(again, t.firstPartial)
           u == [n EXCEPT !.firstPartial = FALSE]
<1>1. t.buf.una < N /\ t.firstPartial \in BOOLEAN
  BY TxBufferAssumption
     DEF BelowRecover, GoodSender, GoodBuffer, Buffers, Senders
<1>2. SameState(t, again)
  BY <1>1, DoRetransmitSame, SameStateReflexive
<1> HIDE DEF again
<1>3. SameState(t, n)
  BY <1>1, <1>2, NewAckSame, SameStateTransitive DEF SameState
<1>4. u = PartialAck(t, r)
  BY DEF PartialAck, again
<1> HIDE DEF n
<1>5. /\ u \in Senders /\ u.buf = n.buf /\ u.state = n.state /\ u.cc = n.cc
      /\ u.recover = n.recover /\ u.recoverActive = n.recoverActive
  BY <1>3 DEF SameState, GoodSender, Senders
<1> HIDE DEF u
<1>6. SameState(t, u)
  BY <1>3, <1>5 DEF SameState, GoodSender
<1> QED
  BY <1>4, <1>6

\* FullAck, taken outside CA_CWR, leaves no state with a recovery point.
LEMMA FullAckOpen ==
  ASSUME NEW t, GoodSender(t), t.state # "CA_CWR", NEW isDupack \in BOOLEAN
  PROVE  /\ Continues(t, FullAck(t, isDupack))
         /\ FullAck(t, isDupack).state \notin {"CA_RECOVERY", "CA_CWR"}
<1> DEFINE o == SetCongState(t, "CA_OPEN")
           back == CASE t.state = "CA_DISORDER" /\ ~isDupack -> o
                     [] t.state = "CA_RECOVERY" ->
                          [o EXCEPT !.firstPartial = TRUE, !.dupAcks = 0]
                     [] t.state = "CA_LOSS" ->
                          [o EXCEPT !.firstPartial = TRUE]
                     [] OTHER -> t
           active == back.recoverActive /\ BelowRecover(t)
           done == [back EXCEPT !.recoverActive = active]
           u == FullAck(t, isDupack)
<1>1. GoodSender(o) /\ o.buf = t.buf /\ o.state = "CA_OPEN" /\ Steady(t.cc, o.cc)
  BY SetCongStateSteady DEF CongStates
<1>2. u = IF done.state = "CA_OPEN" THEN NewAck(done, TRUE) ELSE done
  BY DEF FullAck
<1> HIDE DEF o
<1>3. \/ back = o
      \/ back = [o EXCEPT !.firstPartial = TRUE, !.dupAcks = 0]
      \/ back = [o EXCEPT !.firstPartial = TRUE]
      \/ back = t /\ t.state \notin {"CA_RECOVERY", "CA_LOSS"}
  BY Zenon
<1> HIDE DEF back
<1>4. /\ GoodSender(back) /\ back.buf.una = t.buf.una /\ Steady(t.cc, back.cc)
      /\ back.state \notin {"CA_RECOVERY", "CA_CWR"}
  <2>1. ASSUME /\ back \in Senders /\ back.buf = o.buf /\ back.state = o.state
               /\ back.cc = o.cc
        PROVE  <1>4
    BY <1>1, <2>1 DEF GoodSender
  <2>2. CASE back = [o EXCEPT !.firstPartial = TRUE, !.dupAcks = 0]
    BY <1>1, <2>1, <2>2 DEF GoodSender, Senders
  <2>3. CASE back = [o EXCEPT !.firstPartial = TRUE]
    BY <1>1, <2>1, <2>3 DEF GoodSender, Senders
  <2>4. CASE back = o
    BY <1>1, <2>1, <2>4 DEF GoodSender
  <2>5. CASE back = t /\ t.state \notin {"CA_RECOVERY", "CA_LOSS"}
    BY <2>5 DEF Steady
  <2> QED
    BY <1>3, <2>2, <2>3, <2>4, <2>5
<1>5. active \in BOOLEAN
  <2>1. back.recoverActive \in BOOLEAN
    BY <1>4 DEF GoodSender, Senders
  <2> QED
    BY <2>1
<1> HIDE DEF active
<1>6. /\ done \in Senders /\ done.buf = back.buf /\ done.state = back.state
      /\ done.cc = back.cc
  BY <1>4, <1>5 DEF GoodSender, Senders
<1> HIDE DEF done
<1>7. /\ GoodSender(done) /\ done.buf.una = t.buf.una /\ Steady(t.cc, done.cc)
      /\ done.state \notin {"CA_RECOVERY", "CA_CWR"}
  BY <1>4, <1>6 DEF GoodSender
<1>8. SameState(done, NewAck(done, TRUE)) /\ SameState(done, done)
  BY <1>7, NewAckSame, SameStateReflexive
<1>9. SameState(done, u)
  BY <1>2, <1>8
<1> HIDE DEF u
<1>10. Steady(t.cc, u.cc)
  BY <1>7, <1>9, SteadyTransitive DEF SameState
<1>11. Continues(t, u) /\ u.state \notin {"CA_RECOVERY", "CA_CWR"}
  BY <1>7, <1>9, <1>10 DEF SameState, Continues
<1> QED
  BY <1>11 DEF u

\* The ECN part of ReceivedAck enters CA_CWR with a point at the end of what was
\* sent.
LEMMA ProcessEceContinues ==
  ASSUME NEW t, GoodSender(t), NEW oldHead, NEW ece \in BOOLEAN
  PROVE  /\ Continues(t, ProcessEce(t, oldHead, ece))
         /\ ProcessEce(t, oldHead, ece).buf = t.buf
<1> DEFINE heard == [t EXCEPT !.echo = t.buf.una, !.ecn = "ECN_ECE_RCVD"]
           u == ProcessEce(t, oldHead, ece)
<1>1. GoodSender(u)
  BY ProcessEceKeeps DEF Keeps
<1>2. t.buf.una <= t.buf.high
  BY DEF GoodSender, GoodBuffer
<1>3. u.cc = t.cc /\ u.buf = t.buf
  BY DEF GoodSender, Senders, ProcessEce, EnterCwr
<1>4. \/ /\ u.state = t.state /\ u.recover = t.recover
         /\ u.recoverActive = t.recoverActive
      \/ u.state = "CA_CWR" /\ u.recover = t.buf.high
  BY DEF GoodSender, Senders, ProcessEce, EnterCwr
<1> HIDE DEF u
<1>5. Continues(t, u)
  BY <1>1, <1>2, <1>3, <1>4 DEF Continues, Steady
<1> QED
  BY <1>3, <1>5 DEF u

\* After LeaveCwr the sender is in CA_CWR only up to its recovery point.
LEMMA LeaveCwrWithin ==
  ASSUME NEW t, GoodSender(t)
  PROVE  LET u == LeaveCwr(t, t.buf.una)
         IN  /\ Continues(t, u) /\ u.buf = t.buf
             /\ u.state = "CA_CWR" => u.buf.una <= u.recover
<1> DEFINE u == LeaveCwr(t, t.buf.una)
<1>1. GoodSender(u)
  BY LeaveCwrKeeps DEF Keeps
<1>2. t.recover \in Int /\ t.buf.una \in Int
  BY TxBufferAssumption DEF GoodSender, Senders, Buffers
<1>3. /\ u.buf = t.buf /\ u.cc = t.cc /\ u.recover = t.recover
      /\ u.recoverActive = t.recoverActive
      /\ u.state = t.state \/ u.state = "CA_OPEN"
  BY DEF GoodSender, Senders, LeaveCwr
<1>4. u.state = "CA_CWR" => ~(t.buf.una > t.recover)
  BY DEF GoodSender, Senders, LeaveCwr
<1> HIDE DEF u
<1>5. Continues(t, u)
  BY <1>1, <1>3 DEF Continues, Steady
<1>6. u.state = "CA_CWR" => u.buf.una <= u.recover
  BY <1>2, <1>3, <1>4
<1> QED
  BY <1>3, <1>5, <1>6 DEF u

\* ProcessAck ends a recovery whose point the ACK has reached.  What it needs of
\* the sender it starts from, besides its flag, is that an ACK that does not
\* move the head finds the recovery below its point.
LEMMA ProcessAckWithin ==
  ASSUME NEW t, GoodSender(t), NEW oldHead,
         t.state = "CA_CWR" => t.buf.una <= t.recover,
         t.state = "CA_RECOVERY" => t.recoverActive,
         t.state = "CA_RECOVERY" /\ t.buf.una = oldHead => t.buf.una < t.recover,
         NEW isDupack \in BOOLEAN, isDupack => t.buf.una < t.buf.high,
         NEW r \in Rates
  PROVE  Settles(t, ProcessAck(t, oldHead, isDupack, r))
<1> DEFINE d == IF isDupack THEN DupAck(t, r) ELSE t
           e == ForgetDupAcks(d, isDupack)
           u == ProcessAck(t, oldHead, isDupack, r)
<1>1. Continues(t, d)
  BY DupAckContinues, SameStateReflexive, SameStateContinues
<1>2. \/ t.buf.una = oldHead /\ u = d
      \/ BelowRecover(e) /\ u = PartialAck(e, r)
      \/ e.state = "CA_LOSS" /\ u = NewAck(e, TRUE)
      \/ e.state = "CA_CWR" /\ u = NewAck(e, TRUE)
      \/ e.state # "CA_CWR" /\ u = FullAck(e, isDupack)
  BY DEF ProcessAck
<1> HIDE DEF d, u
<1>3. Continues(t, e)
  BY <1>1, ForgetDupAcksSame, SameStateContinues, ContinuesTransitive
     DEF Continues
<1> HIDE DEF e
<1>4. e.state = "CA_CWR" => e.buf.una <= e.recover
  BY <1>3 DEF Continues
<1>5. e.state = "CA_RECOVERY" => e.recoverActive
  BY <1>3 DEF Continues, InRecovery
<1>6. ASSUME t.buf.una = oldHead, u = d
      PROVE  Settles(t, u)
  BY <1>1, <1>6 DEF Settles, Continues, Within, InRecovery
<1>7. ASSUME SameState(e, u), e.state = "CA_RECOVERY" => BelowRecover(e)
      PROVE  Settles(t, u)
  <2>1. Steady(t.cc, u.cc)
    BY <1>3, <1>7, SteadyTransitive DEF SameState, Continues
  <2>2. u.buf.una = e.buf.una /\ u.recover = e.recover /\ u.state = e.state
        /\ u.recoverActive = e.recoverActive
    BY <1>7 DEF SameState
  <2>3. Within(u)
    BY <1>4, <1>5, <1>7, <2>2 DEF Within, InRecovery, BelowRecover
  <2> QED
    BY <1>3, <1>7, <2>1, <2>3 DEF Settles, SameState, Continues
<1>8. ASSUME BelowRecover(e), u = PartialAck(e, r)
      PROVE  Settles(t, u)
  BY <1>3, <1>7, <1>8, PartialAckSame DEF Continues
<1>9. ASSUME e.state \in {"CA_LOSS", "CA_CWR"}, u = NewAck(e, TRUE)
      PROVE  Settles(t, u)
  BY <1>3, <1>7, <1>9, NewAckSame DEF Continues
<1>10. ASSUME e.state # "CA_CWR", u = FullAck(e, isDupack)
       PROVE  Settles(t, u)
  <2>1. Continues(e, u) /\ u.state \notin {"CA_RECOVERY", "CA_CWR"}
    BY <1>3, <1>10, FullAckOpen DEF Continues
  <2>2. Continues(t, u) /\ Within(u)
    BY <1>3, <2>1, ContinuesTransitive DEF Within
  <2> QED
    BY <2>2 DEF Settles, Continues
<1>11. Settles(t, u)
  BY <1>2, <1>6, <1>8, <1>9, <1>10
<1> QED
  BY <1>11 DEF u

\* The whole of ReceivedAck.
LEMMA AckProcessedWithin ==
  ASSUME NEW t, GoodSender(t), Within(t), NEW a, CanProcess(t, a),
         NEW ece \in BOOLEAN, NEW r \in Rates
  PROVE  LET u == AckProcessed(t, a, ece, r)
         IN  Within(u) /\ Steady(t.cc, u.cc)
<1> DEFINE oldHead  == t.buf.una
           updated  == Update(t.buf, a.sack)
           isDupack == updated.sacked # t.buf.sacked
           buf      == DiscardUpTo(updated, a.ack)
           acked    == [t EXCEPT !.buf = buf]
           l        == LeaveCwr(acked, a.ack)
           e        == ProcessEce(l, oldHead, ece)
           p        == ProcessAck(e, oldHead, isDupack, r)
           c        == CongControl(p.cc, a.ack, NewlyDelivered(t.buf, a))
           q        == [p EXCEPT !.cc = c]
           u        == SendPendingData(q, r)
           sacked   == t.buf.sacked \cup (a.sack \cap Sent(t.buf))
<1>1. /\ a.ack \in 0..N /\ t.buf.una \in 0..N /\ t.buf.high \in 0..N
      /\ N \in Nat
  BY TxBufferAssumption
     DEF CanProcess, Acks, GoodSender, GoodBuffer, Buffers
<1>2. /\ GoodBuffer(updated) /\ updated.una = t.buf.una
      /\ updated.high = t.buf.high /\ updated.sacked = sacked
  <2>1. t.buf.una \notin a.sack
    BY <1>1 DEF CanProcess
  <2> QED
    BY <2>1, UpdateGood DEF GoodSender
<1>3. isDupack => a.ack < t.buf.high
  <2> SUFFICES ASSUME isDupack
               PROVE  a.ack < t.buf.high
    OBVIOUS
  <2>1. PICK i \in a.sack : i \in Sent(t.buf)
    BY <1>2
  <2>2. i \in a.ack + 1 .. N - 1 /\ i \in t.buf.una .. t.buf.high - 1
    BY <2>1 DEF CanProcess, Sent
  <2> QED
    BY <1>1, <2>2
<1>4. isDupack \in BOOLEAN
  OBVIOUS
<1> HIDE DEF updated, isDupack
<1>5. /\ GoodBuffer(buf) /\ buf.una = a.ack
      /\ buf.high = IF a.ack > t.buf.high THEN a.ack ELSE t.buf.high
  <2>1. a.ack \notin sacked
    BY <1>1 DEF CanProcess
  <2> QED
    BY <1>1, <1>2, <2>1, DiscardUpToGood DEF CanProcess
<1> HIDE DEF buf, sacked
<1>6. /\ GoodSender(acked) /\ acked.buf = buf /\ acked.state = t.state
      /\ acked.recover = t.recover /\ acked.recoverActive = t.recoverActive
      /\ acked.cc = t.cc
  BY <1>5 DEF GoodBuffer, GoodSender, Senders
<1> HIDE DEF acked
<1>7. /\ Continues(acked, l) /\ l.buf = buf
      /\ l.state = "CA_CWR" => l.buf.una <= l.recover
  BY <1>5, <1>6, LeaveCwrWithin
<1> HIDE DEF l
<1>8. Continues(l, e) /\ e.buf = buf /\ Continues(acked, e)
  BY <1>7, ProcessEceContinues, ContinuesTransitive DEF Continues
<1> HIDE DEF e
<1>9. /\ e.state = "CA_CWR" => e.buf.una <= e.recover
      /\ e.state = "CA_RECOVERY" => e.recoverActive
      /\ e.state = "CA_RECOVERY" /\ e.buf.una = oldHead => e.buf.una < e.recover
  <2>1. e.state = "CA_CWR" => e.buf.una <= e.recover
    BY <1>7, <1>8 DEF Continues
  <2>2. e.state = "CA_RECOVERY" =>
          InRecovery(e) \/ (t.state = "CA_RECOVERY" /\ e.recover = t.recover
                              /\ e.recoverActive = t.recoverActive)
    BY <1>6, <1>8 DEF Continues
  <2> QED
    BY <2>1, <2>2 DEF Within, InRecovery
<1>10. isDupack => e.buf.una < e.buf.high
  BY <1>1, <1>3, <1>5, <1>8
<1>11. Settles(e, p)
  <2> HIDE DEF p, oldHead
  <2>1. GoodSender(e)
    BY <1>8 DEF Continues
  <2> QED
    BY <1>4, <1>9, <1>10, <2>1, ProcessAckWithin DEF p
<1> HIDE DEF p
<1>12. p.cc \in CongestionControls /\ GoodSender(p)
  BY <1>11 DEF Settles, GoodSender, Senders
<1>13. NewlyDelivered(t.buf, a) \in Int /\ a.ack \in Int
  BY <1>1, NewlyDeliveredType DEF GoodSender
<1>14. c \in CongestionControls /\ Steady(p.cc, c)
  BY <1>12, <1>13, CongControlType, CongControlSteady
<1> HIDE DEF c
<1>15. /\ GoodSender(q) /\ q.buf = p.buf /\ q.state = p.state
       /\ q.recover = p.recover /\ q.recoverActive = p.recoverActive
       /\ q.cc = c
  BY <1>12, <1>14 DEF GoodSender, Senders
<1> HIDE DEF q
<1>16. SameState(q, u)
  BY <1>15, SendPendingDataSame
<1>17. u = AckProcessed(t, a, ece, r)
  BY DEF AckProcessed, u, q, c, p, e, l, acked, buf, isDupack, updated
<1> HIDE DEF u
<1>18. Within(u)
  BY <1>11, <1>15, <1>16 DEF Settles, SameState, Within, InRecovery
<1>19. Steady(t.cc, u.cc)
  <2>1. Steady(t.cc, e.cc) /\ Steady(e.cc, p.cc) /\ Steady(q.cc, u.cc)
    BY <1>6, <1>8, <1>11, <1>16 DEF Continues, Settles, SameState
  <2> QED
    BY <1>14, <1>15, <2>1, SteadyTransitive
<1> QED
  BY <1>17, <1>18, <1>19

\* The whole of ReTxTimeout ends in CA_LOSS, or does nothing to the state.
LEMMA TimedOutWithin ==
  ASSUME NEW t, GoodSender(t), Within(t), NEW r \in Rates
  PROVE  LET u == TimedOut(t, r)
         IN  Within(u) /\ Steady(t.cc, u.cc)
<1> DEFINE o == SetCongState(t, "CA_LOSS")
           lossy == [o EXCEPT
                       !.buf = SetSentListLost(@), !.retries = @ - 1,
                       !.dupAcks = 0, !.recover = t.buf.high,
                       !.recoverActive = TRUE, !.cc.cwnd = 1,
                       !.pacing = FALSE, !.rto = FALSE]
           u == TimedOut(t, r)
<1>1. CASE t.buf.una = N \/ t.retries = 0
  <2>1. /\ u.buf = t.buf /\ u.state = t.state /\ u.recover = t.recover
        /\ u.recoverActive = t.recoverActive /\ u.cc = t.cc
    BY <1>1 DEF TimedOut, GoodSender, Senders
  <2> QED
    BY <2>1 DEF Within, InRecovery, Steady
<1>2. CASE t.buf.una # N /\ t.retries # 0
  <2>1. u = SendPendingData(lossy, r)
    BY <1>2 DEF TimedOut
  <2>2. /\ GoodSender(o) /\ o.buf = t.buf /\ o.state = "CA_LOSS"
        /\ o.retries = t.retries /\ Steady(t.cc, o.cc)
    <3>1. o.retries = t.retries
      BY DEF SetCongState, GoodSender, Senders
    <3> QED
      BY <3>1, SetCongStateSteady DEF CongStates
  <2> HIDE DEF o
  <2> DEFINE buf == SetSentListLost(o.buf)
             c == [o.cc EXCEPT !.cwnd = 1]
  <2>3. GoodBuffer(buf)
    BY <2>2, SetSentListLostGood DEF GoodSender
  <2>4. c \in CongestionControls /\ c.queue = o.cc.queue /\ c.rate = o.cc.rate
    BY <2>2 DEF GoodSender, Senders, CongestionControls
  <2>5. lossy = [o EXCEPT
                   !.buf = buf, !.retries = @ - 1, !.dupAcks = 0,
                   !.recover = t.buf.high, !.recoverActive = TRUE,
                   !.cc = c, !.pacing = FALSE, !.rto = FALSE]
    BY <2>2 DEF GoodSender, Senders
  <2> HIDE DEF buf, c, lossy, u
  <2>6. /\ t.retries - 1 \in 0..DataRetries /\ t.buf.high \in 0..N
        /\ buf \in Buffers
    <3>1. t.retries \in 0..DataRetries /\ t.retries # 0
      BY <1>2 DEF GoodSender, Senders
    <3>2. \A n \in 0..DataRetries : n # 0 => n - 1 \in 0..DataRetries
      BY SenderAssumption
    <3>3. t.buf.high \in 0..N
      <4>1. GoodBuffer(t.buf)
        BY DEF GoodSender
      <4> QED
        BY <4>1 DEF GoodBuffer, Buffers
    <3>4. buf \in Buffers
      BY <2>3 DEF GoodBuffer
    <3> QED
      BY <3>1, <3>2, <3>3, <3>4
  <2>7. /\ lossy \in Senders /\ lossy.buf = buf /\ lossy.state = "CA_LOSS"
        /\ lossy.cc = c
    BY <2>2, <2>4, <2>5, <2>6 DEF GoodSender, Senders
  <2>8. SameState(lossy, u)
    BY <2>1, <2>3, <2>7, SendPendingDataSame DEF GoodSender
  <2>9. Within(u)
    BY <2>7, <2>8 DEF SameState, Within
  <2>10. Steady(t.cc, c) /\ Steady(c, u.cc)
    BY <2>2, <2>4, <2>7, <2>8 DEF SameState, Steady, Sending
  <2> QED
    BY <2>9, <2>10, SteadyTransitive DEF u
<1> QED
  BY <1>1, <1>2

\* The start of a handler.
LEMMA BeginSame ==
  ASSUME NEW t, GoodSender(t)
  PROVE  SameState(t, Begin(t))
<1> DEFINE u == Begin(t)
<1>1. GoodSender(u)
  BY BeginKeeps DEF Keeps
<1>2. /\ t.cc \in CongestionControls /\ u.cc \in CongestionControls
      /\ t.cc.queue \in Seq(Intervals)
  BY <1>1 DEF GoodSender, Senders, CongestionControls
<1>3. /\ u.buf = t.buf /\ u.state = t.state /\ u.recover = t.recover
      /\ u.recoverActive = t.recoverActive
      /\ u.cc.queue = Aged(t.cc.queue) /\ u.cc.rate = t.cc.rate
  BY <1>2 DEF Begin, GoodSender, Senders, CongestionControls
<1>4. SameEnds(t.cc.queue, Aged(t.cc.queue))
  <2>1. 0 \in Int
    OBVIOUS
  <2> QED
    BY <1>2, <2>1, QueueKeepsEnded
<1> HIDE DEF u
<1>5. SameState(t, u)
  BY <1>1, <1>2, <1>3, <1>4, SameEndsSteady DEF SameState
<1> QED
  BY <1>5 DEF u

-----------------------------------------------------------------------------
\* The system.

\* A step that is no handler of the sender.
LEMMA SenderIdle ==
  ASSUME Within(s), s' = s
  PROVE  Within(s') /\ Steady(s.cc, s'.cc)
  BY DEF Within, InRecovery, Steady

\* A handler that ends in SendPendingData.
LEMMA SendingWithin ==
  ASSUME Within(s), NEW t, SameState(s, t), NEW r \in Rates,
         s' = SendPendingData(t, r)
  PROVE  Within(s') /\ Steady(s.cc, s'.cc)
<1>1. SameState(s, s')
  BY SendPendingDataSame, SameStateTransitive DEF SameState
<1> QED
  BY <1>1 DEF SameState, Within, InRecovery

\* The end of an interval changes neither the state nor the rate.
LEMMA IntervalEndsWithin ==
  ASSUME IInv, Within(s), IntervalEnds
  PROVE  Within(s') /\ s'.cc.rate = s.cc.rate
<1> DEFINE b == Begin(s)
<1>1. SameState(s, b) /\ b \in Senders /\ b.cc \in CongestionControls
  BY BeginSame DEF IInv, TypeOK, GoodSender, SameState, Senders
<1>2. b.cc.rate = s.cc.rate
  BY DEF IInv, TypeOK, Begin, Senders, CongestionControls
<1>3. s' = [b EXCEPT !.cc.queue[Len(s.cc.queue)].ended = TRUE]
  BY DEF IntervalEnds
<1> HIDE DEF b
<1>4. /\ s'.buf = b.buf /\ s'.state = b.state /\ s'.recover = b.recover
      /\ s'.recoverActive = b.recoverActive /\ s'.cc.rate = b.cc.rate
  BY <1>1, <1>3 DEF Senders, CongestionControls
<1> QED
  BY <1>1, <1>2, <1>4 DEF SameState, Within, InRecovery

\* What every step keeps.
LEMMA NextWithin ==
  ASSUME IInv, Within(s), [Next]_vars
  PROVE  /\ Within(s')
         /\ Sending(s.cc) => s'.cc.rate = s.cc.rate
<1> DEFINE Goal == Within(s') /\ (Sending(s.cc) => s'.cc.rate = s.cc.rate)
<1>1. GoodSender(s)
  BY DEF IInv, TypeOK, GoodSender
<1>2. SameState(s, Begin(s))
  BY <1>1, BeginSame
<1>3. GoodSender(Begin(s)) /\ Within(Begin(s))
  BY <1>2 DEF SameState, Within, InRecovery
<1>4. ASSUME Within(s') /\ Steady(s.cc, s'.cc)
      PROVE  Goal
  BY <1>4 DEF Steady
<1>5. CASE Start
  BY <1>2, <1>4, <1>5, SendingWithin DEF Start
<1>6. CASE ReceivedAck
  <2>1. PICK r \in Rates, ece \in BOOLEAN :
          s' = AckProcessed(Begin(s), Head(acks), ece, r)
    BY <1>6, SenderAssumption DEF ReceivedAck
  <2>2. CanProcess(Begin(s), Head(acks))
    BY <1>6, AckPresent DEF ReceivedAck
  <2>3. Within(s') /\ Steady(Begin(s).cc, s'.cc)
    BY <1>3, <2>1, <2>2, AckProcessedWithin
  <2> QED
    BY <1>2, <1>4, <2>3, SteadyTransitive DEF SameState
<1>7. CASE ReTxTimeout
  <2>1. PICK r \in Rates : s' = TimedOut(Begin(s), r)
    BY <1>7 DEF ReTxTimeout
  <2>2. Within(s') /\ Steady(Begin(s).cc, s'.cc)
    BY <1>3, <2>1, TimedOutWithin
  <2> QED
    BY <1>2, <1>4, <2>2, SteadyTransitive DEF SameState
<1>8. CASE PacingTimerExpires
  <2> DEFINE t == [Begin(s) EXCEPT !.pacing = FALSE]
  <2>1. PICK r \in Rates : s' = SendPendingData(t, r)
    BY <1>8 DEF PacingTimerExpires
  <2>2. /\ t \in Senders /\ t.buf = Begin(s).buf /\ t.state = Begin(s).state
        /\ t.recover = Begin(s).recover
        /\ t.recoverActive = Begin(s).recoverActive /\ t.cc = Begin(s).cc
    BY <1>3 DEF GoodSender, Senders
  <2> HIDE DEF t
  <2>3. SameState(s, t)
    BY <1>2, <2>2 DEF SameState, GoodSender
  <2> QED
    BY <1>4, <2>1, <2>3, SendingWithin
<1>9. CASE IntervalEnds
  BY <1>9, IntervalEndsWithin
<1>10. CASE s' = s
  BY <1>4, <1>10, SenderIdle
<1>11. \/ Start \/ ReceivedAck \/ ReTxTimeout \/ PacingTimerExpires
       \/ IntervalEnds \/ s' = s
  BY DEF Next, vars, ReceivedData, DelAckTimeout, Drop
<1> QED
  BY <1>5, <1>6, <1>7, <1>8, <1>9, <1>10, <1>11

\* Of the states with a recovery point, none is kept beyond it.
LEMMA WithinAlways == Spec => [](IInv /\ Within(s))
<1>1. Init => IInv /\ Within(s)
  <2>1. Init => Within(s)
    BY DEF Init, Within
  <2> QED
    BY <2>1, InitIInv
<1>2. (IInv /\ Within(s)) /\ [Next]_vars => (IInv /\ Within(s))'
  BY NextIInv, NextWithin
<1> QED
  BY <1>1, <1>2, PTL DEF Spec

\* Fast recovery is left by the very ACK that reaches its recovery point.
THEOREM RecoveryEnds == Spec => []RecoveryOpen
<1>1. Within(s) => RecoveryOpen
  BY DEF Within, InRecovery, RecoveryOpen
<1> QED
  BY <1>1, WithinAlways, PTL

\* CA_CWR is left by the ACK that passes its recovery point.
THEOREM CwrEnds == Spec => []CwrOpen
<1>1. Within(s) => CwrOpen
  BY DEF Within, CwrOpen
<1> QED
  BY <1>1, WithinAlways, PTL

\* The rate does not change while an interval is being sent, whatever handler
\* runs: what is reported of an interval is of one rate.
THEOREM RateIsSteady == Spec => RateSteady
<1>1. IInv /\ Within(s) /\ [Next]_vars
        => [s.cc.queue # <<>> /\ ~Back(s.cc.queue).ended
              => s'.cc.rate = s.cc.rate]_vars
  BY NextWithin DEF Sending
<1> QED
  BY <1>1, WithinAlways, PTL DEF Spec, RateSteady

-----------------------------------------------------------------------------
\* The count of duplicate ACKs, without ECN.

\* DupAckCounted, of any sender, with what it needs: a recovery point is active
\* only in CA_RECOVERY and CA_LOSS, and CA_DISORDER is left when the count
\* reaches the threshold.
Counted(t) ==
  /\ t.state # "CA_CWR"
  /\ t.state \in {"CA_OPEN", "CA_LOSS"} => t.dupAcks = 0
  /\ t.state = "CA_DISORDER" => t.dupAcks < DupThresh
  /\ t.state \in {"CA_OPEN", "CA_DISORDER"} => ~t.recoverActive

\* What leaves state, count and point alone leaves it true.
LEMMA CountedSame ==
  ASSUME NEW t, NEW u, Counted(t), u.state = t.state, u.dupAcks = t.dupAcks,
         u.recoverActive = t.recoverActive
  PROVE  Counted(u)
  BY DEF Counted

\* SendPendingData does.
LEMMA SendPendingDataCounted ==
  ASSUME NEW t, GoodSender(t), Counted(t), NEW r \in Rates
  PROVE  Counted(SendPendingData(t, r))
<1> DEFINE u == SendPendingData(t, r)
<1>1. /\ u.state = t.state /\ u.dupAcks = t.dupAcks
      /\ u.recoverActive = t.recoverActive
  BY DEF SendPendingData, SendDataPacket, GoodSender, Senders
<1> HIDE DEF u
<1>2. Counted(u)
  BY <1>1, CountedSame
<1> QED
  BY <1>2 DEF u

\* NewAck keeps the count, too.
LEMMA NewAckCounted ==
  ASSUME NEW t, GoodSender(t), Counted(t), NEW resetRto
  PROVE  Counted(NewAck(t, resetRto))
<1> DEFINE u == NewAck(t, resetRto)
<1>1. /\ u.state = t.state /\ u.dupAcks = t.dupAcks
      /\ u.recoverActive = t.recoverActive
  BY DEF NewAck, GoodSender, Senders
<1> HIDE DEF u
<1>2. Counted(u)
  BY <1>1, CountedSame
<1> QED
  BY <1>2 DEF u

\* A duplicate ACK that makes the count reach the threshold enters recovery.
LEMMA DupAckCounts ==
  ASSUME NEW t, GoodSender(t), t.buf.una < t.buf.high, Counted(t),
         NEW r \in Rates
  PROVE  Counted(DupAck(t, r))
<1>1. t.dupAcks \in Nat /\ DupThresh \in Nat /\ DupThresh > 0
  BY TxBufferAssumption DEF GoodSender, Senders
<1>2. CASE t.state = "CA_LOSS"
  BY <1>2 DEF DupAck
<1>3. CASE t.state = "CA_RECOVERY"
  <2>1. DupAck(t, r) = t
    BY <1>3 DEF DupAck
  <2> QED
    BY <2>1
<1>4. CASE t.state \in {"CA_OPEN", "CA_DISORDER"}
  <2> DEFINE counted == [t EXCEPT !.dupAcks = @ + 1]
             d == IF t.state = "CA_OPEN"
                  THEN SetCongState(counted, "CA_DISORDER") ELSE counted
             enter == \/ /\ d.dupAcks = DupThresh
                         /\ d.buf.una >= d.recover \/ ~d.recoverActive
                      \/ IsLost(d.buf, d.buf.una + 1)
  <2>1. /\ counted \in Senders /\ counted.buf = t.buf
        /\ counted.state = t.state /\ counted.dupAcks = t.dupAcks + 1
        /\ counted.recoverActive = t.recoverActive
    BY DEF GoodSender, Senders
  <2>2. DupAck(t, r) = IF d.state = "CA_DISORDER" /\ enter
                       THEN EnterRecovery(d, r) ELSE d
    BY <1>4 DEF DupAck
  <2> HIDE DEF counted
  <2>3. GoodSender(counted)
    BY <2>1 DEF GoodSender
  <2>4. /\ GoodSender(d) /\ d.buf = t.buf /\ d.state = "CA_DISORDER"
        /\ d.dupAcks = t.dupAcks + 1 /\ d.recoverActive = t.recoverActive
    <3>1. CASE t.state = "CA_OPEN"
      <4> DEFINE o == SetCongState(counted, "CA_DISORDER")
      <4>1. /\ GoodSender(o) /\ o.buf = counted.buf
            /\ o.state = "CA_DISORDER"
            /\ o.recoverActive = counted.recoverActive
        BY <2>3, SetCongStateSteady DEF CongStates
      <4>2. o.dupAcks = counted.dupAcks
        BY <2>1 DEF SetCongState, Senders
      <4> QED
        BY <2>1, <3>1, <4>1, <4>2
    <3>2. CASE t.state = "CA_DISORDER"
      BY <2>1, <2>3, <3>2
    <3> QED
      BY <1>4, <3>1, <3>2
  <2> HIDE DEF d
  <2>5. t.dupAcks < DupThresh /\ ~t.recoverActive
    BY <1>1, <1>4 DEF Counted
  <2>6. CASE enter
    <3>1. DupAck(t, r).state = "CA_RECOVERY"
      BY <2>2, <2>4, <2>6, EnterRecoveryContinues
    <3> QED
      BY <3>1 DEF Counted
  <2>7. CASE ~enter
    <3>1. DupAck(t, r) = d /\ d.dupAcks # DupThresh
      BY <2>2, <2>4, <2>5, <2>7
    <3>2. d.dupAcks < DupThresh
      BY <1>1, <2>4, <2>5, <3>1
    <3> QED
      BY <2>4, <2>5, <3>1, <3>2 DEF Counted
  <2> QED
    BY <2>6, <2>7
<1>5. t.state \in CongStates /\ t.state # "CA_CWR"
  BY DEF GoodSender, Senders, Counted
<1> QED
  BY <1>2, <1>3, <1>4, <1>5 DEF CongStates

\* An ACK that reaches the recovery point, or finds none, forgets both.
LEMMA FullAckCounted ==
  ASSUME NEW t, GoodSender(t), Counted(t), NEW isDupack \in BOOLEAN,
         ~isDupack => t.dupAcks = 0,
         t.state \in {"CA_RECOVERY", "CA_LOSS"} => ~BelowRecover(t)
  PROVE  Counted(FullAck(t, isDupack))
<1> DEFINE o == SetCongState(t, "CA_OPEN")
           back == CASE t.state = "CA_DISORDER" /\ ~isDupack -> o
                     [] t.state = "CA_RECOVERY" ->
                          [o EXCEPT !.firstPartial = TRUE, !.dupAcks = 0]
                     [] t.state = "CA_LOSS" ->
                          [o EXCEPT !.firstPartial = TRUE]
                     [] OTHER -> t
           active == back.recoverActive /\ BelowRecover(t)
           done == [back EXCEPT !.recoverActive = active]
           u == FullAck(t, isDupack)
<1>1. /\ GoodSender(o) /\ o.state = "CA_OPEN"
      /\ o.recoverActive = t.recoverActive
  BY SetCongStateSteady DEF CongStates
<1>2. o.dupAcks = t.dupAcks
  BY DEF SetCongState, GoodSender, Senders
<1>3. u = IF done.state = "CA_OPEN" THEN NewAck(done, TRUE) ELSE done
  BY DEF FullAck
<1> HIDE DEF o
<1>4. \/ back = o /\ t.state = "CA_DISORDER" /\ ~isDupack
      \/ /\ back = [o EXCEPT !.firstPartial = TRUE, !.dupAcks = 0]
         /\ t.state = "CA_RECOVERY"
      \/ back = [o EXCEPT !.firstPartial = TRUE] /\ t.state = "CA_LOSS"
      \/ back = t /\ t.state \notin {"CA_RECOVERY", "CA_LOSS"}
  BY Zenon
<1> HIDE DEF back
<1>5. /\ GoodSender(back)
      /\ \/ back.state = "CA_OPEN" /\ back.dupAcks = 0
         \/ back.state = "CA_DISORDER" /\ back.dupAcks < DupThresh
      /\ back.recoverActive => t.recoverActive
  <2>1. CASE back = o /\ t.state = "CA_DISORDER" /\ ~isDupack
    BY <1>1, <1>2, <2>1
  <2>2. CASE /\ back = [o EXCEPT !.firstPartial = TRUE, !.dupAcks = 0]
             /\ t.state = "CA_RECOVERY"
    BY <1>1, <2>2 DEF GoodSender, Senders
  <2>3. CASE back = [o EXCEPT !.firstPartial = TRUE] /\ t.state = "CA_LOSS"
    BY <1>1, <1>2, <2>3 DEF GoodSender, Senders, Counted
  <2>4. CASE back = t /\ t.state \notin {"CA_RECOVERY", "CA_LOSS"}
    BY <2>4 DEF GoodSender, Senders, CongStates, Counted
  <2> QED
    BY <1>4, <2>1, <2>2, <2>3, <2>4
<1>6. ~active
  <2>1. CASE t.state \in {"CA_RECOVERY", "CA_LOSS"}
    BY <2>1
  <2>2. CASE t.state \notin {"CA_RECOVERY", "CA_LOSS"}
    <3>1. ~t.recoverActive
      BY <2>2 DEF GoodSender, Senders, CongStates, Counted
    <3> QED
      BY <1>5, <3>1
  <2> QED
    BY <2>1, <2>2
<1>7. active = FALSE
  BY <1>6 DEF active
<1> HIDE DEF active
<1>8. /\ done \in Senders /\ done.buf = back.buf /\ done.state = back.state
      /\ done.dupAcks = back.dupAcks /\ done.recoverActive = FALSE
  BY <1>5, <1>7 DEF GoodSender, Senders
<1> HIDE DEF done
<1>9. GoodSender(done) /\ Counted(done)
  BY <1>5, <1>8 DEF GoodSender, Counted
<1> QED
  BY <1>3, <1>9, NewAckCounted

\* ProcessAck.
LEMMA ProcessAckCounted ==
  ASSUME NEW t, GoodSender(t), Counted(t), NEW oldHead,
         NEW isDupack \in BOOLEAN, isDupack => t.buf.una < t.buf.high,
         NEW r \in Rates
  PROVE  Counted(ProcessAck(t, oldHead, isDupack, r))
<1> DEFINE d == IF isDupack THEN DupAck(t, r) ELSE t
           e == ForgetDupAcks(d, isDupack)
           u == ProcessAck(t, oldHead, isDupack, r)
<1>1. GoodSender(d) /\ Counted(d)
  BY DupAckContinues, DupAckCounts DEF Continues
<1>2. \/ u = d
      \/ /\ BelowRecover(e) /\ e.state = "CA_RECOVERY"
         /\ u = PartialAck(e, r)
      \/ u = NewAck(e, TRUE)
      \/ /\ e.state \in {"CA_RECOVERY", "CA_LOSS"} => ~BelowRecover(e)
         /\ u = FullAck(e, isDupack)
  BY DEF ProcessAck
<1> HIDE DEF d, u
<1>3. /\ GoodSender(e)
      /\ e.state = d.state /\ e.recoverActive = d.recoverActive
      /\ isDupack => e.dupAcks = d.dupAcks
      /\ ~isDupack => e.dupAcks = 0
  <2>1. GoodSender(e)
    BY <1>1, ForgetDupAcksKeeps DEF Keeps
  <2> QED
    BY <1>1, <2>1 DEF ForgetDupAcks, GoodSender, Senders
<1> HIDE DEF e
<1>4. Counted(e)
  BY <1>1, <1>3, TxBufferAssumption DEF Counted
<1>5. ASSUME BelowRecover(e), e.state = "CA_RECOVERY"
      PROVE  Counted(PartialAck(e, r))
  <2>1. PartialAck(e, r).state = "CA_RECOVERY"
    BY <1>3, <1>5, PartialAckSame DEF SameState
  <2> QED
    BY <2>1 DEF Counted
<1>6. Counted(NewAck(e, TRUE))
  BY <1>3, <1>4, NewAckCounted
<1>7. ASSUME e.state \in {"CA_RECOVERY", "CA_LOSS"} => ~BelowRecover(e)
      PROVE  Counted(FullAck(e, isDupack))
  BY <1>3, <1>4, <1>7, FullAckCounted
<1>8. Counted(u)
  BY <1>1, <1>2, <1>5, <1>6, <1>7
<1> QED
  BY <1>8 DEF u

\* The whole of ReceivedAck.  Without ECN, LeaveCwr and ProcessEce do nothing.
LEMMA AckProcessedCounted ==
  ASSUME NEW t, GoodSender(t), Counted(t), t.ecn = "ECN_DISABLED",
         NEW a, CanProcess(t, a), NEW ece \in BOOLEAN, NEW r \in Rates
  PROVE  Counted(AckProcessed(t, a, ece, r))
<1> DEFINE oldHead  == t.buf.una
           updated  == Update(t.buf, a.sack)
           isDupack == updated.sacked # t.buf.sacked
           buf      == DiscardUpTo(updated, a.ack)
           acked    == [t EXCEPT !.buf = buf]
           p        == ProcessAck(acked, oldHead, isDupack, r)
           c        == CongControl(p.cc, a.ack, NewlyDelivered(t.buf, a))
           q        == [p EXCEPT !.cc = c]
           u        == SendPendingData(q, r)
           sacked   == t.buf.sacked \cup (a.sack \cap Sent(t.buf))
<1>1. /\ a.ack \in 0..N /\ t.buf.una \in 0..N /\ t.buf.high \in 0..N
      /\ N \in Nat
  BY TxBufferAssumption
     DEF CanProcess, Acks, GoodSender, GoodBuffer, Buffers
<1>2. /\ GoodBuffer(updated) /\ updated.una = t.buf.una
      /\ updated.high = t.buf.high /\ updated.sacked = sacked
  <2>1. t.buf.una \notin a.sack
    BY <1>1 DEF CanProcess
  <2> QED
    BY <2>1, UpdateGood DEF GoodSender
<1>3. isDupack => a.ack < t.buf.high
  <2> SUFFICES ASSUME isDupack
               PROVE  a.ack < t.buf.high
    OBVIOUS
  <2>1. PICK i \in a.sack : i \in Sent(t.buf)
    BY <1>2
  <2>2. i \in a.ack + 1 .. N - 1 /\ i \in t.buf.una .. t.buf.high - 1
    BY <2>1 DEF CanProcess, Sent
  <2> QED
    BY <1>1, <2>2
<1>4. isDupack \in BOOLEAN
  OBVIOUS
<1> HIDE DEF updated, isDupack
<1>5. /\ GoodBuffer(buf) /\ buf.una = a.ack
      /\ buf.high = IF a.ack > t.buf.high THEN a.ack ELSE t.buf.high
  <2>1. a.ack \notin sacked
    BY <1>1 DEF CanProcess
  <2> QED
    BY <1>1, <1>2, <2>1, DiscardUpToGood DEF CanProcess
<1> HIDE DEF buf, sacked
<1>6. /\ GoodSender(acked) /\ acked.buf = buf /\ acked.state = t.state
      /\ acked.dupAcks = t.dupAcks /\ acked.recoverActive = t.recoverActive
      /\ acked.ecn = "ECN_DISABLED"
  BY <1>5 DEF GoodBuffer, GoodSender, Senders
<1> HIDE DEF acked
<1>7. Counted(acked)
  BY <1>6, CountedSame
<1>8. ProcessEce(LeaveCwr(acked, a.ack), oldHead, ece) = acked
  <2>1. LeaveCwr(acked, a.ack) = acked
    BY <1>7 DEF LeaveCwr, Counted
  <2> QED
    BY <1>6, <2>1 DEF ProcessEce
<1>9. isDupack => acked.buf.una < acked.buf.high
  BY <1>1, <1>3, <1>5, <1>6
<1>10. Counted(p) /\ GoodSender(p)
  <2> HIDE DEF p, oldHead
  <2>1. isDupack => acked.buf.una < N
    BY <1>1, <1>5, <1>6, <1>9 DEF GoodBuffer, Buffers
  <2> QED
    BY <1>4, <1>6, <1>7, <1>9, <2>1, ProcessAckCounted, ProcessAckKeeps
       DEF p, Keeps
<1>11. u = AckProcessed(t, a, ece, r)
  <2> HIDE DEF oldHead, u, q, c, p
  <2> QED
    BY <1>8 DEF AckProcessed, u, q, c, p, oldHead, acked, buf, isDupack, updated
<1> HIDE DEF p
<1>12. c \in CongestionControls
  <2>1. /\ p.cc \in CongestionControls /\ a.ack \in Int
        /\ NewlyDelivered(t.buf, a) \in Int
    BY <1>1, <1>10, NewlyDeliveredType DEF GoodSender, Senders
  <2> QED
    BY <2>1, CongControlType
<1> HIDE DEF c
<1>13. /\ q \in Senders /\ q.buf = p.buf /\ q.state = p.state
       /\ q.dupAcks = p.dupAcks /\ q.recoverActive = p.recoverActive
  BY <1>10, <1>12 DEF GoodSender, Senders
<1> HIDE DEF q
<1>14. GoodSender(q) /\ Counted(q)
  BY <1>10, <1>13, CountedSame DEF GoodSender
<1> QED
  BY <1>11, <1>14, SendPendingDataCounted

\* The whole of ReTxTimeout: the count starts anew in CA_LOSS.
LEMMA TimedOutCounted ==
  ASSUME NEW t, GoodSender(t), Counted(t), NEW r \in Rates
  PROVE  Counted(TimedOut(t, r))
<1> DEFINE o == SetCongState(t, "CA_LOSS")
           lossy == [o EXCEPT
                       !.buf = SetSentListLost(@), !.retries = @ - 1,
                       !.dupAcks = 0, !.recover = t.buf.high,
                       !.recoverActive = TRUE, !.cc.cwnd = 1,
                       !.pacing = FALSE, !.rto = FALSE]
           u == TimedOut(t, r)
<1>1. CASE t.buf.una = N \/ t.retries = 0
  <2>1. /\ u.state = t.state /\ u.dupAcks = t.dupAcks
        /\ u.recoverActive = t.recoverActive
    BY <1>1 DEF TimedOut, GoodSender, Senders
  <2> HIDE DEF u
  <2>2. Counted(u)
    BY <2>1, CountedSame
  <2> QED
    BY <2>2 DEF u
<1>2. CASE t.buf.una # N /\ t.retries # 0
  <2>1. u = SendPendingData(lossy, r)
    BY <1>2 DEF TimedOut
  <2>2. GoodSender(o) /\ o.state = "CA_LOSS"
    BY SetCongStateSteady DEF CongStates
  <2> HIDE DEF o
  <2>3. lossy.state = "CA_LOSS" /\ lossy.dupAcks = 0
    BY <2>2 DEF GoodSender, Senders
  <2>4. u.state = lossy.state /\ u.dupAcks = lossy.dupAcks
    BY <2>1, <2>2 DEF SendPendingData, SendDataPacket, GoodSender, Senders
  <2> QED
    BY <2>3, <2>4 DEF Counted
<1> QED
  BY <1>1, <1>2

\* What every step keeps.
LEMMA NextCounted ==
  ASSUME IInv, ~EcnEnabled, Counted(s), [Next]_vars
  PROVE  Counted(s')
<1>1. GoodSender(s) /\ s.ecn = "ECN_DISABLED"
  BY DEF IInv, TypeOK, GoodSender, Waits
<1>2. GoodSender(Begin(s))
  BY <1>1, BeginSame DEF SameState
<1>3. /\ Begin(s).state = s.state /\ Begin(s).dupAcks = s.dupAcks
      /\ Begin(s).recoverActive = s.recoverActive
      /\ Begin(s).ecn = "ECN_DISABLED"
  BY <1>1 DEF Begin, GoodSender, Senders
<1>4. Counted(Begin(s))
  BY <1>3, CountedSame
<1>5. CASE Start
  BY <1>2, <1>4, <1>5, SendPendingDataCounted DEF Start
<1>6. CASE ReceivedAck
  <2>1. PICK r \in Rates, ece \in BOOLEAN :
          s' = AckProcessed(Begin(s), Head(acks), ece, r)
    BY <1>6, SenderAssumption DEF ReceivedAck
  <2>2. CanProcess(Begin(s), Head(acks))
    BY <1>6, AckPresent DEF ReceivedAck
  <2> QED
    BY <1>2, <1>3, <1>4, <2>1, <2>2, AckProcessedCounted
<1>7. CASE ReTxTimeout
  BY <1>2, <1>4, <1>7, TimedOutCounted DEF ReTxTimeout
<1>8. CASE PacingTimerExpires
  <2> DEFINE t == [Begin(s) EXCEPT !.pacing = FALSE]
  <2>1. PICK r \in Rates : s' = SendPendingData(t, r)
    BY <1>8 DEF PacingTimerExpires
  <2>2. /\ t \in Senders /\ t.buf = Begin(s).buf /\ t.state = Begin(s).state
        /\ t.dupAcks = Begin(s).dupAcks
        /\ t.recoverActive = Begin(s).recoverActive
    BY <1>2 DEF GoodSender, Senders
  <2> HIDE DEF t
  <2>3. GoodSender(t) /\ Counted(t)
    BY <1>2, <1>4, <2>2, CountedSame DEF GoodSender
  <2> QED
    BY <2>1, <2>3, SendPendingDataCounted
<1>9. CASE IntervalEnds
  <2> DEFINE b == Begin(s)
  <2>1. s' = [b EXCEPT !.cc.queue[Len(s.cc.queue)].ended = TRUE]
    BY <1>9 DEF IntervalEnds
  <2> HIDE DEF b
  <2>2. /\ s'.state = b.state /\ s'.dupAcks = b.dupAcks
        /\ s'.recoverActive = b.recoverActive
    BY <1>2, <2>1 DEF b, GoodSender, Senders
  <2>3. Counted(b)
    BY <1>4 DEF b
  <2> QED
    BY <2>2, <2>3 DEF Counted
<1>10. CASE s' = s
  BY <1>10
<1>11. \/ Start \/ ReceivedAck \/ ReTxTimeout \/ PacingTimerExpires
       \/ IntervalEnds \/ s' = s
  BY DEF Next, vars, ReceivedData, DelAckTimeout, Drop
<1> QED
  BY <1>5, <1>6, <1>7, <1>8, <1>9, <1>10, <1>11

\* Without ECN the assertions of DupAck hold: no duplicate ACK is remembered in
\* CA_OPEN, and the count never passes the threshold outside a recovery.
THEOREM DupAcksCounted ==
  ASSUME ~EcnEnabled
  PROVE  Spec => []DupAckCounted
<1>1. Init => IInv /\ Counted(s)
  <2>1. Init => Counted(s)
    BY DEF Init, Counted
  <2> QED
    BY <2>1, InitIInv
<1>2. (IInv /\ Counted(s)) /\ [Next]_vars => (IInv /\ Counted(s))'
  BY NextIInv, NextCounted
<1>3. IInv /\ Counted(s) => DupAckCounted
  <2>1. IInv => s.dupAcks \in Nat /\ DupThresh \in Nat
    BY TxBufferAssumption DEF IInv, TypeOK, Senders
  <2> QED
    BY <2>1 DEF Counted, DupAckCounted
<1> QED
  BY <1>1, <1>2, <1>3, PTL DEF Spec

-----------------------------------------------------------------------------
\* The timeouts.

\* After a timeout the sender probes, one segment at a time, until data is
\* acknowledged, which gives it all its retries back.
Probing(t) ==
  t.retries # DataRetries =>
    /\ t.state = "CA_LOSS" /\ t.cc.waitMode = TRUE /\ t.cc.cwnd = 1
    /\ InFlight(t.buf) <= 1

\* The sets InFlight counts are finite.
LEMMA BufferCounts ==
  ASSUME NEW b, GoodBuffer(b)
  PROVE  /\ IsFiniteSet(Sent(b)) /\ IsFiniteSet(b.sacked)
         /\ IsFiniteSet(b.lost) /\ IsFiniteSet(b.retrans)
         /\ Cardinality(Sent(b)) \in Nat /\ Cardinality(b.sacked) \in Nat
         /\ Cardinality(b.lost) \in Nat /\ Cardinality(b.retrans) \in Nat
         /\ InFlight(b) \in Int
<1>1. b.una \in Int /\ b.high - 1 \in Int /\ Sent(b) = b.una .. b.high - 1
  BY TxBufferAssumption DEF GoodBuffer, Buffers, Sent
<1>2. IsFiniteSet(Sent(b))
  BY <1>1, FS_Interval, Zenon
<1>3. b.sacked \in SUBSET Sent(b) /\ b.lost \in SUBSET Sent(b) /\ b.retrans \in SUBSET Sent(b)
  BY DEF GoodBuffer
<1>4. IsFiniteSet(b.sacked) /\ IsFiniteSet(b.lost) /\ IsFiniteSet(b.retrans)
  BY <1>2, <1>3, FS_Subset
<1>5. /\ Cardinality(Sent(b)) \in Nat /\ Cardinality(b.sacked) \in Nat
      /\ Cardinality(b.lost) \in Nat /\ Cardinality(b.retrans) \in Nat
  BY <1>2, <1>4, FS_CardinalityType
<1> QED
  BY <1>2, <1>4, <1>5 DEF InFlight

\* SACK blocks take no segment into flight: what becomes SACKed stops counting as
\* lost, if it did, and what is deemed lost stops counting.
LEMMA UpdateInFlight ==
  ASSUME NEW b, GoodBuffer(b), NEW blocks, b.una \notin blocks
  PROVE  InFlight(Update(b, blocks)) <= InFlight(b)
<1> DEFINE new == (blocks \cap Sent(b)) \ b.sacked
           top == IF b.highSack = None \/ b.highSack <= Max(new) + 1
                  THEN Max(new) ELSE b.highSack
           marked == [b EXCEPT !.sacked = @ \cup new, !.lost = @ \ new,
                               !.highSack = top]
           c == Update(b, blocks)
<1>1. CASE new = {}
  <2>1. c = b
    BY <1>1 DEF Update
  <2> QED
    BY <2>1, BufferCounts
<1>2. CASE new # {}
  <2>1. c = [marked EXCEPT !.lost = @ \cup DeemedLost(marked)]
    BY <1>2 DEF Update
  <2> HIDE DEF top
  <2>2. /\ c.una = b.una /\ c.high = b.high /\ c.retrans = b.retrans
        /\ c.sacked = b.sacked \cup new
        /\ c.lost = (b.lost \ new) \cup DeemedLost(marked)
    BY <2>1 DEF GoodBuffer, Buffers
  <2>3. GoodBuffer(c)
    BY UpdateGood
  <2> HIDE DEF c, marked
  <2>4. Sent(c) = Sent(b)
    BY <2>2 DEF Sent
  <2>5. /\ IsFiniteSet(new) /\ Cardinality(new) \in Nat
    <3>1. new \in SUBSET Sent(b)
      OBVIOUS
    <3> HIDE DEF new
    <3> QED
      BY <3>1, BufferCounts, FS_Subset, FS_CardinalityType
  <2>6. Cardinality(c.sacked) = Cardinality(b.sacked) + Cardinality(new)
    <3>1. b.sacked \cap new = {}
      OBVIOUS
    <3> HIDE DEF new
    <3>2. Cardinality(b.sacked \cup new)
            = Cardinality(b.sacked) + Cardinality(new) - Cardinality(b.sacked \cap new)
      BY <2>5, BufferCounts, FS_Union
    <3>3. Cardinality(b.sacked \cap new) = 0
      BY <3>1, FS_EmptySet
    <3> QED
      BY <2>2, <2>5, <3>2, <3>3, BufferCounts
  <2>7. Cardinality(c.lost) >= Cardinality(b.lost) - Cardinality(new)
    <3> HIDE DEF new
    <3>1. /\ IsFiniteSet(b.lost \ new)
          /\ Cardinality(b.lost \ new) = Cardinality(b.lost) - Cardinality(b.lost \cap new)
      BY BufferCounts, FS_Difference
    <3>2. /\ b.lost \cap new \in SUBSET new /\ b.lost \ new \in SUBSET c.lost
      BY <2>2
    <3>3. Cardinality(b.lost \cap new) <= Cardinality(new) /\ IsFiniteSet(b.lost \cap new)
      BY <2>5, <3>2, FS_Subset
    <3>4. Cardinality(b.lost \ new) <= Cardinality(c.lost)
      BY <2>3, <3>2, BufferCounts, FS_Subset
    <3>5. Cardinality(b.lost \cap new) \in Nat /\ Cardinality(b.lost \ new) \in Nat
      BY <3>1, <3>3, FS_CardinalityType
    <3>6. Cardinality(b.lost) \in Nat /\ Cardinality(c.lost) \in Nat
      BY <2>3, BufferCounts
    <3> QED
      BY <2>5, <3>1, <3>3, <3>4, <3>5, <3>6
  <2>8. /\ Cardinality(Sent(b)) \in Nat /\ Cardinality(b.sacked) \in Nat
        /\ Cardinality(b.lost) \in Nat /\ Cardinality(b.retrans) \in Nat
        /\ Cardinality(c.sacked) \in Nat /\ Cardinality(c.lost) \in Nat
    BY <2>3, BufferCounts
  <2>9. InFlight(c) = Cardinality(Sent(b)) - (Cardinality(c.sacked) + Cardinality(c.lost))
                        + Cardinality(b.retrans)
    BY <2>2, <2>4 DEF InFlight
  <2> HIDE DEF new
  <2>10. InFlight(c) <= InFlight(b)
    BY <2>5, <2>6, <2>7, <2>8, <2>9 DEF InFlight
  <2> QED
    BY <2>10 DEF c
<1> QED
  BY <1>1, <1>2

\* A segment sent, new or again, is one more in flight at most.
LEMMA CopyInFlight ==
  ASSUME NEW b, GoodBuffer(b), NEW seg, CanCopy(b, seg)
  PROVE  InFlight(Copy(b, seg)) <= InFlight(b) + 1
<1> DEFINE c == Copy(b, seg)
<1>1. /\ Cardinality(Sent(b)) \in Nat /\ Cardinality(b.sacked) \in Nat
      /\ Cardinality(b.lost) \in Nat /\ Cardinality(b.retrans) \in Nat
      /\ IsFiniteSet(Sent(b)) /\ IsFiniteSet(b.retrans)
  BY BufferCounts
<1>2. CASE seg = b.high
  <2>1. /\ c.una = b.una /\ c.high = b.high + 1 /\ c.retrans = b.retrans
        /\ c.sacked = b.sacked /\ c.lost = b.lost
    BY <1>2 DEF Copy, GoodBuffer, Buffers
  <2> HIDE DEF c
  <2>2. Sent(c) = Sent(b) \cup {b.high}
    BY <2>1, TxBufferAssumption DEF Sent, GoodBuffer, Buffers
  <2>3. Cardinality(Sent(c)) \in {Cardinality(Sent(b)), Cardinality(Sent(b)) + 1}
    BY <1>1, <2>2, FS_AddElement
  <2>4. InFlight(c) <= InFlight(b) + 1
    BY <1>1, <2>1, <2>3 DEF InFlight
  <2> QED
    BY <2>4 DEF c
<1>3. CASE seg # b.high
  <2>1. /\ c.una = b.una /\ c.high = b.high /\ c.retrans = b.retrans \cup {seg}
        /\ c.sacked = b.sacked /\ c.lost = b.lost
    BY <1>3 DEF Copy, GoodBuffer, Buffers
  <2> HIDE DEF c
  <2>2. Sent(c) = Sent(b)
    BY <2>1 DEF Sent
  <2>3. Cardinality(c.retrans) \in {Cardinality(b.retrans), Cardinality(b.retrans) + 1}
    BY <1>1, <2>1, FS_AddElement
  <2>4. InFlight(c) <= InFlight(b) + 1
    BY <1>1, <2>1, <2>2, <2>3 DEF InFlight
  <2> QED
    BY <2>4 DEF c
<1> QED
  BY <1>2, <1>3

\* A cumulative ACK that does not move the head changes nothing in flight.
LEMMA DiscardNothing ==
  ASSUME NEW b, GoodBuffer(b)
  PROVE  InFlight(DiscardUpTo(b, b.una)) = InFlight(b)
<1> DEFINE c == DiscardUpTo(b, b.una)
<1>1. b.una \in 0..N /\ b.high \in 0..N /\ N \in Nat /\ b.una <= b.high
      /\ b.sacked \subseteq Sent(b) /\ b.lost \subseteq Sent(b) /\ b.retrans \subseteq Sent(b)
  BY TxBufferAssumption DEF GoodBuffer, Buffers
<1>2. Sent(b) \cap 0 .. b.una - 1 = {}
  BY <1>1 DEF Sent
<1>3. /\ c.una = b.una /\ c.high = b.high
      /\ c.sacked = b.sacked \ 0 .. b.una - 1 /\ c.lost = b.lost \ 0 .. b.una - 1
      /\ c.retrans = b.retrans \ 0 .. b.una - 1
  BY <1>1 DEF DiscardUpTo, GoodBuffer, Buffers
<1> HIDE DEF c
<1>4. c.sacked = b.sacked /\ c.lost = b.lost /\ c.retrans = b.retrans
  BY <1>1, <1>2, <1>3
<1>5. InFlight(c) = InFlight(b)
  BY <1>3, <1>4 DEF InFlight, Sent
<1> QED
  BY <1>5 DEF c

\* SendPendingData leaves the retries alone, and keeps the sender probing.
LEMMA SendPendingDataProbes ==
  ASSUME NEW t, GoodSender(t), NEW r \in Rates
  PROVE  LET u == SendPendingData(t, r)
         IN  u.retries = t.retries /\ (Probing(t) => Probing(u))
<1> DEFINE seg == NextSeg(t.buf, t.state = "CA_RECOVERY")
           sends == /\ t.buf.una < N /\ ~t.closed /\ ~t.pacing
                    /\ InFlight(t.buf) < t.cc.cwnd /\ seg # None
           u == SendPendingData(t, r)
<1>1. CASE ~sends
  <2>1. u = t
    BY <1>1 DEF SendPendingData
  <2> QED
    BY <2>1
<1>2. CASE sends
  <2>1. u = SendDataPacket(t, seg, r)
    BY <1>2 DEF SendPendingData
  <2>2. CanCopy(t.buf, seg)
    BY <1>2, NextSegCanCopy DEF GoodSender
  <2> HIDE DEF seg
  <2>3. /\ u.retries = t.retries /\ u.state = t.state /\ u.buf = Copy(t.buf, seg)
        /\ u.cc = OnPacketSent(t.cc, seg, r)
    BY <2>1 DEF SendDataPacket, GoodSender, Senders
  <2>4. ASSUME t.cc.waitMode = TRUE
        PROVE  u.cc = t.cc
    BY <2>3, <2>4 DEF OnPacketSent
  <2>5. InFlight(u.buf) <= InFlight(t.buf) + 1 /\ InFlight(t.buf) \in Int
        /\ InFlight(u.buf) \in Int
    BY <2>2, <2>3, CopyInFlight, CopyGood, BufferCounts DEF GoodSender
  <2> HIDE DEF u
  <2>6. Probing(t) => Probing(u)
    <3> SUFFICES ASSUME Probing(t), t.retries # DataRetries
                 PROVE  Probing(u)
      BY <2>3 DEF Probing
    <3>1. /\ t.state = "CA_LOSS" /\ t.cc.waitMode = TRUE /\ t.cc.cwnd = 1
      BY DEF Probing
    <3>2. InFlight(t.buf) < 1
      BY <1>2, <3>1
    <3>3. u.cc = t.cc
      BY <2>4, <3>1
    <3>4. InFlight(u.buf) <= 1
      BY <2>5, <3>2
    <3> QED
      BY <2>3, <3>1, <3>3, <3>4, Zenon DEF Probing
  <2> QED
    BY <2>3, <2>6 DEF u
<1> QED
  BY <1>1, <1>2

\* Only NewAck, which gives all of them back, and ReTxTimeout change the retries.
LEMMA RetriesKept ==
  ASSUME NEW t, GoodSender(t), NEW r \in Rates
  PROVE  /\ \A st : SetCongState(t, st).retries = t.retries
         /\ DoRetransmit(t, r).retries = t.retries
         /\ EnterRecovery(t, r).retries = t.retries
         /\ \A b : NewAck(t, b).retries = DataRetries
<1>1. \A st : SetCongState(t, st).retries = t.retries
  BY DEF SetCongState, GoodSender, Senders
<1>2. DoRetransmit(t, r).retries = t.retries
  <2> DEFINE next == NextSeg(t.buf, FALSE)
             seg == IF next = None THEN t.buf.una ELSE next
  <2>1. DoRetransmit(t, r) = [SendDataPacket(t, seg, r) EXCEPT !.cc = OnPacketLost(@, seg)]
    BY DEF DoRetransmit
  <2> HIDE DEF seg
  <2> QED
    BY <2>1 DEF SendDataPacket, GoodSender, Senders
<1>3. EnterRecovery(t, r).retries = t.retries
  <2> DEFINE buf == IF IsLost(t.buf, t.buf.una) THEN t.buf ELSE MarkHeadAsLost(t.buf)
             in == [SetCongState(t, "CA_RECOVERY") EXCEPT
                      !.buf = buf, !.recover = t.buf.high, !.recoverActive = TRUE]
             next == NextSeg(in.buf, FALSE)
             seg == IF next = None THEN in.buf.una ELSE next
  <2>1. EnterRecovery(t, r) = [SendDataPacket(in, seg, r) EXCEPT !.cc = OnPacketLost(@, seg)]
    BY DEF EnterRecovery, DoRetransmit
  <2> HIDE DEF seg, buf
  <2> QED
    BY <2>1 DEF SendDataPacket, SetCongState, GoodSender, Senders
<1>4. \A b : NewAck(t, b).retries = DataRetries
  BY DEF NewAck, GoodSender, Senders
<1> QED
  BY <1>1, <1>2, <1>3, <1>4

\* DupAck, and what comes before ProcessAck in ReceivedAck, leave them alone.
LEMMA RetriesKeptBefore ==
  ASSUME NEW t, GoodSender(t), NEW r \in Rates
  PROVE  /\ DupAck(t, r).retries = t.retries
         /\ \A d : ForgetDupAcks(t, d).retries = t.retries
         /\ \A h, e : ProcessEce(t, h, e).retries = t.retries
         /\ \A a : LeaveCwr(t, a).retries = t.retries
<1>1. DupAck(t, r).retries = t.retries
  <2> DEFINE counted == IF t.state = "CA_RECOVERY" THEN t
                        ELSE [t EXCEPT !.dupAcks = @ + 1]
             o == SetCongState(counted, "CA_DISORDER")
             d == IF t.state = "CA_OPEN" THEN o ELSE counted
  <2>1. GoodSender(counted) /\ counted.retries = t.retries
    BY DEF GoodSender, Senders
  <2>2. \/ DupAck(t, r) = t
        \/ DupAck(t, r) = d
        \/ DupAck(t, r) = EnterRecovery(d, r)
    BY DEF DupAck
  <2> HIDE DEF counted
  <2>3. GoodSender(o) /\ o.retries = t.retries
    BY <2>1, RetriesKept, SetCongStateSteady DEF CongStates
  <2> HIDE DEF o
  <2>4. GoodSender(d) /\ d.retries = t.retries
    BY <2>1, <2>3
  <2> HIDE DEF d
  <2> QED
    BY <2>2, <2>4, RetriesKept
<1>2. \A d : ForgetDupAcks(t, d).retries = t.retries
  BY DEF ForgetDupAcks, GoodSender, Senders
<1>3. \A h, e : ProcessEce(t, h, e).retries = t.retries
  BY DEF ProcessEce, EnterCwr, GoodSender, Senders
<1>4. \A a : LeaveCwr(t, a).retries = t.retries
  BY DEF LeaveCwr, GoodSender, Senders
<1> QED
  BY <1>1, <1>2, <1>3, <1>4

\* PartialAck gives the retries back.
LEMMA PartialAckRetries ==
  ASSUME NEW t, GoodSender(t), BelowRecover(t), NEW r \in Rates
  PROVE  PartialAck(t, r).retries = DataRetries
<1> DEFINE again == IF IsRetransmittedDataAcked(t.buf, t.buf.una)
                    THEN t ELSE DoRetransmit(t, r)
           n == NewAck(again, t.firstPartial)
<1>1. t.buf.una < N /\ t.firstPartial \in BOOLEAN
  BY TxBufferAssumption
     DEF BelowRecover, GoodSender, GoodBuffer, Buffers, Senders
<1>2. GoodSender(again)
  BY <1>1, DoRetransmitSame DEF SameState
<1>3. PartialAck(t, r) = [n EXCEPT !.firstPartial = FALSE]
  BY DEF PartialAck
<1> HIDE DEF again
<1>4. n.retries = DataRetries /\ n \in Senders
  BY <1>1, <1>2, RetriesKept, NewAckSame DEF SameState, GoodSender
<1> HIDE DEF n
<1> QED
  BY <1>3, <1>4 DEF Senders

\* FullAck gives them back when it ends in CA_OPEN, as it does from CA_LOSS.
LEMMA FullAckRetries ==
  ASSUME NEW t, GoodSender(t), NEW isDupack \in BOOLEAN
  PROVE  /\ FullAck(t, isDupack).retries \in {t.retries, DataRetries}
         /\ t.state = "CA_LOSS" => FullAck(t, isDupack).retries = DataRetries
<1> DEFINE o == SetCongState(t, "CA_OPEN")
           back == CASE t.state = "CA_DISORDER" /\ ~isDupack -> o
                     [] t.state = "CA_RECOVERY" ->
                          [o EXCEPT !.firstPartial = TRUE, !.dupAcks = 0]
                     [] t.state = "CA_LOSS" ->
                          [o EXCEPT !.firstPartial = TRUE]
                     [] OTHER -> t
           active == back.recoverActive /\ BelowRecover(t)
           done == [back EXCEPT !.recoverActive = active]
           u == FullAck(t, isDupack)
<1>1. /\ GoodSender(o) /\ o.state = "CA_OPEN" /\ o.retries = t.retries
  <2>1. o.retries = t.retries
    BY DEF SetCongState, GoodSender, Senders
  <2> QED
    BY <2>1, SetCongStateSteady DEF CongStates
<1>2. u = IF done.state = "CA_OPEN" THEN NewAck(done, TRUE) ELSE done
  BY DEF FullAck
<1> HIDE DEF o
<1>3. \/ back = o
      \/ back = [o EXCEPT !.firstPartial = TRUE, !.dupAcks = 0]
      \/ back = [o EXCEPT !.firstPartial = TRUE]
      \/ back = t /\ t.state # "CA_LOSS"
  BY Zenon
<1> HIDE DEF back
<1>4. /\ back \in Senders /\ GoodBuffer(back.buf) /\ back.retries = t.retries
      /\ t.state = "CA_LOSS" => back.state = "CA_OPEN"
  <2>1. CASE back = [o EXCEPT !.firstPartial = TRUE, !.dupAcks = 0]
    BY <1>1, <2>1 DEF GoodSender, Senders
  <2>2. CASE back = [o EXCEPT !.firstPartial = TRUE]
    BY <1>1, <2>2 DEF GoodSender, Senders
  <2>3. CASE back = o
    BY <1>1, <2>3 DEF GoodSender
  <2>4. CASE back = t /\ t.state # "CA_LOSS"
    BY <2>4 DEF GoodSender
  <2> QED
    BY <1>3, <2>1, <2>2, <2>3, <2>4
<1>5. active \in BOOLEAN
  <2>1. back.recoverActive \in BOOLEAN
    BY <1>4 DEF Senders
  <2> QED
    BY <2>1
<1> HIDE DEF active
<1>6. /\ done \in Senders /\ done.buf = back.buf /\ done.state = back.state
      /\ done.retries = back.retries
  BY <1>4, <1>5 DEF Senders
<1> HIDE DEF done
<1>7. NewAck(done, TRUE).retries = DataRetries
  <2>1. GoodSender(done)
    BY <1>4, <1>6 DEF GoodSender
  <2> QED
    BY <2>1 DEF NewAck, GoodSender, Senders
<1> QED
  BY <1>2, <1>4, <1>6, <1>7

\* ProcessAck takes no retry away; and in CA_LOSS, or in a CA_CWR just entered,
\* an ACK that moves the head gives them all back.
LEMMA ProcessAckRetries ==
  ASSUME NEW t, GoodSender(t), NEW oldHead, NEW isDupack \in BOOLEAN,
         isDupack => t.buf.una < t.buf.high, NEW r \in Rates
  PROVE  LET u == ProcessAck(t, oldHead, isDupack, r)
         IN  /\ u.retries \in {t.retries, DataRetries}
             /\ t.buf.una # oldHead /\ t.state \in {"CA_LOSS", "CA_CWR"}
                  => u.retries = DataRetries
<1> DEFINE d == IF isDupack THEN DupAck(t, r) ELSE t
           e == ForgetDupAcks(d, isDupack)
           u == ProcessAck(t, oldHead, isDupack, r)
<1>1. GoodSender(d) /\ d.retries = t.retries
  BY DupAckContinues, RetriesKeptBefore DEF Continues
<1>2. t.state \in {"CA_LOSS", "CA_CWR"} => d.state = t.state
  BY DEF DupAck, GoodSender, Senders
<1>3. \/ t.buf.una = oldHead /\ u = d
      \/ BelowRecover(e) /\ u = PartialAck(e, r)
      \/ u = NewAck(e, TRUE)
      \/ /\ e.state # "CA_CWR"
         /\ u = FullAck(e, isDupack)
  BY DEF ProcessAck
<1> HIDE DEF d, u
<1>4. GoodSender(e) /\ e.retries = t.retries /\ e.state = d.state
  BY <1>1, ForgetDupAcksSame, RetriesKeptBefore DEF SameState
<1> HIDE DEF e
<1>5. BelowRecover(e) => PartialAck(e, r).retries = DataRetries
  BY <1>4, PartialAckRetries
<1>6. NewAck(e, TRUE).retries = DataRetries
  BY <1>4, RetriesKept
<1>7. /\ FullAck(e, isDupack).retries \in {t.retries, DataRetries}
      /\ e.state = "CA_LOSS" => FullAck(e, isDupack).retries = DataRetries
  BY <1>4, FullAckRetries
<1>8. /\ u.retries \in {t.retries, DataRetries}
      /\ t.buf.una # oldHead /\ t.state \in {"CA_LOSS", "CA_CWR"}
           => u.retries = DataRetries
  BY <1>1, <1>2, <1>3, <1>4, <1>5, <1>6, <1>7
<1> QED
  BY <1>8 DEF u

\* The scoreboard of ReceivedAck: when its head does not move, it has no more in
\* flight than before.
LEMMA AckedSender ==
  ASSUME NEW t, GoodSender(t), NEW a, CanProcess(t, a)
  PROVE  LET updated == Update(t.buf, a.sack)
             acked   == [t EXCEPT !.buf = DiscardUpTo(updated, a.ack)]
         IN  /\ GoodSender(acked) /\ acked.buf.una = a.ack
             /\ acked.state = t.state /\ acked.retries = t.retries
             /\ acked.cc = t.cc
             /\ updated.sacked # t.buf.sacked => acked.buf.una < acked.buf.high
             /\ a.ack = t.buf.una => InFlight(acked.buf) <= InFlight(t.buf)
<1> DEFINE updated == Update(t.buf, a.sack)
           buf     == DiscardUpTo(updated, a.ack)
           acked   == [t EXCEPT !.buf = buf]
           sacked  == t.buf.sacked \cup (a.sack \cap Sent(t.buf))
<1>1. /\ a.ack \in 0..N /\ t.buf.una \in 0..N /\ t.buf.high \in 0..N
      /\ N \in Nat /\ t.buf.una \notin a.sack
  BY TxBufferAssumption
     DEF CanProcess, Acks, GoodSender, GoodBuffer, Buffers
<1>2. /\ GoodBuffer(updated) /\ updated.una = t.buf.una
      /\ updated.high = t.buf.high /\ updated.sacked = sacked
      /\ InFlight(updated) <= InFlight(t.buf)
  BY <1>1, UpdateGood, UpdateInFlight DEF GoodSender
<1>3. updated.sacked # t.buf.sacked => a.ack < t.buf.high
  <2> SUFFICES ASSUME updated.sacked # t.buf.sacked
               PROVE  a.ack < t.buf.high
    OBVIOUS
  <2>1. PICK i \in a.sack : i \in Sent(t.buf)
    BY <1>2
  <2>2. i \in a.ack + 1 .. N - 1 /\ i \in t.buf.una .. t.buf.high - 1
    BY <2>1 DEF CanProcess, Sent
  <2> QED
    BY <1>1, <2>2
<1> HIDE DEF updated
<1>4. /\ GoodBuffer(buf) /\ buf.una = a.ack
      /\ buf.high = IF a.ack > t.buf.high THEN a.ack ELSE t.buf.high
  <2>1. a.ack \notin sacked
    BY <1>1 DEF CanProcess
  <2> QED
    BY <1>1, <1>2, <2>1, DiscardUpToGood DEF CanProcess
<1>5. a.ack = t.buf.una => InFlight(buf) = InFlight(updated)
  BY <1>2, DiscardNothing
<1> HIDE DEF buf, sacked
<1>6. /\ GoodSender(acked) /\ acked.buf = buf /\ acked.state = t.state
      /\ acked.retries = t.retries /\ acked.cc = t.cc
  BY <1>4 DEF GoodBuffer, GoodSender, Senders
<1> HIDE DEF acked
<1>7. /\ acked.buf.una = a.ack
      /\ updated.sacked # t.buf.sacked => acked.buf.una < acked.buf.high
      /\ a.ack = t.buf.una => InFlight(acked.buf) <= InFlight(t.buf)
  BY <1>1, <1>2, <1>3, <1>4, <1>5, <1>6
<1> QED
  BY <1>6, <1>7 DEF acked, buf, updated

\* The whole of ReceivedAck.  An ACK that acknowledges nothing new leaves a
\* probing sender as it is; one that does ends the probing.
LEMMA AckProcessedProbes ==
  ASSUME NEW t, GoodSender(t), Probing(t), NEW a, CanProcess(t, a),
         NEW ece \in BOOLEAN, NEW r \in Rates
  PROVE  Probing(AckProcessed(t, a, ece, r))
<1> DEFINE oldHead  == t.buf.una
           updated  == Update(t.buf, a.sack)
           isDupack == updated.sacked # t.buf.sacked
           acked    == [t EXCEPT !.buf = DiscardUpTo(updated, a.ack)]
           l        == LeaveCwr(acked, a.ack)
           e        == ProcessEce(l, oldHead, ece)
           p        == ProcessAck(e, oldHead, isDupack, r)
           c        == CongControl(p.cc, a.ack, NewlyDelivered(t.buf, a))
           q        == [p EXCEPT !.cc = c]
           u        == SendPendingData(q, r)
<1>1. /\ GoodSender(acked) /\ acked.buf.una = a.ack
      /\ acked.state = t.state /\ acked.retries = t.retries
      /\ acked.cc = t.cc
      /\ isDupack => acked.buf.una < acked.buf.high
      /\ a.ack = oldHead => InFlight(acked.buf) <= InFlight(t.buf)
  BY AckedSender
<1>2. isDupack \in BOOLEAN /\ a.ack \in Int /\ NewlyDelivered(t.buf, a) \in Int
  <2> HIDE DEF acked
  <2>1. a.ack \in 0..N
    BY DEF CanProcess, Acks
  <2> QED
    BY <2>1, NewlyDeliveredType, TxBufferAssumption DEF GoodSender
<1>3. u = AckProcessed(t, a, ece, r)
  BY DEF AckProcessed
<1> HIDE DEF updated, isDupack, acked, u
<1>4. /\ GoodSender(l) /\ l.buf = acked.buf /\ l.retries = t.retries
      /\ t.state # "CA_CWR" => l = acked
  <2>1. GoodSender(l) /\ l.buf = acked.buf
    BY <1>1, LeaveCwrWithin DEF Continues
  <2>2. t.state # "CA_CWR" => l = acked
    BY <1>1 DEF LeaveCwr
  <2> QED
    BY <1>1, <2>1, <2>2, RetriesKeptBefore
<1>5. l.state = "CA_LOSS" => e.state \in {"CA_LOSS", "CA_CWR"}
  BY <1>4 DEF ProcessEce, EnterCwr, GoodSender, Senders
<1>6. l.buf.una = oldHead => e.state = l.state /\ e.cc = l.cc
  <2>1. l.buf.una = oldHead => ~(l.buf.una > oldHead)
    <3>1. l.buf.una \in Int
      BY <1>1, <1>2, <1>4
    <3> QED
      BY <3>1
  <2> QED
    BY <1>4, <2>1 DEF ProcessEce, GoodSender, Senders
<1> HIDE DEF l
<1>7. GoodSender(e) /\ e.buf = acked.buf /\ e.retries = t.retries
  BY <1>4, ProcessEceContinues, RetriesKeptBefore DEF Continues
<1> HIDE DEF e
<1>8. /\ p.retries \in {t.retries, DataRetries}
      /\ e.buf.una # oldHead /\ e.state \in {"CA_LOSS", "CA_CWR"}
           => p.retries = DataRetries
  <2> HIDE DEF p, oldHead
  <2>1. isDupack => e.buf.una < e.buf.high
    BY <1>1, <1>7
  <2> QED
    BY <1>2, <1>7, <2>1, ProcessAckRetries DEF p
<1>9. e.buf.una = oldHead /\ e.state = "CA_LOSS" => p = e
  BY DEF ProcessAck, DupAck
<1>10. GoodSender(p)
  <2> HIDE DEF p, oldHead
  <2>1. isDupack => e.buf.una < N
    BY <1>1, <1>7, TxBufferAssumption DEF GoodSender, GoodBuffer, Buffers
  <2> QED
    BY <1>2, <1>7, <2>1, ProcessAckKeeps DEF p, Keeps
<1> HIDE DEF p
<1>11. /\ c \in CongestionControls
       /\ p.cc.waitMode = TRUE => c = p.cc
  BY <1>2, <1>10, CongControlType DEF CongControl, GoodSender, Senders
<1> HIDE DEF c
<1>12. /\ GoodSender(q) /\ q.buf = p.buf /\ q.state = p.state
       /\ q.retries = p.retries /\ q.cc = c
  BY <1>10, <1>11 DEF GoodSender, Senders
<1> HIDE DEF q
<1>13. u.retries = q.retries /\ (Probing(q) => Probing(u))
  BY <1>12, SendPendingDataProbes DEF u
<1>14. CASE t.retries = DataRetries
  BY <1>3, <1>8, <1>12, <1>13, <1>14 DEF Probing
<1>15. CASE t.retries # DataRetries
  <2>1. /\ t.state = "CA_LOSS" /\ t.cc.waitMode = TRUE /\ t.cc.cwnd = 1
        /\ InFlight(t.buf) <= 1
    BY <1>15 DEF Probing
  <2>2. l.state = "CA_LOSS" /\ l.cc = t.cc
    BY <1>1, <1>4, <2>1
  <2>3. CASE a.ack = oldHead
    <3>1. e.buf.una = oldHead /\ e.state = "CA_LOSS" /\ e.cc = t.cc
      BY <1>1, <1>4, <1>6, <1>7, <2>2, <2>3
    <3>2. q.state = "CA_LOSS" /\ q.cc = t.cc /\ q.buf = acked.buf
      BY <1>7, <1>9, <1>11, <1>12, <2>1, <3>1
    <3>3. InFlight(q.buf) <= 1
      <4>1. InFlight(acked.buf) \in Int /\ InFlight(t.buf) \in Int
        BY <1>1, BufferCounts DEF GoodSender
      <4> QED
        BY <1>1, <2>1, <2>3, <3>2, <4>1
    <3>4. Probing(q)
      BY <2>1, <3>2, <3>3 DEF Probing
    <3> QED
      BY <1>3, <1>13, <3>4
  <2>4. CASE a.ack # oldHead
    <3>1. p.retries = DataRetries
      BY <1>1, <1>5, <1>7, <1>8, <2>2, <2>4
    <3> QED
      BY <1>3, <1>12, <1>13, <3>1 DEF Probing
  <2> QED
    BY <2>3, <2>4
<1> QED
  BY <1>14, <1>15

\* The whole of ReTxTimeout.  The first timeout of a connection that still has
\* retries starts the probing; the one that finds none left, or nothing to send,
\* leaves the scoreboard as the probing had it.
LEMMA TimedOutProbes ==
  ASSUME DataRetries # 0,
         NEW t, GoodSender(t), Probing(t), NEW r \in Rates
  PROVE  LET u == TimedOut(t, r)
         IN  Probing(u) /\ InFlight(u.buf) <= 1
<1> DEFINE u == TimedOut(t, r)
<1>1. GoodBuffer(t.buf) /\ InFlight(t.buf) \in Int
  BY BufferCounts DEF GoodSender
<1>2. CASE t.buf.una = N \/ t.retries = 0
  <2>1. /\ u.buf = t.buf /\ u.state = t.state /\ u.cc = t.cc
        /\ u.retries = t.retries
    BY <1>2 DEF TimedOut, GoodSender, Senders
  <2>2. InFlight(t.buf) <= 1
    <3>1. CASE t.retries = 0
      BY <3>1 DEF Probing
    <3>2. CASE t.buf.una = N
      <4>1. Sent(t.buf) = {}
        BY <1>1, <3>2, TxBufferAssumption DEF GoodBuffer, Buffers, Sent
      <4>2. t.buf.sacked = {} /\ t.buf.lost = {} /\ t.buf.retrans = {}
        BY <1>1, <4>1 DEF GoodBuffer
      <4> QED
        BY <4>1, <4>2, FS_EmptySet DEF InFlight
    <3> QED
      BY <1>2, <3>1, <3>2
  <2> HIDE DEF u
  <2>3. Probing(u) /\ InFlight(u.buf) <= 1
    BY <2>1, <2>2 DEF Probing
  <2> QED
    BY <2>3 DEF u
<1>3. CASE t.buf.una # N /\ t.retries # 0
  <2> DEFINE o == SetCongState(t, "CA_LOSS")
             buf == SetSentListLost(o.buf)
             c == [o.cc EXCEPT !.cwnd = 1]
             lossy == [o EXCEPT
                         !.buf = SetSentListLost(@), !.retries = @ - 1,
                         !.dupAcks = 0, !.recover = t.buf.high,
                         !.recoverActive = TRUE, !.cc.cwnd = 1,
                         !.pacing = FALSE, !.rto = FALSE]
  <2>1. /\ GoodSender(o) /\ o.buf = t.buf /\ o.state = "CA_LOSS"
        /\ o.cc.waitMode = TRUE /\ o.retries = t.retries
    <3>1. o.retries = t.retries
      BY DEF SetCongState, GoodSender, Senders
    <3> QED
      BY <3>1, SetCongStateGood DEF CongStates
  <2>2. u = SendPendingData(lossy, r)
    BY <1>3 DEF TimedOut
  <2> HIDE DEF o, u
  <2>3. GoodBuffer(buf) /\ InFlight(buf) = 0
    BY <1>1, <2>1, SetSentListLostGood, TimeoutHasSegment
  <2>4. c \in CongestionControls /\ c.waitMode = TRUE /\ c.cwnd = 1
    BY <2>1 DEF GoodSender, Senders, CongestionControls
  <2>5. lossy = [o EXCEPT
                   !.buf = buf, !.retries = @ - 1, !.dupAcks = 0,
                   !.recover = t.buf.high, !.recoverActive = TRUE,
                   !.cc = c, !.pacing = FALSE, !.rto = FALSE]
    BY <2>1 DEF GoodSender, Senders
  <2> HIDE DEF buf, c, lossy
  <2>6. /\ t.retries - 1 \in 0..DataRetries /\ t.buf.high \in 0..N
        /\ buf \in Buffers
    <3>1. t.retries \in 0..DataRetries /\ t.retries # 0
      BY <1>3 DEF GoodSender, Senders
    <3>2. \A n \in 0..DataRetries : n # 0 => n - 1 \in 0..DataRetries
      BY SenderAssumption
    <3> QED
      BY <1>1, <2>3, <3>1, <3>2 DEF GoodBuffer, Buffers
  <2>7. /\ lossy \in Senders /\ lossy.buf = buf /\ lossy.state = "CA_LOSS"
        /\ lossy.cc = c
    BY <2>1, <2>4, <2>5, <2>6 DEF GoodSender, Senders
  <2>8. GoodSender(lossy) /\ Probing(lossy)
    BY <2>3, <2>4, <2>7 DEF GoodSender, Probing
  <2>9. Probing(u)
    BY <2>2, <2>8, SendPendingDataProbes
  <2>10. InFlight(u.buf) <= 1
    <3>1. u = lossy \/ \E seg : CanCopy(buf, seg) /\ u.buf = Copy(buf, seg)
      <4> DEFINE seg == NextSeg(lossy.buf, lossy.state = "CA_RECOVERY")
      <4>1. u = lossy \/ (seg # None /\ u = SendDataPacket(lossy, seg, r))
        BY <2>2 DEF SendPendingData
      <4>2. seg # None => CanCopy(lossy.buf, seg)
        BY <2>8, NextSegCanCopy DEF GoodSender
      <4> HIDE DEF seg
      <4>3. SendDataPacket(lossy, seg, r).buf = Copy(buf, seg)
        BY <2>7 DEF SendDataPacket, Senders
      <4> QED
        BY <2>7, <4>1, <4>2, <4>3
    <3>2. ASSUME NEW seg, CanCopy(buf, seg), u.buf = Copy(buf, seg)
          PROVE  InFlight(u.buf) <= 1
      BY <2>3, <3>2, CopyInFlight
    <3> QED
      BY <2>3, <2>7, <3>1, <3>2
  <2> QED
    BY <2>9, <2>10 DEF u
<1> QED
  BY <1>2, <1>3

\* What every step keeps; and what a timeout leaves.
LEMMA NextProbes ==
  ASSUME DataRetries # 0, IInv, Probing(s), [Next]_vars
  PROVE  /\ Probing(s')
         /\ ReTxTimeout => InFlight(s'.buf) <= 1
<1> DEFINE b == Begin(s)
<1>1. GoodSender(s)
  BY DEF IInv, TypeOK, GoodSender
<1>2. /\ GoodSender(b) /\ b.buf = s.buf /\ b.state = s.state
      /\ b.retries = s.retries /\ b.cc.waitMode = s.cc.waitMode
      /\ b.cc.cwnd = s.cc.cwnd
  BY <1>1, BeginSame DEF SameState, Begin, GoodSender, Senders, CongestionControls
<1> HIDE DEF b
<1>3. Probing(b)
  BY <1>2 DEF Probing
<1>4. CASE ReTxTimeout
  BY <1>2, <1>3, <1>4, TimedOutProbes DEF ReTxTimeout, b
<1>5. ASSUME ~ReTxTimeout
      PROVE  Probing(s')
  <2>1. CASE Start
    BY <1>2, <1>3, <2>1, SendPendingDataProbes DEF Start, b
  <2>2. CASE ReceivedAck
    <3>1. PICK r \in Rates, ece \in BOOLEAN :
            s' = AckProcessed(b, Head(acks), ece, r)
      BY <2>2, SenderAssumption DEF ReceivedAck, b
    <3>2. CanProcess(b, Head(acks))
      BY <2>2, AckPresent DEF ReceivedAck, b
    <3> QED
      BY <1>2, <1>3, <3>1, <3>2, AckProcessedProbes
  <2>3. CASE PacingTimerExpires
    <3> DEFINE t == [b EXCEPT !.pacing = FALSE]
    <3>1. PICK r \in Rates : s' = SendPendingData(t, r)
      BY <2>3 DEF PacingTimerExpires, b
    <3>2. /\ t \in Senders /\ t.buf = b.buf /\ t.state = b.state
          /\ t.retries = b.retries /\ t.cc = b.cc
      BY <1>2 DEF GoodSender, Senders
    <3> HIDE DEF t
    <3>3. GoodSender(t) /\ Probing(t)
      BY <1>2, <1>3, <3>2 DEF GoodSender, Probing
    <3> QED
      BY <3>1, <3>3, SendPendingDataProbes
  <2>4. CASE IntervalEnds
    <3>1. s' = [b EXCEPT !.cc.queue[Len(s.cc.queue)].ended = TRUE]
      BY <2>4 DEF IntervalEnds, b
    <3>2. /\ s'.buf = b.buf /\ s'.state = b.state /\ s'.retries = b.retries
          /\ s'.cc.waitMode = b.cc.waitMode /\ s'.cc.cwnd = b.cc.cwnd
      BY <1>2, <3>1 DEF GoodSender, Senders, CongestionControls
    <3> QED
      BY <1>3, <3>2 DEF Probing
  <2>5. CASE s' = s
    BY <2>5
  <2> QED
    BY <1>5, <2>1, <2>2, <2>3, <2>4, <2>5
       DEF Next, vars, ReceivedData, DelAckTimeout, Drop
<1> QED
  BY <1>4, <1>5

\* The assertion at the end of ReTxTimeout, of a sender that has retries at all:
\* the timeout that gives up, too, finds one segment in flight at most, because
\* the timeouts before it have left no more and no other handler adds to it.
THEOREM TimeoutsLeaveOne ==
  ASSUME DataRetries # 0
  PROVE  Spec => TimeoutLeavesOne
<1>1. Init => IInv /\ Probing(s)
  <2>1. Init => Probing(s)
    BY DEF Init, Probing
  <2> QED
    BY <2>1, InitIInv
<1>2. (IInv /\ Probing(s)) /\ [Next]_vars => (IInv /\ Probing(s))'
  BY NextIInv, NextProbes
<1>3. (IInv /\ Probing(s)) /\ [Next]_vars
        => [ReTxTimeout => InFlight(s'.buf) <= 1]_vars
  BY NextProbes
<1> QED
  BY <1>1, <1>2, <1>3, PTL DEF Spec, TimeoutLeavesOne

=============================================================================
