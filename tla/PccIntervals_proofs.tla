------------------------ MODULE PccIntervals_proofs ------------------------
(***************************************************************************)
(* The congestion control of PccSender under every order in which its      *)
(* socket calls it, alone and with the rate controller of PccFlow, for     *)
(* every value of the constants.  Alone: an interval in the queue has sent *)
(* a packet, its accounting stays within what it was summed from, and what *)
(* the cumulative ACK has passed is accounted for.  With the rate          *)
(* controller: each decision has its interval, and until a segment is sent *)
(* a second time no byte is credited twice, and every report has both ends *)
(* of the time its throughput is divided by.                               *)
(*                                                                         *)
(* A handler is seen as a walk through views of the sender (Views): the    *)
(* congestion control, the highest segment sent and what was handed to IP. *)
(* HandlerIn says which steps such a walk has, in which order, and which   *)
(* segments they are about; a set of views closed under them is not left.  *)
(* What the properties need is then a matter of one interval and one call. *)
(***************************************************************************)
EXTENDS PccFlow, PccSender_proofs

-----------------------------------------------------------------------------
\* What a handler does to the congestion control, and what it hands to IP.

\* The part of the sender the congestion control's properties are about.
View(t) == [cc |-> t.cc, high |-> t.buf.high, tx |-> t.tx]

Views == [cc: CongestionControls, high: 0..N, tx: Seq(Segments)]

\* A segment is sent; one is retransmitted, and reported lost; the state changes.
SentView(v, seg, r) ==
  [cc |-> OnPacketSent(v.cc, seg, r),
   high |-> IF seg = v.high THEN seg + 1 ELSE v.high, tx |-> Append(v.tx, seg)]

LostView(v, seg, r) ==
  [cc |-> OnPacketLost(OnPacketSent(v.cc, seg, r), seg),
   high |-> IF seg = v.high THEN seg + 1 ELSE v.high, tx |-> Append(v.tx, seg)]

StateView(v, st) ==
  [cc |-> CongestionStateSet(v.cc, st), high |-> v.high, tx |-> v.tx]

\* An ACK is heard.
HeardView(v, a, newly) ==
  [cc |-> CongControl(v.cc, a.ack, newly), high |-> v.high, tx |-> v.tx]

\* What a handler sends is not acknowledged, and new, or was sent before the handler
\* began, when h was the next new segment; it sends two segments at most.
MaySend(v, seg, una, h) ==
  seg \in una..N-1 /\ (seg = v.high \/ seg < h) /\ Len(v.tx) < 2

\* Sets of views which the parts of a handler do not leave.
ClosedSent(X, una, h) ==
  \A v \in X, seg \in Segments, r \in Rates :
    v \in Views /\ MaySend(v, seg, una, h) => SentView(v, seg, r) \in X

ClosedLost(X, una, h) ==
  \A v \in X, seg \in Segments, r \in Rates :
    /\ v \in Views /\ MaySend(v, seg, una, h)
    /\ EcnEnabled \/ ~v.cc.waitMode
    => LostView(v, seg, r) \in X

ClosedState(X) ==
  \A v \in X, st \in CongStates : v \in Views => StateView(v, st) \in X

\* The sender between the parts of a handler.
Ready(t, h) ==
  /\ GoodSender(t) /\ Waits(t) /\ h \in 0..N
  /\ t.buf.lost \subseteq 0..h-1
  /\ t.tx = <<>> \/ t.pacing
  /\ t.tx = <<>> /\ t.buf.una < t.buf.high => t.buf.high = h
  /\ t.buf.una < t.recover => t.buf.una < h
  /\ t.recover <= t.buf.high

\* Such a sender, in a set of views.
In(t, una, h, X) == Ready(t, h) /\ t.buf.una = una /\ View(t) \in X

\* A view of a sender is one.
LEMMA ViewType ==
  ASSUME NEW t, GoodSender(t)
  PROVE  View(t) \in Views /\ t.buf.una \in 0..N /\ t.buf.high \in 0..N
  BY DEF GoodSender, GoodBuffer, Senders, Buffers, View, Views

\* The parts of a handler lead from views to views.
LEMMA ViewsKept ==
  ASSUME NEW v \in Views
  PROVE  /\ \A seg \in Segments, r \in Rates :
              SentView(v, seg, r) \in Views /\ LostView(v, seg, r) \in Views
         /\ \A st \in CongStates : StateView(v, st) \in Views
         /\ \A a \in Acks, newly \in Int : HeardView(v, a, newly) \in Views
<1>1. v.cc \in CongestionControls /\ v.high \in 0..N /\ v.tx \in Seq(Segments)
  BY DEF Views
<1>2. ASSUME NEW seg \in Segments, NEW r \in Rates
      PROVE  SentView(v, seg, r) \in Views /\ LostView(v, seg, r) \in Views
  <2>1. seg \in Int /\ seg \in 0..N-1
    BY TxBufferAssumption DEF Segments
  <2>2. /\ OnPacketSent(v.cc, seg, r) \in CongestionControls
        /\ OnPacketLost(OnPacketSent(v.cc, seg, r), seg) \in CongestionControls
    BY <1>1, <2>1, OnPacketSentType, OnPacketLostType
  <2>3. Append(v.tx, seg) \in Seq(Segments)
    BY <1>1
  <2>4. (IF seg = v.high THEN seg + 1 ELSE v.high) \in 0..N
    BY <1>1, <2>1, TxBufferAssumption
  <2> QED
    BY <2>2, <2>3, <2>4 DEF SentView, LostView, Views
<1>3. ASSUME NEW st \in CongStates
      PROVE  StateView(v, st) \in Views
  BY <1>1, CongestionStateSetType DEF StateView, Views
<1>4. ASSUME NEW a \in Acks, NEW newly \in Int
      PROVE  HeardView(v, a, newly) \in Views
  <2>1. a.ack \in Int
    BY TxBufferAssumption DEF Acks
  <2> QED
    BY <1>1, <2>1, CongControlType DEF HeardView, Views
<1> QED
  BY <1>2, <1>3, <1>4

\* So the set of all views is closed.
LEMMA ViewsClosed ==
  \A una, h : ClosedSent(Views, una, h) /\ ClosedLost(Views, una, h) /\ ClosedState(Views)
  BY ViewsKept DEF ClosedSent, ClosedLost, ClosedState

\* What of a sender a view does not show may change.
LEMMA SameView ==
  ASSUME NEW una, NEW h, NEW X, NEW t, NEW u, In(t, una, h, X),
         u \in Senders, u.buf = t.buf, u.cc = t.cc, u.tx = t.tx,
         t.pacing => u.pacing, u.recover = t.recover, Waits(u)
  PROVE  In(u, una, h, X)
  BY DEF In, Ready, View, GoodSender

\* The segment to be sent is new or was sent before the handler began.
Known(t, seg, h) == seg = t.buf.high \/ seg < h

\* SendDataPacket.
LEMMA SendDataPacketIn ==
  ASSUME NEW una, NEW h, NEW X, NEW t, In(t, una, h, X), NEW r \in Rates,
         ClosedSent(X, una, h), NEW seg, CanCopy(t.buf, seg), Known(t, seg, h),
         Len(t.tx) < 2
  PROVE  LET u == SendDataPacket(t, seg, r)
         IN  /\ In(u, una, h, X) /\ u.tx = Append(t.tx, seg)
             /\ View(u) = SentView(View(t), seg, r)
<1> DEFINE u == SendDataPacket(t, seg, r)
<1>1. Keeps(t, u) /\ seg \in 0..N-1 /\ Copy(t.buf, seg).una = t.buf.una
  BY SendDataPacketKeeps, CopyGood DEF In, Ready, GoodSender
<1>2. /\ u.buf = Copy(t.buf, seg) /\ u.pacing /\ u.recover = t.recover
      /\ u.tx = Append(t.tx, seg) /\ u.cc = OnPacketSent(t.cc, seg, r)
  BY DEF In, Ready, GoodSender, Senders, SendDataPacket
<1> HIDE DEF u
<1>3. /\ u.buf.high = IF seg = t.buf.high THEN seg + 1 ELSE t.buf.high
      /\ u.buf.lost = t.buf.lost
  BY <1>2 DEF Copy, In, Ready, GoodSender, GoodBuffer, Buffers
<1>4. View(u) = SentView(View(t), seg, r)
  BY <1>2, <1>3 DEF View, SentView
<1>5. View(t) \in Views /\ View(t) \in X /\ View(t).high = t.buf.high
      /\ View(t).tx = t.tx
  BY ViewType DEF In, Ready, View
<1>6. seg \in una..N-1
  BY <1>1, TxBufferAssumption
     DEF CanCopy, Sent, In, Ready, GoodSender, GoodBuffer, Buffers
<1>7. View(u) \in X
  BY <1>1, <1>4, <1>5, <1>6 DEF ClosedSent, MaySend, Known, Segments
<1>8. u.tx # <<>>
  BY <1>2 DEF In, Ready, GoodSender, Senders
<1>9. In(u, una, h, X)
  <2>1. u.recover <= u.buf.high
    BY <1>2, <1>3, ViewType, TxBufferAssumption DEF In, Ready, GoodSender, Senders
  <2> QED
    BY <1>1, <1>2, <1>3, <1>7, <1>8, <2>1 DEF In, Ready, Keeps
<1> QED
  BY <1>2, <1>4, <1>9 DEF u

\* SendPendingData.  Nothing was sent before in this handler: the pacing timer would
\* be running.
LEMMA SendPendingDataIn ==
  ASSUME NEW una, NEW h, NEW X, NEW t, In(t, una, h, X), NEW r \in Rates,
         ClosedSent(X, una, h)
  PROVE  LET u == SendPendingData(t, r)
         IN  /\ In(u, una, h, X)
             /\ \/ u = t
                \/ \E seg \in Segments :
                     /\ MaySend(View(t), seg, una, h)
                     /\ View(u) = SentView(View(t), seg, r)
<1> DEFINE seg == NextSeg(t.buf, t.state = "CA_RECOVERY")
           pending == {i \in Sent(t.buf) : i \notin t.buf.retrans \cup t.buf.sacked}
           u == SendPendingData(t, r)
<1>1. CASE u = t
  BY <1>1
<1>2. CASE ~t.pacing /\ seg # None /\ u = SendDataPacket(t, seg, r)
  <2>1. CanCopy(t.buf, seg)
    BY <1>2, NextSegCanCopy DEF In, Ready, GoodSender
  <2>2. t.tx = <<>> /\ Len(t.tx) < 2
    BY <1>2 DEF In, Ready
  <2>3. pending \subseteq Nat /\ \A i \in pending : i < t.buf.high /\ t.buf.una < t.buf.high
    BY TxBufferAssumption DEF In, Ready, GoodSender, GoodBuffer, Buffers, Sent
  <2>4. Known(t, seg, h)
    <3>1. CASE seg = t.buf.high
      BY <3>1 DEF Known
    <3>2. CASE seg # t.buf.high
      <4>1. \/ seg = Min(pending \cap t.buf.lost) /\ pending \cap t.buf.lost # {}
            \/ seg = Min(pending) /\ pending # {}
        BY <1>2, <3>2 DEF NextSeg
      <4>2. seg \in pending
        <5> HIDE DEF seg, pending
        <5> QED
          BY <2>3, <4>1, MinInSet
      <4>3. t.buf.high = h /\ seg < t.buf.high
        BY <2>2, <2>3, <4>2 DEF In, Ready
      <4> QED
        BY <4>3 DEF Known
    <3> QED
      BY <3>1, <3>2
  <2> HIDE DEF seg, u
  <2>5. In(u, una, h, X) /\ View(u) = SentView(View(t), seg, r)
    BY <1>2, <2>1, <2>2, <2>4, SendDataPacketIn
  <2>6. seg \in una .. N-1 /\ seg \in Segments
    BY <2>1, TxBufferAssumption
       DEF CanCopy, Sent, In, Ready, GoodSender, GoodBuffer, Buffers, Segments
  <2>7. MaySend(View(t), seg, una, h)
    BY <2>2, <2>4, <2>6 DEF MaySend, Known, View
  <2> QED
    BY <2>5, <2>6, <2>7 DEF u
<1> QED
  BY <1>1, <1>2 DEF SendPendingData

\* DoRetransmit.
LEMMA DoRetransmitIn ==
  ASSUME NEW una, NEW h, NEW X, NEW t, In(t, una, h, X), NEW r \in Rates,
         ClosedLost(X, una, h), una < h, una < N, Len(t.tx) < 2,
         EcnEnabled \/ ~t.cc.waitMode
  PROVE  LET u == DoRetransmit(t, r)
         IN  In(u, una, h, X) /\ Len(u.tx) = Len(t.tx) + 1
<1> DEFINE next == NextSeg(t.buf, FALSE)
           seg == IF next = None THEN t.buf.una ELSE next
           pending == {i \in Sent(t.buf) : i \notin t.buf.retrans \cup t.buf.sacked}
           v == SendDataPacket(t, seg, r)
           u == DoRetransmit(t, r)
           Y == Views
<1>1. CanCopy(t.buf, seg) /\ Known(t, seg, h)
  <2>1. CASE next = None
    BY <2>1, TxBufferAssumption
       DEF In, Ready, GoodSender, GoodBuffer, Buffers, CanCopy, Sent, Known
  <2>2. CASE next # None
    <3>1. CanCopy(t.buf, seg)
      BY <2>2, NextSegCanCopy DEF In, Ready, GoodSender
    <3>2. \/ seg = Min(pending \cap t.buf.lost) /\ pending \cap t.buf.lost # {}
          \/ seg = t.buf.high
      BY <2>2 DEF NextSeg
    <3>3. pending \cap t.buf.lost \subseteq 0..h-1 /\ pending \subseteq Nat
      BY TxBufferAssumption DEF In, Ready, GoodSender, GoodBuffer, Buffers, Sent
    <3> HIDE DEF seg, pending
    <3>4. seg = t.buf.high \/ seg \in pending \cap t.buf.lost
      BY <3>2, <3>3, MinInSet
    <3>5. Known(t, seg, h)
      BY <3>3, <3>4, TxBufferAssumption DEF Known, In, Ready
    <3> QED
      BY <3>1, <3>5
  <2> QED
    BY <2>1, <2>2
<1>2. u = [v EXCEPT !.cc = OnPacketLost(@, seg)]
  BY DEF DoRetransmit
<1>3. GoodSender(t) /\ t.buf.una = una
  BY DEF In, Ready
<1>4. Keeps(t, u)
  BY <1>3, DoRetransmitKeeps
<1> HIDE DEF seg
<1>5. In(t, una, h, Y)
  BY <1>3, ViewType DEF In
<1>6. ClosedSent(Y, una, h)
  BY ViewsClosed
<1>7. In(v, una, h, Y) /\ v.tx = Append(t.tx, seg) /\ View(v) = SentView(View(t), seg, r)
  BY <1>1, <1>5, <1>6, SendDataPacketIn
<1>8. v \in Senders
  BY <1>7 DEF In, Ready, GoodSender
<1> HIDE DEF v, u
<1>9. /\ u.buf = v.buf /\ u.pacing = v.pacing /\ u.recover = v.recover
      /\ u.tx = v.tx /\ u.cc = OnPacketLost(v.cc, seg)
  BY <1>2, <1>8 DEF Senders
<1>10. View(u) = LostView(View(t), seg, r)
  BY <1>7, <1>9 DEF View, SentView, LostView
<1>11. seg \in una..N-1 /\ seg \in Segments
  BY <1>1, TxBufferAssumption
     DEF CanCopy, Sent, In, Ready, GoodSender, GoodBuffer, Buffers, Segments
<1>12. View(t) \in Views /\ View(t) \in X /\ MaySend(View(t), seg, una, h)
  BY <1>1, <1>3, <1>11, ViewType DEF MaySend, Known, View, In
<1>13. EcnEnabled \/ ~View(t).cc.waitMode
  BY DEF View
<1>14. View(u) \in X
  BY <1>10, <1>11, <1>12, <1>13 DEF ClosedLost
<1>15. In(u, una, h, X)
  BY <1>3, <1>4, <1>7, <1>9, <1>14 DEF In, Ready, Keeps
<1>16. Len(u.tx) = Len(t.tx) + 1
  BY <1>3, <1>7, <1>9, <1>11 DEF GoodSender, Senders
<1> QED
  BY <1>15, <1>16 DEF u

\* A change of state.
LEMMA SetCongStateIn ==
  ASSUME NEW una, NEW h, NEW X, NEW t, In(t, una, h, X), NEW st \in CongStates,
         ClosedState(X)
  PROVE  LET u == SetCongState(t, st)
         IN  /\ View(u) \in X /\ u \in Senders
             /\ u.buf = t.buf /\ u.tx = t.tx /\ u.state = st
             /\ u.cc = CongestionStateSet(t.cc, st)
             /\ u.recover = t.recover /\ u.pacing = t.pacing /\ u.ecn = t.ecn
<1> DEFINE u == SetCongState(t, st)
<1>1. GoodSender(t) /\ View(t) \in X
  BY DEF In, Ready
<1>2. u \in Senders
  BY <1>1, SetCongStateGood DEF GoodSender
<1>3. /\ u.buf = t.buf /\ u.tx = t.tx /\ u.state = st
      /\ u.cc = CongestionStateSet(t.cc, st)
      /\ u.recover = t.recover /\ u.pacing = t.pacing /\ u.ecn = t.ecn
  BY <1>1 DEF SetCongState, GoodSender, Senders
<1> HIDE DEF u
<1>4. View(u) = StateView(View(t), st)
  BY <1>3 DEF View, StateView
<1>5. View(u) \in X
  BY <1>1, <1>4, ViewType DEF ClosedState
<1> QED
  BY <1>2, <1>3, <1>5 DEF u

-----------------------------------------------------------------------------
\* Receiving an ACK.

\* EnterRecovery, from CA_DISORDER, when nothing was sent yet.
LEMMA EnterRecoveryIn ==
  ASSUME NEW una, NEW h, NEW X, NEW t, In(t, una, h, X), NEW r \in Rates,
         ClosedLost(X, una, h), ClosedState(X),
         t.state = "CA_DISORDER", t.tx = <<>>, una < t.buf.high
  PROVE  LET u == EnterRecovery(t, r)
         IN  In(u, una, h, X) /\ Len(u.tx) <= 1
<1> DEFINE buf == IF IsLost(t.buf, t.buf.una) THEN t.buf
                  ELSE MarkHeadAsLost(t.buf)
           c == SetCongState(t, "CA_RECOVERY")
           in == [c EXCEPT !.buf = buf, !.recover = t.buf.high,
                           !.recoverActive = TRUE]
<1>1. GoodSender(t) /\ t.buf.una = una /\ Waits(t)
  BY DEF In, Ready
<1>2. una \in 0..N /\ t.buf.high \in 0..N /\ t.buf.high = h /\ una < h /\ una < N
  BY <1>1, ViewType, TxBufferAssumption DEF In, Ready
<1>3. /\ GoodBuffer(buf) /\ buf.una = una /\ buf.high = h
      /\ buf.lost \subseteq 0..h-1
  <2>1. t.buf.lost \subseteq 0..h-1 /\ una \in 0..h-1
    BY <1>2, TxBufferAssumption DEF In, Ready
  <2>2. MarkHeadAsLost(t.buf).lost \subseteq t.buf.lost \cup {una}
    BY <1>1 DEF MarkHeadAsLost, GoodSender, GoodBuffer, Buffers
  <2> QED
    BY <1>1, <1>2, <2>1, <2>2, MarkHeadAsLostGood DEF GoodSender
<1> HIDE DEF buf
<1>4. /\ View(c) \in X /\ c \in Senders /\ c.buf = t.buf /\ c.tx = <<>>
      /\ c.state = "CA_RECOVERY" /\ c.cc.waitMode = t.cc.waitMode
      /\ c.pacing = t.pacing /\ c.ecn = t.ecn
  <2>1. "CA_RECOVERY" \in CongStates
    BY DEF CongStates
  <2>2. c.cc.waitMode = t.cc.waitMode
    BY <1>1, <2>1, SetCongStateGood
  <2> QED
    BY <2>1, <2>2, SetCongStateIn
<1> HIDE DEF c
<1>5. /\ in \in Senders /\ in.buf = buf /\ in.state = c.state /\ in.cc = c.cc
      /\ in.ecn = c.ecn /\ in.tx = c.tx /\ in.pacing = c.pacing
      /\ in.recover = t.buf.high
  BY <1>2, <1>3, <1>4 DEF GoodBuffer, Senders
<1> HIDE DEF in
<1>6. Waits(in)
  BY <1>1, <1>4, <1>5 DEF Waits
<1>7. View(in) = View(c)
  BY <1>2, <1>3, <1>4, <1>5 DEF View
<1>8. In(in, una, h, X)
  BY <1>2, <1>3, <1>4, <1>5, <1>6, <1>7 DEF In, Ready, GoodSender
<1>9. EcnEnabled \/ ~in.cc.waitMode
  BY <1>4, <1>5, <1>6 DEF Waits
<1>10. Len(in.tx) = 0
  BY <1>4, <1>5
<1> DEFINE u == DoRetransmit(in, r)
<1>11. In(u, una, h, X) /\ Len(u.tx) = 1
  <2> HIDE DEF u
  <2>1. Len(in.tx) < 2 /\ Len(in.tx) + 1 = 1
    BY <1>10
  <2> QED
    BY <1>2, <1>8, <1>9, <2>1, DoRetransmitIn DEF u
<1>12. u = EnterRecovery(t, r)
  BY DEF EnterRecovery, in, c, buf
<1> HIDE DEF u
<1>13. Len(u.tx) <= 1
  BY <1>11
<1> QED
  BY <1>11, <1>12, <1>13

\* DupAck.
LEMMA DupAckIn ==
  ASSUME NEW una, NEW h, NEW X, NEW t, In(t, una, h, X), NEW r \in Rates,
         ClosedLost(X, una, h), ClosedState(X),
         t.tx = <<>>, una < t.buf.high
  PROVE  LET u == DupAck(t, r)
         IN  In(u, una, h, X) /\ Len(u.tx) <= 1
<1> DEFINE counted == IF t.state = "CA_RECOVERY" THEN t
                      ELSE [t EXCEPT !.dupAcks = @ + 1]
           o == SetCongState(counted, "CA_DISORDER")
           d == IF t.state = "CA_OPEN" THEN o ELSE counted
<1>1. GoodSender(t) /\ Waits(t) /\ Len(t.tx) = 0
  BY DEF In, Ready
<1>2. /\ counted \in Senders /\ counted.buf = t.buf /\ counted.state = t.state
      /\ counted.cc = t.cc /\ counted.ecn = t.ecn /\ counted.tx = t.tx
      /\ counted.pacing = t.pacing /\ counted.recover = t.recover
  BY <1>1 DEF GoodSender, Senders
<1> HIDE DEF counted
<1>3. Waits(counted)
  BY <1>1, <1>2 DEF Waits
<1>4. In(counted, una, h, X)
  BY <1>2, <1>3, SameView
<1>5. /\ View(o) \in X /\ o \in Senders /\ o.buf = t.buf /\ o.tx = t.tx
      /\ o.state = "CA_DISORDER" /\ o.cc.waitMode = t.cc.waitMode
      /\ o.recover = t.recover /\ o.pacing = t.pacing /\ o.ecn = t.ecn
  <2>1. "CA_DISORDER" \in CongStates
    BY DEF CongStates
  <2>2. GoodSender(counted)
    BY <1>4 DEF In, Ready
  <2>3. o.cc.waitMode = counted.cc.waitMode
    BY <2>2, SetCongStateGood DEF CongStates
  <2> QED
    BY <1>2, <1>4, <2>1, <2>3, SetCongStateIn
<1> HIDE DEF o
<1>6. t.state = "CA_OPEN" => Waits(o)
  BY <1>1, <1>5 DEF Waits
<1>7. t.state = "CA_OPEN" => In(o, una, h, X)
  BY <1>5, <1>6 DEF In, Ready, GoodSender
<1>8. In(d, una, h, X) /\ d.tx = <<>> /\ d.buf = t.buf
  BY <1>2, <1>4, <1>5, <1>7
<1>9. \/ DupAck(t, r) = t
      \/ DupAck(t, r) = d
      \/ d.state = "CA_DISORDER" /\ DupAck(t, r) = EnterRecovery(d, r)
  BY DEF DupAck, counted, o
<1> HIDE DEF d
<1>10. d.state = "CA_DISORDER"
         => In(EnterRecovery(d, r), una, h, X) /\ Len(EnterRecovery(d, r).tx) <= 1
  BY <1>8, EnterRecoveryIn
<1>11. Len(d.tx) <= 1 /\ Len(t.tx) <= 1
  BY <1>1, <1>8
<1> QED
  BY <1>8, <1>9, <1>10, <1>11

\* Resetting the count of duplicate ACKs.
LEMMA ForgetDupAcksIn ==
  ASSUME NEW una, NEW h, NEW X, NEW t, In(t, una, h, X), NEW isDupack
  PROVE  LET u == ForgetDupAcks(t, isDupack)
         IN  In(u, una, h, X) /\ u.tx = t.tx
<1> DEFINE u == ForgetDupAcks(t, isDupack)
<1>1. GoodSender(t) /\ Waits(t)
  BY DEF In, Ready
<1>2. Keeps(t, u)
  BY <1>1, ForgetDupAcksKeeps
<1>3. /\ u.buf = t.buf /\ u.cc = t.cc /\ u.tx = t.tx
      /\ u.pacing = t.pacing /\ u.recover = t.recover
  BY <1>1 DEF ForgetDupAcks, GoodSender, Senders
<1> HIDE DEF u
<1>4. In(u, una, h, X)
  BY <1>1, <1>2, <1>3, SameView DEF Keeps, GoodSender
<1> QED
  BY <1>3, <1>4 DEF u

\* NewAck.
LEMMA NewAckIn ==
  ASSUME NEW una, NEW h, NEW X, NEW t, In(t, una, h, X), NEW resetRto \in BOOLEAN
  PROVE  LET u == NewAck(t, resetRto)
         IN  In(u, una, h, X) /\ u.tx = t.tx
<1> DEFINE u == NewAck(t, resetRto)
<1>1. GoodSender(t) /\ Waits(t)
  BY DEF In, Ready
<1>2. Keeps(t, u)
  BY <1>1, NewAckKeeps
<1>3. /\ u.buf = t.buf /\ u.cc = t.cc /\ u.tx = t.tx
      /\ u.pacing = t.pacing /\ u.recover = t.recover
  BY <1>1 DEF NewAck, GoodSender, Senders
<1> HIDE DEF u
<1>4. In(u, una, h, X)
  BY <1>1, <1>2, <1>3, SameView DEF Keeps, GoodSender
<1> QED
  BY <1>3, <1>4 DEF u

\* PartialAck.
LEMMA PartialAckIn ==
  ASSUME NEW una, NEW h, NEW X, NEW t, In(t, una, h, X), NEW r \in Rates,
         ClosedLost(X, una, h),
         Len(t.tx) <= 1, BelowRecover(t), t.state = "CA_RECOVERY"
  PROVE  In(PartialAck(t, r), una, h, X)
<1> DEFINE again == IF IsRetransmittedDataAcked(t.buf, t.buf.una)
                    THEN t ELSE DoRetransmit(t, r)
           n == NewAck(again, t.firstPartial)
           u == [n EXCEPT !.firstPartial = FALSE]
<1>1. GoodSender(t) /\ Waits(t) /\ t.buf.una = una /\ Len(t.tx) \in Nat
  BY DEF In, Ready, GoodSender, Senders
<1>2. t.firstPartial \in BOOLEAN /\ una < h /\ una < N /\ Len(t.tx) < 2
  <2>1. una < h
    BY DEF BelowRecover, In, Ready
  <2>2. h \in 0..N /\ una \in 0..N
    BY <1>1, ViewType DEF In, Ready
  <2> QED
    BY <1>1, <2>1, <2>2, TxBufferAssumption DEF GoodSender, Senders
<1>3. EcnEnabled \/ ~t.cc.waitMode
  BY <1>1 DEF Waits
<1>4. In(again, una, h, X)
  BY <1>2, <1>3, DoRetransmitIn
<1> HIDE DEF again
<1>5. In(n, una, h, X)
  BY <1>2, <1>4, NewAckIn
<1>6. u = PartialAck(t, r)
  BY DEF PartialAck, again
<1> HIDE DEF n
<1>7. GoodSender(n) /\ Waits(n)
  BY <1>5 DEF In, Ready
<1>8. /\ u \in Senders /\ u.buf = n.buf /\ u.state = n.state /\ u.cc = n.cc
      /\ u.ecn = n.ecn /\ u.tx = n.tx /\ u.pacing = n.pacing
      /\ u.recover = n.recover
  BY <1>7 DEF GoodSender, Senders
<1> HIDE DEF u
<1>9. Waits(u)
  BY <1>7, <1>8 DEF Waits
<1>10. In(u, una, h, X)
  BY <1>5, <1>8, <1>9, SameView
<1> QED
  BY <1>6, <1>10

\* FullAck.
LEMMA FullAckIn ==
  ASSUME NEW una, NEW h, NEW X, NEW t, In(t, una, h, X), NEW isDupack \in BOOLEAN,
         ClosedState(X)
  PROVE  In(FullAck(t, isDupack), una, h, X)
<1> DEFINE o == SetCongState(t, "CA_OPEN")
           back == CASE t.state = "CA_DISORDER" /\ ~isDupack -> o
                     [] t.state = "CA_RECOVERY" ->
                          [o EXCEPT !.firstPartial = TRUE, !.dupAcks = 0]
                     [] t.state = "CA_LOSS" ->
                          [o EXCEPT !.firstPartial = TRUE]
                     [] OTHER -> t
           active == back.recoverActive /\ BelowRecover(t)
           done == [back EXCEPT !.recoverActive = active]
<1>1. GoodSender(t) /\ Waits(t)
  BY DEF In, Ready
<1>2. /\ View(o) \in X /\ o \in Senders /\ o.buf = t.buf /\ o.tx = t.tx
      /\ o.state = "CA_OPEN" /\ o.cc.waitMode = FALSE
      /\ o.recover = t.recover /\ o.pacing = t.pacing /\ o.ecn = t.ecn
  <2>1. "CA_OPEN" \in CongStates
    BY DEF CongStates
  <2>2. o.cc.waitMode = FALSE
    BY <1>1, SetCongStateGood DEF CongStates
  <2> QED
    BY <2>1, <2>2, SetCongStateIn
<1>3. \/ back = o
      \/ back = [o EXCEPT !.firstPartial = TRUE, !.dupAcks = 0]
      \/ back = [o EXCEPT !.firstPartial = TRUE]
      \/ back = t
  <2> HIDE DEF o
  <2> QED
    BY Zenon
<1>4. FullAck(t, isDupack) = IF done.state = "CA_OPEN"
                             THEN NewAck(done, TRUE) ELSE done
  BY DEF FullAck
<1> HIDE DEF o, back
<1>5. Waits(o)
  BY <1>1, <1>2 DEF Waits
<1>6. In(o, una, h, X)
  BY <1>2, <1>5 DEF In, Ready, GoodSender
<1>7. In(back, una, h, X)
  <2>1. ASSUME /\ back \in Senders /\ back.buf = o.buf /\ back.state = o.state
               /\ back.cc = o.cc /\ back.ecn = o.ecn /\ back.tx = o.tx
               /\ back.pacing = o.pacing /\ back.recover = o.recover
        PROVE  In(back, una, h, X)
    <3>1. Waits(back)
      BY <1>5, <2>1 DEF Waits
    <3> QED
      BY <1>6, <2>1, <3>1, SameView
  <2>2. CASE back = [o EXCEPT !.firstPartial = TRUE, !.dupAcks = 0]
    BY <1>2, <2>1, <2>2 DEF Senders
  <2>3. CASE back = [o EXCEPT !.firstPartial = TRUE]
    BY <1>2, <2>1, <2>3 DEF Senders
  <2> QED
    BY <1>3, <1>6, <2>2, <2>3
<1>8. back \in Senders /\ Waits(back)
  BY <1>7 DEF In, Ready, GoodSender
<1>9. active \in BOOLEAN
  <2>1. back.recoverActive \in BOOLEAN
    BY <1>8 DEF Senders
  <2> QED
    BY <2>1
<1> HIDE DEF active
<1>10. /\ done \in Senders /\ done.buf = back.buf /\ done.state = back.state
       /\ done.cc = back.cc /\ done.ecn = back.ecn /\ done.tx = back.tx
       /\ done.pacing = back.pacing /\ done.recover = back.recover
  BY <1>8, <1>9 DEF Senders
<1> HIDE DEF done
<1>11. Waits(done)
  BY <1>8, <1>10 DEF Waits
<1>12. In(done, una, h, X)
  BY <1>7, <1>10, <1>11, SameView
<1>13. In(NewAck(done, TRUE), una, h, X)
  BY <1>12, NewAckIn
<1> QED
  BY <1>4, <1>12, <1>13

\* ProcessAck.
LEMMA ProcessAckIn ==
  ASSUME NEW una, NEW h, NEW X, NEW t, In(t, una, h, X), NEW r \in Rates,
         ClosedLost(X, una, h), ClosedState(X), t.tx = <<>>,
         NEW oldHead, NEW isDupack \in BOOLEAN, isDupack => una < t.buf.high
  PROVE  In(ProcessAck(t, oldHead, isDupack, r), una, h, X)
<1> DEFINE d == IF isDupack THEN DupAck(t, r) ELSE t
           e == ForgetDupAcks(d, isDupack)
<1>1. In(d, una, h, X) /\ Len(d.tx) <= 1
  <2>1. Len(t.tx) <= 1
    OBVIOUS
  <2> QED
    BY <2>1, DupAckIn
<1>2. \/ ProcessAck(t, oldHead, isDupack, r) = d
      \/ /\ BelowRecover(e) /\ e.state = "CA_RECOVERY"
         /\ ProcessAck(t, oldHead, isDupack, r) = PartialAck(e, r)
      \/ ProcessAck(t, oldHead, isDupack, r) = NewAck(e, TRUE)
      \/ ProcessAck(t, oldHead, isDupack, r) = FullAck(e, isDupack)
  BY DEF ProcessAck
<1> HIDE DEF d
<1>3. In(e, una, h, X) /\ e.tx = d.tx
  BY <1>1, ForgetDupAcksIn
<1> HIDE DEF e
<1>4. BelowRecover(e) /\ e.state = "CA_RECOVERY" => In(PartialAck(e, r), una, h, X)
  BY <1>1, <1>3, PartialAckIn
<1>5. In(NewAck(e, TRUE), una, h, X) /\ In(FullAck(e, isDupack), una, h, X)
  BY <1>3, NewAckIn, FullAckIn
<1> QED
  BY <1>1, <1>2, <1>4, <1>5

\* The way out of CA_CWR.
LEMMA LeaveCwrIn ==
  ASSUME NEW una, NEW h, NEW X, NEW t, In(t, una, h, X), NEW ack
  PROVE  LET u == LeaveCwr(t, ack)
         IN  In(u, una, h, X) /\ u.tx = t.tx /\ u.buf = t.buf
<1> DEFINE u == LeaveCwr(t, ack)
<1>1. GoodSender(t) /\ Waits(t)
  BY DEF In, Ready
<1>2. Keeps(t, u)
  BY <1>1, LeaveCwrKeeps
<1>3. /\ u.buf = t.buf /\ u.cc = t.cc /\ u.tx = t.tx
      /\ u.pacing = t.pacing /\ u.recover = t.recover
  BY <1>1 DEF LeaveCwr, GoodSender, Senders
<1> HIDE DEF u
<1>4. In(u, una, h, X)
  BY <1>1, <1>2, <1>3, SameView DEF Keeps, GoodSender
<1> QED
  BY <1>3, <1>4 DEF u

\* ProcessEce, which may set the recovery point, to what was sent.
LEMMA ProcessEceIn ==
  ASSUME NEW una, NEW h, NEW X, NEW t, In(t, una, h, X), t.tx = <<>>,
         NEW oldHead, NEW ece \in BOOLEAN
  PROVE  LET u == ProcessEce(t, oldHead, ece)
         IN  In(u, una, h, X) /\ u.tx = <<>> /\ u.buf = t.buf
<1> DEFINE u == ProcessEce(t, oldHead, ece)
<1>1. GoodSender(t) /\ Waits(t)
  BY DEF In, Ready
<1>2. Keeps(t, u)
  BY <1>1, ProcessEceKeeps
<1>3. /\ u.buf = t.buf /\ u.cc = t.cc /\ u.tx = t.tx /\ u.pacing = t.pacing
      /\ u.recover = t.recover \/ u.recover = t.buf.high
  BY <1>1 DEF ProcessEce, EnterCwr, GoodSender, Senders
<1> HIDE DEF u
<1>4. View(u) = View(t)
  BY <1>3 DEF View
<1>5. In(u, una, h, X)
  BY <1>1, <1>2, <1>3, <1>4, ViewType DEF In, Ready, Keeps
<1> QED
  BY <1>3, <1>5 DEF u

\* What ReceivedAck starts from when the scoreboard holds the ACK.
AckedView(t, a) ==
  [cc |-> t.cc, tx |-> <<>>,
   high |-> IF a.ack > t.buf.high THEN a.ack ELSE t.buf.high]

\* The sender a handler finds.
Idle(t) ==
  GoodSender(t) /\ Waits(t) /\ t.tx = <<>> /\ t.recover <= t.buf.high

\* The whole of ReceivedAck: ProcessAck within X, CongControl leads to Y, and the
\* rest stays there.
LEMMA AckProcessedIn ==
  ASSUME NEW t, Idle(t), NEW a, CanProcess(t, a), NEW ece \in BOOLEAN, NEW r \in Rates,
         NEW X, AckedView(t, a) \in X,
         ClosedLost(X, a.ack, t.buf.high), ClosedState(X),
         NEW Y, ClosedSent(Y, a.ack, t.buf.high),
         \A v \in X : v \in Views => HeardView(v, a, NewlyDelivered(t.buf, a)) \in Y
  PROVE  In(AckProcessed(t, a, ece, r), a.ack, t.buf.high, Y)
<1> DEFINE h        == t.buf.high
           oldHead  == t.buf.una
           updated  == Update(t.buf, a.sack)
           isDupack == updated.sacked # t.buf.sacked
           buf      == DiscardUpTo(updated, a.ack)
           acked    == [t EXCEPT !.buf = buf]
           l        == LeaveCwr(acked, a.ack)
           e        == ProcessEce(l, oldHead, ece)
           p        == ProcessAck(e, oldHead, isDupack, r)
           newly    == NewlyDelivered(t.buf, a)
           c        == CongControl(p.cc, a.ack, newly)
           q        == [p EXCEPT !.cc = c]
           u        == SendPendingData(q, r)
           sacked   == t.buf.sacked \cup (a.sack \cap Sent(t.buf))
<1>1. /\ a.ack \in 0..N /\ t.buf.una \in 0..N /\ t.buf.high \in 0..N
      /\ N \in Nat /\ GoodSender(t) /\ Waits(t) /\ t.tx = <<>>
      /\ t.recover <= t.buf.high /\ t.recover \in 0..N
  BY TxBufferAssumption
     DEF CanProcess, Acks, Idle, GoodSender, GoodBuffer, Buffers, Senders
<1>2. /\ GoodBuffer(updated) /\ updated.una = t.buf.una
      /\ updated.high = t.buf.high /\ updated.sacked = sacked
  <2>1. t.buf.una \notin a.sack
    BY <1>1 DEF CanProcess
  <2> QED
    BY <1>1, <2>1, UpdateGood DEF GoodSender
<1>3. isDupack => a.ack < t.buf.high
  <2> SUFFICES ASSUME isDupack
               PROVE  a.ack < t.buf.high
    OBVIOUS
  <2>1. PICK i \in a.sack : i \in Sent(t.buf)
    BY <1>2
  <2>2. i \in a.ack + 1 .. N - 1 /\ i \in t.buf.una .. t.buf.high - 1
    BY <2>1 DEF CanProcess, Sent
  <2> QED
    BY <1>1, <2>2
<1>4. isDupack \in BOOLEAN
  OBVIOUS
<1> HIDE DEF updated, isDupack
<1>5. /\ GoodBuffer(buf) /\ buf.una = a.ack
      /\ buf.high = IF a.ack > h THEN a.ack ELSE h
      /\ buf.lost \subseteq 0..h-1
  <2>1. a.ack \notin sacked
    BY <1>1 DEF CanProcess
  <2>2. buf.lost \subseteq updated.lost
    BY <1>2 DEF DiscardUpTo, GoodBuffer, Buffers
  <2>3. updated.lost \subseteq 0..h-1
    BY <1>1, <1>2 DEF GoodBuffer, Buffers, Sent
  <2> HIDE DEF buf
  <2> QED
    BY <1>1, <1>2, <2>1, <2>2, <2>3, DiscardUpToGood DEF CanProcess, buf
<1> HIDE DEF buf, sacked
<1>6. /\ acked \in Senders /\ acked.buf = buf /\ acked.recover = t.recover
      /\ acked.cc = t.cc /\ acked.tx = <<>> /\ acked.state = t.state
      /\ acked.ecn = t.ecn
  BY <1>1, <1>5 DEF GoodBuffer, GoodSender, Senders
<1> HIDE DEF acked
<1>7. In(acked, a.ack, h, X)
  <2>1. Waits(acked)
    BY <1>1, <1>6 DEF Waits
  <2>2. View(acked) = AckedView(t, a)
    BY <1>5, <1>6 DEF View, AckedView
  <2> QED
    BY <1>1, <1>5, <1>6, <2>1, <2>2 DEF In, Ready, GoodSender
<1>8. In(l, a.ack, h, X) /\ l.tx = <<>> /\ l.buf = buf
  BY <1>6, <1>7, LeaveCwrIn
<1> HIDE DEF l
<1>9. In(e, a.ack, h, X) /\ e.tx = <<>> /\ e.buf = buf
  BY <1>8, ProcessEceIn
<1> HIDE DEF e
<1>10. In(p, a.ack, h, X)
  <2>1. isDupack => a.ack < e.buf.high
    BY <1>1, <1>3, <1>5, <1>9
  <2> QED
    BY <1>4, <1>9, <2>1, ProcessAckIn
<1> HIDE DEF p
<1>11. GoodSender(p) /\ Waits(p) /\ p.cc \in CongestionControls
  BY <1>10 DEF In, Ready, GoodSender, Senders
<1>12. newly \in Int /\ a.ack \in Int
  BY <1>1, NewlyDeliveredType DEF GoodSender
<1>13. c \in CongestionControls /\ c.waitMode = p.cc.waitMode
  BY <1>11, <1>12, CongControlType
<1>14. c = CongControl(p.cc, a.ack, newly)
  OBVIOUS
<1> HIDE DEF c, newly
<1>15. /\ q \in Senders /\ q.buf = p.buf /\ q.recover = p.recover
       /\ q.cc = c /\ q.tx = p.tx /\ q.pacing = p.pacing /\ q.state = p.state
       /\ q.ecn = p.ecn
  BY <1>11, <1>13 DEF GoodSender, Senders
<1> HIDE DEF q
<1>16. In(q, a.ack, h, Y)
  <2>1. Waits(q)
    BY <1>11, <1>13, <1>15 DEF Waits
  <2>2. View(q) = HeardView(View(p), a, newly)
    BY <1>14, <1>15 DEF View, HeardView
  <2>3. View(p) \in X /\ View(p) \in Views
    BY <1>10, <1>11, ViewType DEF In
  <2>4. View(q) \in Y
    BY <2>2, <2>3 DEF newly
  <2> QED
    BY <1>10, <1>15, <2>1, <2>4 DEF In, Ready, GoodSender
<1>17. In(u, a.ack, h, Y)
  BY <1>16, SendPendingDataIn
<1>18. u = AckProcessed(t, a, ece, r)
  BY DEF AckProcessed, u, q, c, newly, p, e, l, acked, buf, isDupack, updated
<1> QED
  BY <1>17, <1>18

\* What ReTxTimeout starts SendPendingData with.
LossView(t) ==
  [cc |-> [CongestionStateSet(t.cc, "CA_LOSS") EXCEPT !.cwnd = 1],
   high |-> t.buf.high, tx |-> <<>>]

\* The whole of ReTxTimeout: it ends with the congestion control as it was, or
\* waits, and sends.
LEMMA TimedOutIn ==
  ASSUME NEW t, Idle(t), NEW r \in Rates,
         NEW X, View(t) \in X, LossView(t) \in X, ClosedSent(X, t.buf.una, t.buf.high)
  PROVE  In(TimedOut(t, r), t.buf.una, t.buf.high, X)
<1> DEFINE o == SetCongState(t, "CA_LOSS")
           lossy == [o EXCEPT
                       !.buf = SetSentListLost(@), !.retries = @ - 1,
                       !.dupAcks = 0, !.recover = t.buf.high,
                       !.recoverActive = TRUE, !.cc.cwnd = 1,
                       !.pacing = FALSE, !.rto = FALSE]
           u == TimedOut(t, r)
<1>1. /\ t.buf.una \in 0..N /\ t.buf.high \in 0..N
      /\ N \in Nat /\ GoodSender(t) /\ Waits(t) /\ t.tx = <<>>
      /\ t.recover <= t.buf.high /\ t.recover \in 0..N
      /\ t.buf.lost \subseteq 0..t.buf.high-1
  BY TxBufferAssumption
     DEF Idle, GoodSender, GoodBuffer, Buffers, Senders, Sent
<1>2. In(t, t.buf.una, t.buf.high, X)
  BY <1>1 DEF In, Ready
<1>3. CASE t.buf.una = N \/ t.retries = 0
  <2>1. /\ u.buf = t.buf /\ u.state = t.state /\ u.recover = t.recover
        /\ u.tx = t.tx /\ u.cc = t.cc /\ u.ecn = t.ecn /\ u \in Senders
    BY <1>1, <1>3 DEF TimedOut, GoodSender, Senders
  <2> HIDE DEF u
  <2>2. Waits(u)
    BY <1>1, <2>1 DEF Waits
  <2>3. In(u, t.buf.una, t.buf.high, X)
    BY <1>1, <1>2, <2>1, <2>2 DEF In, Ready, View, GoodSender
  <2> QED
    BY <2>3 DEF u
<1>4. CASE t.buf.una # N /\ t.retries # 0
  <2>1. u = SendPendingData(lossy, r)
    BY <1>4 DEF TimedOut
  <2>2. /\ GoodSender(o) /\ o.buf = t.buf /\ o.state = "CA_LOSS"
        /\ o.retries = t.retries /\ o.ecn = t.ecn /\ o.cc.waitMode = TRUE
        /\ o.tx = <<>> /\ o.cc = CongestionStateSet(t.cc, "CA_LOSS")
    <3>1. o.retries = t.retries /\ o.tx = t.tx
          /\ o.cc = CongestionStateSet(t.cc, "CA_LOSS")
      BY <1>1 DEF SetCongState, GoodSender, Senders
    <3> QED
      BY <1>1, <3>1, SetCongStateGood DEF CongStates
  <2> HIDE DEF o
  <2> DEFINE buf == SetSentListLost(o.buf)
             c == [o.cc EXCEPT !.cwnd = 1]
  <2>3. GoodBuffer(buf) /\ buf.una = t.buf.una /\ buf.high = t.buf.high
    BY <2>2, SetSentListLostGood DEF GoodSender
  <2>4. /\ c \in CongestionControls /\ c.waitMode = TRUE
        /\ c = [CongestionStateSet(t.cc, "CA_LOSS") EXCEPT !.cwnd = 1]
    BY <2>2 DEF GoodSender, Senders, CongestionControls
  <2>5. lossy = [o EXCEPT
                   !.buf = buf, !.retries = @ - 1, !.dupAcks = 0,
                   !.recover = t.buf.high, !.recoverActive = TRUE,
                   !.cc = c, !.pacing = FALSE, !.rto = FALSE]
    BY <2>2 DEF GoodSender, Senders
  <2> HIDE DEF buf, c, lossy, u
  <2>6. /\ t.retries - 1 \in 0..DataRetries /\ t.buf.high \in 0..N
        /\ buf \in Buffers
    <3>1. t.retries \in 0..DataRetries /\ t.retries # 0
      BY <1>1, <1>4 DEF GoodSender, Senders
    <3>2. \A n \in 0..DataRetries : n # 0 => n - 1 \in 0..DataRetries
      BY SenderAssumption
    <3>3. buf \in Buffers
      BY <2>3 DEF GoodBuffer
    <3> QED
      BY <1>1, <3>1, <3>2, <3>3
  <2>7. /\ lossy \in Senders /\ lossy.buf = buf /\ lossy.state = "CA_LOSS"
        /\ lossy.cc = c /\ lossy.ecn = t.ecn /\ lossy.tx = <<>>
        /\ lossy.recover = t.buf.high
    BY <2>2, <2>4, <2>5, <2>6 DEF GoodSender, Senders
  <2>8. Waits(lossy)
    BY <1>1, <2>4, <2>7 DEF Waits
  <2>9. View(lossy) = LossView(t)
    BY <2>3, <2>4, <2>7 DEF View, LossView
  <2>10. buf.lost \subseteq 0..t.buf.high-1
    BY <1>1, <2>3 DEF GoodBuffer, Buffers, Sent
  <2>11. In(lossy, t.buf.una, t.buf.high, X)
    BY <1>1, <2>3, <2>7, <2>8, <2>9, <2>10 DEF In, Ready, GoodSender
  <2> QED
    BY <2>1, <2>11, SendPendingDataIn DEF u
<1> QED
  BY <1>3, <1>4

-----------------------------------------------------------------------------
\* The actions.

\* What a handler starts with.
BeginView(t) ==
  [cc |-> [t.cc EXCEPT !.queue = Aged(@), !.calls = <<>>],
   high |-> t.buf.high, tx |-> <<>>]

\* A handler starts with the timers and the scoreboard as they are.
LEMMA BeginIdle ==
  ASSUME NEW t, GoodSender(t), Waits(t), t.recover <= t.buf.high
  PROVE  LET b == Begin(t)
         IN  /\ Idle(b) /\ View(b) = BeginView(t) /\ b.cc = BeginView(t).cc
             /\ b.buf = t.buf /\ b.recover = t.recover
<1> DEFINE b == Begin(t)
<1>1. GoodSender(b) /\ Waits(b)
  BY BeginKeeps DEF Keeps
<1>2. /\ b.buf = t.buf /\ b.recover = t.recover /\ b.tx = <<>>
      /\ b.cc = [t.cc EXCEPT !.queue = Aged(@), !.calls = <<>>]
  BY DEF Begin, GoodSender, Senders, CongestionControls
<1> HIDE DEF b
<1>3. Idle(b)
  BY <1>1, <1>2 DEF Idle
<1>4. View(b) = BeginView(t) /\ b.cc = BeginView(t).cc
  BY <1>2 DEF View, BeginView
<1> QED
  BY <1>2, <1>3, <1>4 DEF b

\* A handler of the sender, ReceivedAck or one of the others.
LEMMA HandlerIn ==
  ASSUME IInv, s.recover <= s.buf.high,
         Start \/ ReceivedAck \/ ReTxTimeout \/ PacingTimerExpires,
         NEW Y, ClosedSent(Y, s'.buf.una, s.buf.high),
         ~ReceivedAck => BeginView(s) \in Y /\ LossView(Begin(s)) \in Y,
         NEW X,
         ReceivedAck =>
           /\ AckedView(Begin(s), Head(acks)) \in X
           /\ ClosedLost(X, s'.buf.una, s.buf.high) /\ ClosedState(X)
           /\ \A v \in X :
                v \in Views => HeardView(v, Head(acks),
                                         NewlyDelivered(s.buf, Head(acks))) \in Y
  PROVE  /\ In(s', s'.buf.una, s.buf.high, Y)
         /\ IF ReceivedAck THEN s'.buf.una = Head(acks).ack
            ELSE s'.buf.una = s.buf.una
<1> DEFINE b == Begin(s)
<1>1. GoodSender(s) /\ Waits(s)
  BY DEF IInv, TypeOK, GoodSender
<1>2. /\ Idle(b) /\ View(b) = BeginView(s) /\ b.buf = s.buf
      /\ b.recover = s.recover
  BY <1>1, BeginIdle
<1>3. CASE ReceivedAck
  <2> DEFINE a == Head(acks)
  <2>1. PICK r \in Rates, ece \in BOOLEAN : s' = AckProcessed(b, a, ece, r)
    BY <1>3, SenderAssumption DEF ReceivedAck
  <2>2. CanProcess(b, a)
    BY <1>3, AckPresent DEF ReceivedAck
  <2>3. Armed(b)
    BY <1>1, BeginKeeps DEF Keeps, IInv
  <2>4. s'.buf.una = a.ack
    <3> HIDE DEF b, a
    <3> QED
      BY <1>2, <2>1, <2>2, <2>3, AckProcessedGood DEF Idle
  <2> HIDE DEF b, a
  <2> QED
    BY <1>2, <1>3, <2>1, <2>2, <2>4, AckProcessedIn DEF a, b
<1>4. CASE ~ReceivedAck
  <2> DEFINE t == [b EXCEPT !.pacing = FALSE]
             una == s.buf.una
             h == s.buf.high
  <2>1. In(b, una, h, Y)
    <3>1. b.buf.lost \subseteq 0..h-1 /\ h \in 0..N /\ una \in 0..N
      BY <1>1, <1>2, ViewType, TxBufferAssumption DEF GoodSender, GoodBuffer, Buffers, Sent
    <3>2. b.recover \in 0..N
      BY <1>1, <1>2 DEF GoodSender, Senders
    <3> QED
      BY <1>2, <1>4, <3>1, <3>2, TxBufferAssumption DEF In, Ready, Idle
  <2>2. In(t, una, h, Y)
    <3>1. b \in Senders /\ Waits(b)
      BY <1>2 DEF Idle, GoodSender
    <3>2. /\ t \in Senders /\ t.buf = b.buf /\ t.state = b.state /\ t.cc = b.cc
          /\ t.tx = b.tx /\ t.recover = b.recover /\ t.ecn = b.ecn
      BY <3>1 DEF Senders
    <3> HIDE DEF t
    <3>3. Waits(t) /\ View(t) = View(b)
      BY <3>1, <3>2 DEF Waits, View
    <3> QED
      BY <1>2, <2>1, <3>2, <3>3 DEF In, Ready, GoodSender, Idle
  <2>3. \A r \in Rates :
          SendPendingData(b, r).buf.una = una /\ SendPendingData(t, r).buf.una = una
          /\ TimedOut(b, r).buf.una = una
    <3>1. GoodSender(b) /\ Waits(b) /\ GoodSender(t) /\ b.buf.una = una /\ t.buf.una = una
      BY <2>1, <2>2 DEF In, Ready
    <3> HIDE DEF b, t
    <3> QED
      BY <3>1, SendPendingDataKeeps, TimedOutGood DEF Keeps
  <2> HIDE DEF t
  <2>4. \/ \E r \in Rates : s' = SendPendingData(b, r)
        \/ \E r \in Rates : s' = SendPendingData(t, r)
        \/ \E r \in Rates : s' = TimedOut(b, r)
    BY <1>4 DEF Start, ReTxTimeout, PacingTimerExpires, t
  <2> HIDE DEF b
  <2>5. s'.buf.una = una
    BY <2>3, <2>4
  <2>6. ClosedSent(Y, una, h)
    BY <2>5
  <2>7. ASSUME NEW r \in Rates
        PROVE  /\ In(SendPendingData(b, r), una, h, Y)
               /\ In(SendPendingData(t, r), una, h, Y)
    BY <2>1, <2>2, <2>6, SendPendingDataIn
  <2>8. ASSUME NEW r \in Rates
        PROVE  In(TimedOut(b, r), una, h, Y)
    BY <1>2, <1>4, <2>6, TimedOutIn DEF b
  <2> QED
    BY <1>4, <2>4, <2>5, <2>7, <2>8
<1> QED
  BY <1>3, <1>4

\* The end of an interval.
LEMMA IntervalEndsView ==
  ASSUME IInv, IntervalEnds
  PROVE  /\ s'.buf = s.buf /\ s'.recover = s.recover
         /\ s.cc.queue \in Seq(Intervals) /\ s.cc.queue # <<>>
         /\ s'.tx = <<>> /\ s'.cc.calls = <<>> /\ s'.cc.waitMode = s.cc.waitMode
         /\ s'.cc.queue = [Aged(s.cc.queue) EXCEPT ![Len(s.cc.queue)].ended = TRUE]
<1> DEFINE b == Begin(s)
<1>1. GoodSender(s)
  BY DEF IInv, TypeOK, GoodSender
<1>2. /\ s.cc \in CongestionControls /\ s.cc.queue \in Seq(Intervals)
      /\ s.cc.queue # <<>>
  BY <1>1 DEF GoodSender, Senders, CongestionControls, IntervalEnds
<1>3. /\ b \in Senders /\ b.buf = s.buf /\ b.recover = s.recover /\ b.tx = <<>>
      /\ b.cc \in CongestionControls
      /\ b.cc.queue = Aged(s.cc.queue) /\ b.cc.calls = <<>>
      /\ b.cc.waitMode = s.cc.waitMode
  <2>1. b \in Senders
    BY <1>1, BeginKeeps DEF Keeps, GoodSender
  <2> QED
    BY <1>1, <1>2, <2>1 DEF Begin, GoodSender, Senders, CongestionControls
<1>4. s' = [b EXCEPT !.cc.queue[Len(s.cc.queue)].ended = TRUE]
  BY DEF IntervalEnds
<1> HIDE DEF b
<1>5. /\ s'.buf = b.buf /\ s'.recover = b.recover /\ s'.tx = b.tx
      /\ s'.cc.calls = b.cc.calls /\ s'.cc.waitMode = b.cc.waitMode
      /\ s'.cc.queue = [b.cc.queue EXCEPT ![Len(s.cc.queue)].ended = TRUE]
  BY <1>3, <1>4 DEF Senders, CongestionControls
<1> QED
  BY <1>2, <1>3, <1>5

\* What the handlers start from is a view.
LEMMA HandlerStart ==
  ASSUME IInv, s.recover <= s.buf.high
  PROVE  /\ BeginView(s) \in Views /\ LossView(Begin(s)) \in Views
         /\ Begin(s).cc = BeginView(s).cc /\ Begin(s).buf = s.buf
         /\ ReceivedAck =>
              /\ Head(acks) \in Acks
              /\ s.buf.una <= Head(acks).ack
              /\ AckedView(Begin(s), Head(acks)) \in Views
              /\ NewlyDelivered(s.buf, Head(acks)) \in Nat
              /\ \A v \in Views :
                   HeardView(v, Head(acks), NewlyDelivered(s.buf, Head(acks))) \in Views
<1> DEFINE a == Head(acks)
           b == Begin(s)
           c == CongestionStateSet(b.cc, "CA_LOSS")
<1>1. GoodSender(s) /\ Waits(s)
  BY DEF IInv, TypeOK, GoodSender
<1>2. Idle(b) /\ View(b) = BeginView(s) /\ b.buf = s.buf /\ b.cc = BeginView(s).cc
  BY <1>1, BeginIdle
<1>3. /\ BeginView(s) \in Views /\ b.cc \in CongestionControls
      /\ s.buf.high \in 0..N
  BY <1>1, <1>2, ViewType DEF Idle, GoodSender, Senders
<1>4. LossView(b) \in Views
  <2>1. c \in CongestionControls
    BY <1>3, CongestionStateSetType
  <2>2. LossView(b) = [cc |-> [c EXCEPT !.cwnd = 1], high |-> s.buf.high, tx |-> <<>>]
    BY <1>2 DEF LossView
  <2> HIDE DEF c
  <2>3. [c EXCEPT !.cwnd = 1] \in CongestionControls
    BY <2>1 DEF CongestionControls
  <2> QED
    BY <1>3, <2>2, <2>3 DEF Views
<1>5. ReceivedAck => CanProcess(b, a)
  BY AckPresent DEF ReceivedAck
<1>6. ReceivedAck => AckedView(b, a) \in Views /\ a \in Acks /\ s.buf.una <= a.ack
  BY <1>2, <1>3, <1>5 DEF AckedView, Views, CanProcess, Acks
<1>7. NewlyDelivered(s.buf, a) \in Nat
  BY <1>1, NewlyDeliveredType DEF GoodSender
<1>8. ReceivedAck => \A v \in Views : HeardView(v, a, NewlyDelivered(s.buf, a)) \in Views
  BY <1>6, <1>7, ViewsKept
<1> QED
  BY <1>2, <1>3, <1>4, <1>6, <1>7, <1>8

\* The recovery point is never beyond what was sent.
LEMMA RecoverKept ==
  ASSUME IInv, s.recover <= s.buf.high, [Next]_vars
  PROVE  s'.recover <= s'.buf.high
<1>1. CASE Start \/ ReceivedAck \/ ReTxTimeout \/ PacingTimerExpires
  <2>1. In(s', s'.buf.una, s.buf.high, Views)
    BY <1>1, HandlerStart, ViewsClosed, HandlerIn
  <2> QED
    BY <2>1 DEF In, Ready
<1>2. CASE IntervalEnds
  BY <1>2, IntervalEndsView
<1>3. CASE s' = s
  BY <1>3
<1> QED
  BY <1>1, <1>2, <1>3 DEF Next, vars, ReceivedData, DelAckTimeout, Drop

\* The invariant the properties of the congestion control start from.
Reached == IInv /\ s.recover <= s.buf.high

\* It is one.
LEMMA ReachedAlways == Spec => []Reached
<1>1. Init => Reached
  BY InitIInv DEF Init, EmptyBuffer, Reached
<1>2. Reached /\ [Next]_vars => Reached'
  BY NextIInv, RecoverKept DEF Reached
<1> QED
  BY <1>1, <1>2, PTL DEF Spec

-----------------------------------------------------------------------------
\* The queue of intervals.

\* Queues of intervals of a set, of which only the newest may still send.
Queues(M) == {q \in Seq(M) : \A i \in 1..Len(q)-1 : q[i].ended}

\* What they are, in any larger set too.
LEMMA QueuesType ==
  ASSUME NEW M, NEW W, M \subseteq W, NEW q \in Queues(M)
  PROVE  /\ q \in Seq(M) /\ q \in Seq(W) /\ q \in Queues(W)
         /\ \A i \in 1..Len(q)-1 : q[i].ended
         /\ \A i \in 1..Len(q) : q[i] \in M
<1>1. q \in Seq(M) /\ \A i \in 1..Len(q)-1 : q[i].ended
  BY DEF Queues
<1>2. q \in Seq(W) /\ \A i \in 1..Len(q) : q[i] \in M
  <2>1. \A i \in 1..Len(q) : q[i] \in M
    BY <1>1
  <2> QED
    BY <1>1, <2>1
<1> QED
  BY <1>1, <1>2 DEF Queues

\* What the loop of CheckMonitoringInterval leaves is a part of the queue.
LEMMA PendingWithin ==
  ASSUME NEW M, M \subseteq Intervals, NEW q \in Queues(M)
  PROVE  Pending(q) \in Queues(M)
<1> DEFINE n == FinishedPrefix(q)
           w == SubSeq(q, n + 1, Len(q))
<1>1. q \in Seq(M) /\ q \in Seq(Intervals) /\ \A i \in 1..Len(q)-1 : q[i].ended
  BY DEF Queues
<1>2. n \in 0..Len(q)
  BY <1>1, FinishedPrefixExists
<1> HIDE DEF n
<1>3. /\ w \in Seq(M) /\ Len(w) = Len(q) - n
      /\ \A i \in 1..Len(q)-n : w[i] = q[n + i]
  BY <1>1, <1>2
<1>4. \A i \in 1..Len(q)-n-1 : n + i \in 1..Len(q)-1 /\ i \in 1..Len(q)-n
  BY <1>1, <1>2
<1> HIDE DEF w
<1>5. \A i \in 1..Len(w)-1 : w[i].ended
  BY <1>1, <1>3, <1>4
<1> QED
  BY <1>3, <1>5 DEF Queues, Pending, w, n

\* A queue whose elements change one by one, none of which loses its end.
LEMMA QueueMapped ==
  ASSUME NEW M, NEW W, NEW q \in Queues(M), NEW p, Len(p) = Len(q),
         p = [i \in 1..Len(q) |-> p[i]],
         \A i \in 1..Len(q) : p[i] \in W /\ (q[i].ended => p[i].ended)
  PROVE  p \in Queues(W)
  BY DEF Queues

\* One element of a sequence is replaced.
LEMMA Replaced ==
  ASSUME NEW S, NEW q \in Seq(S), NEW n \in 1..Len(q), NEW m, NEW w,
         w = [q EXCEPT ![n] = m]
  PROVE  /\ Len(w) = Len(q) /\ w = [i \in 1..Len(q) |-> w[i]] /\ w[n] = m
         /\ \A i \in 1..Len(q) : i # n => w[i] = q[i]
<1>1. q = [i \in 1..Len(q) |-> q[i]] /\ Len(q) \in Nat
  OBVIOUS
<1>2. DOMAIN q = 1..Len(q)
  OBVIOUS
<1>3. w = [i \in 1..Len(q) |-> IF i = n THEN m ELSE q[i]]
  BY <1>2
<1>4. Len(w) = Len(q)
  BY <1>1, <1>3
<1> QED
  BY <1>1, <1>3, <1>4

\* A packet is sent: an open interval, or a new one, takes it.
LEMMA SentWithin ==
  ASSUME NEW c \in CongestionControls, NEW seg \in Int, NEW r \in Rates,
         NEW M, M \subseteq Intervals, NEW W, W \subseteq Intervals, M \subseteq W,
         c.queue \in Queues(M),
         \A mi \in M : ~mi.ended => MISent(mi, SeqNo(seg), MSS) \in W,
         MISent(NewInterval, SeqNo(seg), MSS) \in W
  PROVE  LET q == OnPacketSent(c, seg, r).queue
         IN  /\ q \in Queues(W)
             /\ ~c.waitMode => /\ q # <<>>
                               /\ q[Len(q)].last = SeqNo(seg)
<1> DEFINE q == OnPacketSent(c, seg, r).queue
           p == SeqNo(seg)
<1>1. /\ c.queue \in Seq(M) /\ c.queue \in Seq(Intervals)
      /\ \A i \in 1..Len(c.queue)-1 : c.queue[i].ended
      /\ p \in Int /\ MSS \in Int
  <2>1. p \in Int /\ MSS \in Int
    BY SeqNoType, PccAssumption
  <2> HIDE DEF p
  <2>2. /\ c.queue \in Seq(M) /\ c.queue \in Seq(Intervals)
        /\ \A i \in 1..Len(c.queue)-1 : c.queue[i].ended
    BY QueuesType
  <2> QED
    BY <2>1, <2>2
<1>2. \A mi \in Intervals \cup {NewInterval} : MISent(mi, p, MSS).last = p
  BY NewIntervalType DEF MISent, Intervals
<1>3. CASE c.waitMode
  <2>1. q = c.queue
    BY <1>3 DEF OnPacketSent
  <2> QED
    BY <1>1, <1>3, <2>1 DEF Queues
<1>4. CASE ~c.waitMode /\ ShouldCreateNewMonitorInterval(c)
  <2> DEFINE w == Append(c.queue, NewInterval)
             m == MISent(NewInterval, p, MSS)
  <2>1. OpenInterval(c, r).queue = w /\ OpenInterval(c, r) \in CongestionControls
    BY OpenIntervalType DEF OpenInterval, UpdatePacingRate, CongestionControls
  <2>2. q = QueueSent(w, p, MSS)
    <3> HIDE DEF w
    <3>1. OnPacketSent(c, seg, r)
            = [OpenInterval(c, r) EXCEPT !.queue = QueueSent(@, p, MSS)]
      BY <1>4 DEF OnPacketSent
    <3> QED
      BY <2>1, <3>1 DEF CongestionControls
  <2>3. /\ w \in Seq(Intervals) /\ Len(w) = Len(c.queue) + 1 /\ w # <<>>
        /\ w[Len(w)] = NewInterval
        /\ \A i \in 1..Len(c.queue) : w[i] = c.queue[i]
    BY <1>1, NewIntervalType
  <2> HIDE DEF w
  <2>4. q = [w EXCEPT ![Len(w)] = m]
    BY <2>2, <2>3 DEF QueueSent
  <2>5. /\ Len(q) = Len(c.queue) + 1 /\ q[Len(q)] = m
        /\ \A i \in 1..Len(c.queue) : q[i] = c.queue[i]
        /\ q = [i \in 1..Len(q) |-> q[i]]
    BY <2>3, <2>4
  <2> HIDE DEF m
  <2>6. \A i \in 1..Len(c.queue) : c.queue[i].ended
    BY <1>1, <1>4 DEF ShouldCreateNewMonitorInterval, AllPacketsSent, Back
  <2>7. \A i \in 1..Len(q) : q[i] \in W
    <3>1. \A i \in 1..Len(c.queue) : c.queue[i] \in W
      BY QueuesType
    <3>2. \A i \in 1..Len(q) : i = Len(q) \/ i \in 1..Len(c.queue)
      BY <1>1, <2>5
    <3> QED
      BY <2>5, <3>1, <3>2 DEF m
  <2>8. q \in Seq(W)
    BY <1>1, <2>5, <2>7
  <2> HIDE DEF q
  <2>9. q \in Queues(W)
    BY <1>1, <2>5, <2>6, <2>8 DEF Queues
  <2>10. q # <<>> /\ q[Len(q)].last = p
    BY <1>1, <1>2, <2>5 DEF m
  <2> QED
    BY <2>9, <2>10 DEF q
<1>5. CASE ~c.waitMode /\ ~ShouldCreateNewMonitorInterval(c)
  <2> DEFINE w == c.queue
             m == MISent(w[Len(w)], p, MSS)
  <2>1. w # <<>> /\ ~w[Len(w)].ended /\ w[Len(w)] \in M
    BY <1>1, <1>5 DEF ShouldCreateNewMonitorInterval, AllPacketsSent, Back
  <2>2. q = [w EXCEPT ![Len(w)] = m]
    BY <1>5, <2>1 DEF OnPacketSent, QueueSent, CongestionControls
  <2>3. /\ Len(q) = Len(w) /\ q[Len(q)] = m
        /\ \A i \in 1..Len(w)-1 : q[i] = w[i]
        /\ q = [i \in 1..Len(q) |-> q[i]]
    BY <1>1, <2>1, <2>2
  <2>4. m \in W /\ m.last = p
    BY <1>2, <2>1
  <2> HIDE DEF m, q
  <2>5. \A i \in 1..Len(q) : q[i] \in W
    BY <1>1, <2>3, <2>4
  <2>6. q \in Seq(W)
    BY <1>1, <2>3, <2>5
  <2>7. q \in Queues(W) /\ q # <<>> /\ q[Len(q)].last = p
    BY <1>1, <2>1, <2>3, <2>4, <2>6 DEF Queues
  <2> QED
    BY <2>7 DEF q
<1> QED
  BY <1>3, <1>4, <1>5

\* A packet is lost.
LEMMA LostWithin ==
  ASSUME NEW c \in CongestionControls, NEW seg \in Int,
         NEW M, M \subseteq Intervals, c.queue \in Queues(M),
         EcnEnabled \/ c.queue = <<>> \/ c.queue[Len(c.queue)].last = SeqNo(seg),
         \A mi \in M : /\ ~AllPacketsAccountedFor(mi)
                       /\ EcnEnabled \/ mi.ended \/ mi.last = SeqNo(seg)
                       => MILost(mi, SeqNo(seg), MSS) \in M
  PROVE  OnPacketLost(c, seg).queue \in Queues(M)
<1> DEFINE p == SeqNo(seg)
           w == QueueLost(c.queue, p, MSS)
           d == [c EXCEPT !.queue = w]
<1>1. /\ c.queue \in Seq(M) /\ c.queue \in Seq(Intervals)
      /\ \A i \in 1..Len(c.queue)-1 : c.queue[i].ended
      /\ p \in Int /\ MSS \in Int
  <2>1. p \in Int /\ MSS \in Int
    BY SeqNoType, PccAssumption
  <2> HIDE DEF p
  <2>2. /\ c.queue \in Seq(M) /\ c.queue \in Seq(Intervals)
        /\ \A i \in 1..Len(c.queue)-1 : c.queue[i].ended
    BY QueuesType
  <2> QED
    BY <2>1, <2>2
<1>2. /\ Len(w) = Len(c.queue) /\ w = [i \in 1..Len(c.queue) |-> w[i]]
      /\ \A i \in 1..Len(c.queue) :
           w[i] = IF AllPacketsAccountedFor(c.queue[i]) THEN c.queue[i]
                  ELSE MILost(c.queue[i], p, MSS)
  BY <1>1 DEF QueueLost
<1>3. \A i \in 1..Len(c.queue) : c.queue[i] \in M /\ c.queue[i] \in Intervals
  BY <1>1
<1>4. \A i \in 1..Len(c.queue) : w[i] \in M /\ (c.queue[i].ended => w[i].ended)
  <2> SUFFICES ASSUME NEW i \in 1..Len(c.queue)
               PROVE  w[i] \in M /\ (c.queue[i].ended => w[i].ended)
    OBVIOUS
  <2>1. EcnEnabled \/ c.queue[i].ended \/ c.queue[i].last = p
    BY <1>1
  <2>2. MILost(c.queue[i], p, MSS).ended = c.queue[i].ended
    BY <1>1, <1>3, IntervalKeepsEnded
  <2> QED
    BY <1>2, <1>3, <2>1, <2>2
<1> HIDE DEF w
<1>5. w \in Queues(M)
  BY <1>2, <1>4, QueueMapped
<1>6. d.queue = w
  BY DEF CongestionControls
<1>7. OnPacketLost(c, seg) = d \/ OnPacketLost(c, seg) = CheckMonitoringInterval(d)
  BY DEF OnPacketLost, w
<1>8. CheckMonitoringInterval(d).queue = Pending(d.queue)
  BY DEF CheckMonitoringInterval, CongestionControls
<1> QED
  BY <1>5, <1>6, <1>7, <1>8, PendingWithin

\* An ACK is heard.
LEMMA AckedWithin ==
  ASSUME NEW c \in CongestionControls, NEW ack \in Int, NEW newly \in Int,
         NEW M, M \subseteq Intervals, c.queue \in Queues(M), ~c.waitMode,
         NEW W, W \subseteq Intervals,
         \A mi \in M : IF AllPacketsAccountedFor(mi) THEN mi \in W
                       ELSE MIAcked(mi, SeqNo(ack), newly * MSS) \in W
  PROVE  CongControl(c, ack, newly).queue \in Queues(W)
<1> DEFINE p == SeqNo(ack)
           sz == newly * MSS
           w == QueueAcked(c.queue, p, sz)
           d == [c EXCEPT !.queue = w]
<1>1. /\ c.queue \in Seq(M) /\ c.queue \in Seq(Intervals)
      /\ \A i \in 1..Len(c.queue)-1 : c.queue[i].ended
      /\ p \in Int /\ sz \in Int
  BY SeqNoType, PccAssumption, QueuesType
<1> HIDE DEF sz
<1>2. /\ Len(w) = Len(c.queue) /\ w = [i \in 1..Len(c.queue) |-> w[i]]
      /\ \A i \in 1..Len(c.queue) :
           w[i] = IF AllPacketsAccountedFor(c.queue[i]) THEN c.queue[i]
                  ELSE MIAcked(c.queue[i], p, sz)
  BY <1>1 DEF QueueAcked
<1>3. \A i \in 1..Len(c.queue) : c.queue[i] \in M /\ c.queue[i] \in Intervals
  BY <1>1
<1>4. \A i \in 1..Len(c.queue) : w[i] \in W /\ (c.queue[i].ended => w[i].ended)
  <2> SUFFICES ASSUME NEW i \in 1..Len(c.queue)
               PROVE  w[i] \in W /\ (c.queue[i].ended => w[i].ended)
    OBVIOUS
  <2>1. MIAcked(c.queue[i], p, sz).ended = c.queue[i].ended
    BY <1>1, <1>3, IntervalKeepsEnded
  <2> QED
    BY <1>2, <1>3, <2>1 DEF sz
<1> HIDE DEF w
<1>5. w \in Queues(W)
  BY <1>2, <1>4, QueueMapped
<1>6. d.queue = w
  BY DEF CongestionControls
<1>7. CongControl(c, ack, newly) = CheckMonitoringInterval(d)
  BY DEF CongControl, w, sz
<1>8. CheckMonitoringInterval(d).queue = Pending(d.queue)
  BY DEF CheckMonitoringInterval, CongestionControls
<1> QED
  BY <1>5, <1>6, <1>7, <1>8, PendingWithin

-----------------------------------------------------------------------------
\* The queue of intervals, as the handlers leave it.  M[k] says of an interval what
\* is to be kept when the handler has sent k segments, at most two.

\* What a family of sets must allow for the parts of a handler not to leave it, when
\* the segments below una are acknowledged.
Carries(M, una) ==
  /\ M \in [0..2 -> SUBSET Intervals]
  /\ \A k \in 0..1 : M[k] \subseteq M[k + 1]
  /\ \A k \in 0..1, seg \in una..N-1 :
       /\ MISent(NewInterval, SeqNo(seg), MSS) \in M[k + 1]
       /\ \A mi \in M[k] : ~mi.ended => MISent(mi, SeqNo(seg), MSS) \in M[k + 1]
  /\ \A k \in 0..2, seg \in una..N-1 :
       \A mi \in M[k] :
         /\ ~AllPacketsAccountedFor(mi)
         /\ EcnEnabled \/ mi.ended \/ mi.last = SeqNo(seg)
         => MILost(mi, SeqNo(seg), MSS) \in M[k]

\* The views whose queue is of such intervals.
Holding(M) == 
  {v \in Views : Len(v.tx) <= 2 /\ v.cc.queue \in Queues(M[Len(v.tx)])}

\* What of a view they show.
LEMMA HoldingType ==
  ASSUME NEW M, NEW v \in Holding(M)
  PROVE  /\ v \in Views /\ v.cc \in CongestionControls /\ v.tx \in Seq(Segments)
         /\ Len(v.tx) \in 0..2 /\ v.cc.queue \in Queues(M[Len(v.tx)])
<1>1. v \in Views /\ Len(v.tx) <= 2 /\ v.cc.queue \in Queues(M[Len(v.tx)])
  BY DEF Holding
<1>2. v.cc \in CongestionControls /\ v.tx \in Seq(Segments)
  BY <1>1 DEF Views
<1>3. Len(v.tx) \in Nat
  BY <1>2
<1>4. Len(v.tx) \in 0..2
  <2> DEFINE k == Len(v.tx)
  <2>1. k \in Nat /\ k <= 2
    BY <1>1, <1>3
  <2> HIDE DEF k
  <2>2. k \in 0..2
    BY <2>1
  <2> QED
    BY <2>2 DEF k
<1> QED
  BY <1>1, <1>2, <1>4

\* SentView and LostView stay with such a family, and CongestionStateSet does.
LEMMA HoldingClosed ==
  ASSUME NEW una \in 0..N, NEW h, NEW M, Carries(M, una)
  PROVE  ClosedSent(Holding(M), una, h) /\ ClosedLost(Holding(M), una, h)
         /\ ClosedState(Holding(M))
<1>1. ASSUME NEW v \in Holding(M), NEW seg \in Segments, NEW r \in Rates,
             seg \in una..N-1, Len(v.tx) < 2
      PROVE  /\ SentView(v, seg, r) \in Holding(M)
             /\ EcnEnabled \/ ~v.cc.waitMode => LostView(v, seg, r) \in Holding(M)
  <2> DEFINE k == Len(v.tx)
             p == SeqNo(seg)
             c == OnPacketSent(v.cc, seg, r)
  <2>1. /\ v \in Views /\ v.cc \in CongestionControls /\ k \in 0..1 /\ k+1 \in 0..2
        /\ v.tx \in Seq(Segments) /\ v.cc.queue \in Queues(M[k]) /\ k \in 0..2
    <3>1. k \in 0..2 /\ k < 2
      BY <1>1, HoldingType
    <3>2. k \in 0..1 /\ k + 1 \in 0..2
      BY <3>1
    <3> QED
      BY <3>1, <3>2, HoldingType
  <2>2. /\ M[k] \subseteq Intervals /\ M[k+1] \subseteq Intervals
        /\ M[k] \subseteq M[k+1]
    BY <2>1 DEF Carries
  <2>3. seg \in Int
    BY <1>1, TxBufferAssumption
  <2>4. /\ \A mi \in M[k] : ~mi.ended => MISent(mi, p, MSS) \in M[k+1]
        /\ MISent(NewInterval, p, MSS) \in M[k+1]
    BY <1>1, <2>1 DEF Carries
  <2>5. \A mi \in M[k+1] :
           /\ ~AllPacketsAccountedFor(mi)
           /\ EcnEnabled \/ mi.ended \/ mi.last = p
           => MILost(mi, p, MSS) \in M[k+1]
    BY <1>1, <2>1 DEF Carries
  <2> HIDE DEF k, p
  <2>6. /\ c.queue \in Queues(M[k+1])
        /\ ~v.cc.waitMode => c.queue # <<>> /\ c.queue[Len(c.queue)].last = p
    BY <2>1, <2>2, <2>3, <2>4, SentWithin DEF p
  <2>7. c \in CongestionControls /\ c.waitMode = v.cc.waitMode
    BY <2>1, <2>3, OnPacketSentType
  <2> HIDE DEF c
  <2>8. ASSUME EcnEnabled \/ ~v.cc.waitMode
        PROVE  OnPacketLost(c, seg).queue \in Queues(M[k+1])
    <3>1. EcnEnabled \/ c.queue[Len(c.queue)].last = SeqNo(seg)
      BY <2>6, <2>8 DEF p
    <3> DEFINE W == M[k+1]
    <3>2. W \subseteq Intervals /\ c.queue \in Queues(W)
      BY <2>2, <2>6
    <3>3. \A mi \in W :
            /\ ~AllPacketsAccountedFor(mi)
            /\ EcnEnabled \/ mi.ended \/ mi.last = SeqNo(seg)
            => MILost(mi, SeqNo(seg), MSS) \in W
      BY <2>5 DEF p
    <3> HIDE DEF W
    <3>4. OnPacketLost(c, seg).queue \in Queues(W)
      BY <2>3, <2>7, <3>1, <3>2, <3>3, LostWithin
    <3> QED
      BY <3>4 DEF W
  <2>9. Len(Append(v.tx, seg)) = k + 1
    BY <2>1 DEF k
  <2>10. /\ SentView(v, seg, r).cc = c /\ LostView(v, seg, r).cc = OnPacketLost(c, seg)
         /\ Len(SentView(v, seg, r).tx) = k + 1 /\ Len(LostView(v, seg, r).tx) = k + 1
    BY <2>9 DEF SentView, LostView, c
  <2>11. SentView(v, seg, r) \in Views /\ LostView(v, seg, r) \in Views
    BY <2>1, ViewsKept
  <2> QED
    BY <2>1, <2>6, <2>8, <2>10, <2>11 DEF Holding
<1>2. ASSUME NEW v \in Holding(M), NEW st \in CongStates
      PROVE  StateView(v, st) \in Holding(M)
  <2>1. v.cc \in CongestionControls /\ v \in Views
    BY DEF Holding, Views
  <2>2. CongestionStateSet(v.cc, st).queue = v.cc.queue
    BY <2>1 DEF CongestionStateSet, UpdatePacingRate, CongestionControls
  <2>3. StateView(v, st).tx = v.tx /\ StateView(v, st).cc.queue = v.cc.queue
        /\ StateView(v, st) \in Views
    BY <2>1, <2>2, ViewsKept DEF StateView
  <2> QED
    BY <2>3 DEF Holding
<1> QED
  BY <1>1, <1>2 DEF ClosedSent, ClosedLost, ClosedState, MaySend

\* The clock moves on; the newest interval ends.
LEMMA AgedWithin ==
  ASSUME NEW M, NEW W, NEW q \in Queues(M), M \subseteq Intervals,
         \A mi \in M : [mi EXCEPT !.fresh = FALSE] \in W
  PROVE  /\ Aged(q) \in Queues(W)
         /\ Aged(q) \in Seq(W) /\ Len(Aged(q)) = Len(q)
         /\ \A i \in 1..Len(q) : Aged(q)[i] = [q[i] EXCEPT !.fresh = FALSE]
<1> DEFINE a == Aged(q)
<1>1. q \in Seq(M) /\ \A i \in 1..Len(q)-1 : q[i].ended
  BY DEF Queues
<1>2. a = [i \in 1..Len(q) |-> [q[i] EXCEPT !.fresh = FALSE]]
  BY <1>1 DEF Aged
<1> HIDE DEF a
<1>3. Len(a) = Len(q) /\ a = [i \in 1..Len(q) |-> a[i]]
      /\ \A i \in 1..Len(q) : a[i] = [q[i] EXCEPT !.fresh = FALSE]
  BY <1>1, <1>2
<1>4. \A i \in 1..Len(q) : a[i] \in W /\ (q[i].ended => a[i].ended)
  <2> SUFFICES ASSUME NEW i \in 1..Len(q)
               PROVE  a[i] \in W /\ (q[i].ended => a[i].ended)
    OBVIOUS
  <2>1. q[i] \in M /\ q[i] \in Intervals
    BY <1>1
  <2> QED
    BY <1>3, <2>1 DEF Intervals
<1>5. a \in Queues(W)
  BY <1>3, <1>4, QueueMapped
<1> QED
  BY <1>3, <1>5 DEF Queues, a

\* The newest interval ends.
LEMMA EndedWithin ==
  ASSUME NEW M, NEW W, M \subseteq Intervals, M \subseteq W, NEW q \in Queues(M),
         q # <<>>, \A mi \in M : [mi EXCEPT !.ended = TRUE] \in W
  PROVE  [q EXCEPT ![Len(q)].ended = TRUE] \in Queues(W)
<1> DEFINE n == Len(q)
           m == [q[n] EXCEPT !.ended = TRUE]
           w == [q EXCEPT ![n] = m]
<1>1. q \in Seq(M) /\ q \in Seq(Intervals)
  BY DEF Queues
<1>2. n \in 1..Len(q) /\ [q EXCEPT ![Len(q)].ended = TRUE] = w
  BY <1>1
<1>3. \A i \in 1..Len(q) : q[i] \in M /\ q[i] \in Intervals
  BY <1>1
<1>4. m \in W /\ m.ended = TRUE
  BY <1>2, <1>3 DEF Intervals
<1> HIDE DEF m, n
<1>5. /\ Len(w) = Len(q) /\ w = [i \in 1..Len(q) |-> w[i]] /\ w[n] = m
      /\ \A i \in 1..Len(q) : i # n => w[i] = q[i]
  BY <1>1, <1>2, Replaced
<1> HIDE DEF w
<1>6. \A i \in 1..Len(q) : w[i] \in W /\ (q[i].ended => w[i].ended)
  BY <1>2, <1>3, <1>4, <1>5
<1> QED
  BY <1>2, <1>5, <1>6, QueueMapped DEF n

\* Acknowledgments only advance, and within the file.
LEMMA UnaGrows ==
  ASSUME Reached, [Next]_vars
  PROVE  /\ s.buf.una \in 0..N /\ s'.buf.una \in 0..N /\ s.buf.una <= s'.buf.una
         /\ ReceivedAck => s'.buf.una = Head(acks).ack
<1>1. s.buf.una \in 0..N /\ IInv /\ s.recover <= s.buf.high
  BY ViewType DEF Reached, IInv, TypeOK, GoodSender
<1>2. CASE Start \/ ReceivedAck \/ ReTxTimeout \/ PacingTimerExpires
  <2>1. /\ In(s', s'.buf.una, s.buf.high, Views)
        /\ IF ReceivedAck THEN s'.buf.una = Head(acks).ack
           ELSE s'.buf.una = s.buf.una
    BY <1>1, <1>2, HandlerStart, ViewsClosed, HandlerIn
  <2>2. ReceivedAck => s.buf.una <= Head(acks).ack /\ Head(acks).ack \in 0..N
    BY <1>1, HandlerStart DEF Acks
  <2> QED
    BY <1>1, <2>1, <2>2, TxBufferAssumption
<1>3. CASE IntervalEnds /\ ~ReceivedAck
  BY <1>1, <1>3, IntervalEndsView, TxBufferAssumption
<1>4. CASE s' = s /\ ~ReceivedAck
  BY <1>1, <1>4, TxBufferAssumption
<1> QED
  BY <1>2, <1>3, <1>4 DEF Next, vars, ReceivedData, DelAckTimeout, Drop

\* A whole step, from a family that fits the queue before to one that fits it after.
LEMMA QueueStep ==
  ASSUME Reached, [Next]_vars,
         NEW M, Carries(M, s'.buf.una), NEW W, Carries(W, s'.buf.una),
         \A k \in 0..2 : M[k] \subseteq W[k],
         \A mi \in M[0] :
           /\ [mi EXCEPT !.fresh = FALSE] \in M[0]
           /\ [mi EXCEPT !.ended = TRUE] \in W[0],
         \A k \in 0..2 : \A mi \in M[k], sz \in Int :
           ~AllPacketsAccountedFor(mi) => MIAcked(mi, SeqNo(s'.buf.una), sz) \in W[k],
         s.cc.queue \in Queues(M[0])
  PROVE  \E k \in 0..2 : s'.cc.queue \in Queues(W[k])
<1>1. /\ s'.buf.una \in 0..N /\ IInv /\ s.recover <= s.buf.high
      /\ ReceivedAck => s'.buf.una = Head(acks).ack
  BY UnaGrows DEF Reached
<1>2. /\ M[0] \subseteq Intervals /\ M[0] \subseteq W[0]
      /\ \A k \in 0..2 : M[k] \subseteq Intervals /\ W[k] \subseteq Intervals
  BY DEF Carries
<1>3. Holding(M) \subseteq Holding(W)
  <2> SUFFICES ASSUME NEW v \in Holding(M)
               PROVE  v \in Holding(W)
    OBVIOUS
  <2> DEFINE k == Len(v.tx)
  <2>1. v \in Views /\ k \in 0..2 /\ v.cc.queue \in Queues(M[k])
    BY HoldingType
  <2>2. M[k] \subseteq W[k]
    BY <2>1
  <2>3. v.cc.queue \in Queues(W[k])
    <3> HIDE DEF k
    <3> QED
      BY <2>1, <2>2, QueuesType
  <2> QED
    BY <2>1, <2>3 DEF Holding
<1>4. CASE Start \/ ReceivedAck \/ ReTxTimeout \/ PacingTimerExpires
  <2> DEFINE b == Begin(s)
             a == Head(acks)
             newly == NewlyDelivered(s.buf, a)
  <2>1. b.cc = BeginView(s).cc /\ BeginView(s) \in Views /\ LossView(b) \in Views
    BY <1>1, HandlerStart
  <2>2. b.cc.queue \in Queues(M[0])
    <3>1. s.cc \in CongestionControls
      BY <1>1 DEF IInv, TypeOK, Senders
    <3>2. b.cc.queue = Aged(s.cc.queue)
      BY <2>1, <3>1 DEF BeginView, CongestionControls
    <3>3. Aged(s.cc.queue) \in Queues(M[0])
      BY <1>2, AgedWithin
    <3> QED
      BY <3>2, <3>3
  <2>3. BeginView(s) \in Holding(M)
    <3>1. BeginView(s).tx = <<>>
      BY DEF BeginView
    <3> QED
      BY <2>1, <2>2, <3>1 DEF Holding
  <2>4. LossView(b) \in Holding(M)
    <3>1. b.cc \in CongestionControls
      BY <2>1 DEF Views
    <3>2. LossView(b).tx = <<>> /\ LossView(b).cc.queue = b.cc.queue
      BY <3>1 DEF LossView, CongestionStateSet, CongestionControls
    <3> QED
      BY <2>1, <2>2, <3>2 DEF Holding
  <2> HIDE DEF b
  <2>5. ReceivedAck => AckedView(b, a) \in Holding(M)
    <3>1. AckedView(b, a).tx = <<>> /\ AckedView(b, a).cc = b.cc
      BY DEF AckedView
    <3>2. ReceivedAck => AckedView(b, a) \in Views
      BY <1>1, HandlerStart DEF b
    <3> QED
      BY <2>2, <3>1, <3>2 DEF Holding
  <2>6. ASSUME ReceivedAck, NEW v \in Holding(M)
        PROVE  HeardView(v, a, newly) \in Holding(W)
    <3> DEFINE k == Len(v.tx)
    <3>1. /\ v \in Views /\ k \in 0..2 /\ v.cc.queue \in Queues(M[k])
          /\ v.cc \in CongestionControls
      BY HoldingType
    <3>2. HeardView(v, a, newly) \in Views /\ a.ack = s'.buf.una /\ newly \in Int
      BY <1>1, <2>6, <3>1, HandlerStart
    <3>3. newly * MSS \in Int /\ a.ack \in Int
      BY <1>1, <3>2, PccAssumption, TxBufferAssumption
    <3> HIDE DEF k, newly, a
    <3>4. CASE v.cc.waitMode
      <4>1. HeardView(v, a, newly) = v
        BY <3>1, <3>4 DEF HeardView, CongControl, Views
      <4> QED
        BY <1>3, <4>1
    <3>5. CASE ~v.cc.waitMode
      <4>1. \A mi \in M[k] : IF AllPacketsAccountedFor(mi) THEN mi \in W[k]
                             ELSE MIAcked(mi, SeqNo(a.ack), newly * MSS) \in W[k]
        BY <3>1, <3>2, <3>3
      <4>2. CongControl(v.cc, a.ack, newly).queue \in Queues(W[k])
        BY <1>2, <3>1, <3>2, <3>3, <3>5, <4>1, AckedWithin
      <4>3. HeardView(v, a, newly).cc = CongControl(v.cc, a.ack, newly)
            /\ Len(HeardView(v, a, newly).tx) = k
        BY DEF HeardView, k
      <4> QED
        BY <3>1, <3>2, <4>2, <4>3 DEF Holding
    <3> QED
      BY <3>4, <3>5
  <2>7. /\ ClosedLost(Holding(M), s'.buf.una, s.buf.high) /\ ClosedState(Holding(M))
        /\ ClosedSent(Holding(W), s'.buf.una, s.buf.high)
    BY <1>1, HoldingClosed
  <2>8. In(s', s'.buf.una, s.buf.high, Holding(W))
    <3>1. BeginView(s) \in Holding(W) /\ LossView(b) \in Holding(W)
      BY <1>3, <2>3, <2>4
    <3> HIDE DEF a, newly
    <3> QED
      BY <1>1, <1>4, <2>5, <2>6, <2>7, <3>1, HandlerIn DEF a, newly, b
  <2>9. View(s') \in Holding(W) /\ View(s').cc = s'.cc
    BY <2>8 DEF In, View
  <2>10. Len(View(s').tx) \in 0..2 /\ View(s').cc.queue \in Queues(W[Len(View(s').tx)])
    BY <2>9, HoldingType
  <2> QED
    BY <2>9, <2>10
<1>5. CASE IntervalEnds
  <2> DEFINE q == Aged(s.cc.queue)
             S == M[0]
             T == W[0]
  <2>1. /\ s'.cc.queue = [q EXCEPT ![Len(s.cc.queue)].ended = TRUE]
        /\ s.cc.queue \in Seq(Intervals) /\ s.cc.queue # <<>>
    BY <1>1, <1>5, IntervalEndsView
  <2>2. q \in Queues(S) /\ Len(q) = Len(s.cc.queue)
    BY <1>2, AgedWithin
  <2>3. q # <<>>
    BY <2>1, <2>2
  <2> HIDE DEF q
  <2>4. S \subseteq Intervals /\ S \subseteq T /\ \A mi \in S : [mi EXCEPT !.ended = TRUE] \in T
    BY <1>2
  <2> HIDE DEF S, T
  <2>5. [q EXCEPT ![Len(q)].ended = TRUE] \in Queues(T)
    BY <2>2, <2>3, <2>4, EndedWithin
  <2> QED
    BY <2>1, <2>2, <2>5 DEF T
<1>6. CASE s' = s
  <2>1. s.cc.queue \in Queues(W[0])
    BY <1>2, QueuesType
  <2> QED
    BY <1>6, <2>1
<1> QED
  BY <1>4, <1>5, <1>6 DEF Next, vars, ReceivedData, DelAckTimeout, Drop

-----------------------------------------------------------------------------
\* Only the newest interval may still send.

\* The queue in order.
Ordered == s.cc.queue \in Queues(Intervals)

\* Nothing but its type is asked of an interval.
Anything == [k \in 0..2 |-> Intervals]

\* Whatever an interval hears, it is one afterwards.
LEMMA HearingType ==
  ASSUME NEW mi \in Intervals
  PROVE  /\ [mi EXCEPT !.fresh = FALSE] \in Intervals
         /\ [mi EXCEPT !.ended = TRUE] \in Intervals
         /\ \A p \in Int : MISent(mi, p, MSS) \in Intervals /\ MILost(mi, p, MSS) \in Intervals
         /\ \A p \in Int, sz \in Int : MIAcked(mi, p, sz) \in Intervals
<1>1. [mi EXCEPT !.fresh = FALSE] \in Intervals /\ [mi EXCEPT !.ended = TRUE] \in Intervals
  BY DEF Intervals
<1>2. MSS \in Int
  BY PccAssumption
<1> QED
  BY <1>1, <1>2, MISentType, MILostType, MIAckedType

\* All intervals are such a family.
LEMMA AnythingCarries ==
  ASSUME NEW una \in 0..N
  PROVE  Carries(Anything, una)
<1>1. \A k \in 0..2 : Anything[k] = Intervals
  BY DEF Anything
<1>2. \A k \in 0..1 : k \in 0..2 /\ k + 1 \in 0..2
  OBVIOUS
<1>3. \A seg \in una..N-1 : SeqNo(seg) \in Int
  BY TxBufferAssumption, SeqNoType
<1>4. Anything \in [0..2 -> SUBSET Intervals]
  BY DEF Anything
<1> HIDE DEF Anything
<1> QED
  BY <1>1, <1>2, <1>3, <1>4, HearingType, NewIntervalType DEF Carries

\* The queue stays ordered: all but its newest interval have ended.
LEMMA QueueOrdered ==
  ASSUME Reached, [Next]_vars, Ordered
  PROVE  Ordered'
<1>1. \A k \in 0..2 : Anything[k] = Intervals
  BY DEF Anything
<1>2. s'.buf.una \in 0..N
  BY UnaGrows
<1>3. Carries(Anything, s'.buf.una)
  BY <1>2, AnythingCarries
<1>4. SeqNo(s'.buf.una) \in Int
  BY <1>2, TxBufferAssumption, SeqNoType
<1> DEFINE p == SeqNo(s'.buf.una)
           M == Anything
<1> HIDE DEF p, Anything
<1>5. \A mi \in M[0] : /\ [mi EXCEPT !.fresh = FALSE] \in M[0]
                       /\ [mi EXCEPT !.ended = TRUE] \in M[0]
  <2> SUFFICES ASSUME NEW mi \in M[0]
               PROVE  /\ [mi EXCEPT !.fresh = FALSE] \in M[0]
                      /\ [mi EXCEPT !.ended = TRUE] \in M[0]
    OBVIOUS
  <2>1. M[0] = Intervals
    BY <1>1
  <2> QED
    BY <2>1, HearingType
<1>6. \A k \in 0..2 : \A mi \in M[k], sz \in Int : MIAcked(mi, p, sz) \in M[k]
  <2> SUFFICES ASSUME NEW k \in 0..2, NEW mi \in M[k], NEW sz \in Int
               PROVE  MIAcked(mi, p, sz) \in M[k]
    OBVIOUS
  <2>1. M[k] = Intervals
    BY <1>1
  <2> QED
    BY <1>4, <2>1, HearingType DEF p
<1>7. s.cc.queue \in Queues(M[0])
  BY <1>1 DEF Ordered
<1>9. \E k \in 0..2 : s'.cc.queue \in Queues(M[k])
  BY <1>3, <1>5, <1>6, <1>7, QueueStep DEF p
<1> QED
  BY <1>1, <1>9 DEF Ordered

-----------------------------------------------------------------------------
\* Intervals the cumulative ACK has passed.

Passed(una) == {mi \in Intervals : mi.last < SeqNo(una) => mi.nAcc = mi.nSent}

\* A later packet number is a greater one.
LEMMA SeqNoGrows ==
  \A a, b \in Int : a <= b => SeqNo(a) <= SeqNo(b)
<1> SUFFICES ASSUME NEW a \in Int, NEW b \in Int, a <= b
             PROVE  SeqNo(a) <= SeqNo(b)
  OBVIOUS
<1>1. \A d, m \in Nat : d * m \in Nat
  OBVIOUS
<1>2. b - a \in Nat /\ MSS \in Nat
  BY PccAssumption
<1>3. (b - a) * MSS \in Nat
  BY <1>1, <1>2
<1>4. (b - a) * MSS = b * MSS - a * MSS
  BY <1>2
<1> QED
  BY <1>2, <1>3, <1>4, SeqNoType DEF SeqNo

\* The ACK that passes an interval accounts for it, and what is sent afterwards lies
\* beyond that ACK.
LEMMA PassedHears ==
  ASSUME NEW una \in 0..N, NEW mi \in Intervals
  PROVE  /\ AllPacketsAccountedFor(mi) => mi \in Passed(una)
         /\ \A sz \in Int : MIAcked(mi, SeqNo(una), sz) \in Passed(una)
         /\ \A seg \in una..N-1 : MISent(mi, SeqNo(seg), MSS) \in Passed(una)
         /\ mi \in Passed(una) => [mi EXCEPT !.fresh = FALSE] \in Passed(una)
                                  /\ [mi EXCEPT !.ended = TRUE] \in Passed(una)
<1> DEFINE p == SeqNo(una)
<1>1. una \in Int /\ p \in Int
  BY TxBufferAssumption, SeqNoType
<1>2. mi.last \in Int /\ mi.first \in Int
  BY DEF Intervals
<1>3. ASSUME NEW sz \in Int
      PROVE  MIAcked(mi, p, sz) \in Passed(una)
  <2>1. MIAcked(mi, p, sz) \in Intervals
    BY <1>1, HearingType
  <2>2. MIAcked(mi, p, sz).last = mi.last /\ MIAcked(mi, p, sz).nSent = mi.nSent
    BY DEF MIAcked, Account, TimeAcks, Intervals
  <2>3. mi.last < p => MIAcked(mi, p, sz).nAcc = mi.nSent
    BY <1>1, <1>2 DEF MIAcked, Account, TimeAcks, ContainsPacket, Intervals
  <2> QED
    BY <2>1, <2>2, <2>3 DEF Passed
<1>4. ASSUME NEW seg \in una..N-1
      PROVE  MISent(mi, SeqNo(seg), MSS) \in Passed(una)
  <2>1. seg \in Int /\ una <= seg /\ SeqNo(seg) \in Int /\ p <= SeqNo(seg)
    BY <1>1, TxBufferAssumption, SeqNoType, SeqNoGrows
  <2>2. MISent(mi, SeqNo(seg), MSS) \in Intervals
    BY <2>1, HearingType
  <2>3. MISent(mi, SeqNo(seg), MSS).last = SeqNo(seg)
    BY DEF MISent, Intervals
  <2> HIDE DEF p
  <2>4. ~(SeqNo(seg) < p)
    BY <1>1, <2>1
  <2> QED
    BY <2>2, <2>3, <2>4 DEF Passed, p
<1>5. mi \in Passed(una) => [mi EXCEPT !.fresh = FALSE] \in Passed(una)
                            /\ [mi EXCEPT !.ended = TRUE] \in Passed(una)
  <2>1. ASSUME NEW m \in Intervals, m.last = mi.last, m.nAcc = mi.nAcc, m.nSent = mi.nSent
        PROVE  mi \in Passed(una) => m \in Passed(una)
    BY <2>1 DEF Passed
  <2>2. /\ [mi EXCEPT !.fresh = FALSE].last = mi.last
        /\ [mi EXCEPT !.fresh = FALSE].nAcc = mi.nAcc
        /\ [mi EXCEPT !.fresh = FALSE].nSent = mi.nSent
        /\ [mi EXCEPT !.ended = TRUE].last = mi.last
        /\ [mi EXCEPT !.ended = TRUE].nAcc = mi.nAcc
        /\ [mi EXCEPT !.ended = TRUE].nSent = mi.nSent
    BY DEF Intervals
  <2> QED
    BY <2>1, <2>2, HearingType
<1>6. AllPacketsAccountedFor(mi) => mi \in Passed(una)
  BY DEF AllPacketsAccountedFor, Passed
<1> QED
  BY <1>3, <1>4, <1>5, <1>6

\* The views in which every passed interval is accounted for, unless the congestion
\* control waits.
Settled(una) ==
  {v \in Views : v.cc.waitMode \/ v.cc.queue \in Queues(Passed(una))}

\* Sending does not leave them.
LEMMA SettledClosed ==
  ASSUME NEW una \in 0..N, NEW h
  PROVE  ClosedSent(Settled(una), una, h)
<1> SUFFICES ASSUME NEW v \in Settled(una), NEW seg \in Segments, NEW r \in Rates,
                    seg \in una..N-1
             PROVE  SentView(v, seg, r) \in Settled(una)
  BY DEF ClosedSent, MaySend
<1> DEFINE P == Passed(una)
           c == OnPacketSent(v.cc, seg, r)
<1>1. v \in Views /\ v.cc \in CongestionControls
  BY DEF Settled, Views
<1>2. SentView(v, seg, r) \in Views /\ SentView(v, seg, r).cc = c
  BY <1>1, ViewsKept DEF SentView
<1>3. seg \in Int
  BY TxBufferAssumption
<1>4. CASE v.cc.waitMode
  BY <1>1, <1>2, <1>3, <1>4, OnPacketSentType DEF Settled
<1>5. CASE ~v.cc.waitMode
  <2>1. P \subseteq Intervals /\ v.cc.queue \in Queues(P)
    BY <1>5 DEF Settled, Passed
  <2>2. /\ \A mi \in P : ~mi.ended => MISent(mi, SeqNo(seg), MSS) \in P
        /\ MISent(NewInterval, SeqNo(seg), MSS) \in P
    BY <2>1, PassedHears, NewIntervalType
  <2> HIDE DEF P
  <2>3. c.queue \in Queues(P)
    BY <1>1, <1>3, <2>1, <2>2, SentWithin
  <2> QED
    BY <1>2, <2>3 DEF Settled, P
<1> QED
  BY <1>4, <1>5

\* What the property says of a sender.
Accounts == s.cc.waitMode \/ s.cc.queue \in Queues(Passed(s.buf.una))

\* No step takes that back: the ACK is heard before more is sent, and CA_LOSS waits.
LEMMA NextAccounts ==
  ASSUME Reached, [Next]_vars, Ordered, Accounts
  PROVE  Accounts'
<1> DEFINE una == s'.buf.una
           P == Passed(una)
<1>1. /\ una \in 0..N /\ IInv /\ s.recover <= s.buf.high
      /\ ReceivedAck => una = Head(acks).ack
      /\ s.cc \in CongestionControls
  BY UnaGrows DEF Reached, IInv, TypeOK, Senders
<1>2. P \subseteq Intervals
  BY DEF Passed
<1>3. una = s.buf.una /\ ~s.cc.waitMode => Aged(s.cc.queue) \in Queues(P)
  <2> SUFFICES ASSUME una = s.buf.una, ~s.cc.waitMode
               PROVE  Aged(s.cc.queue) \in Queues(P)
    OBVIOUS
  <2>1. s.cc.queue \in Queues(P)
    BY DEF Accounts
  <2>2. \A mi \in P : [mi EXCEPT !.fresh = FALSE] \in P
    BY <1>1, <1>2, PassedHears
  <2> HIDE DEF P
  <2> QED
    BY <1>2, <2>1, <2>2, AgedWithin
<1>4. CASE Start \/ ReceivedAck \/ ReTxTimeout \/ PacingTimerExpires
  <2> DEFINE b == Begin(s)
             a == Head(acks)
             newly == NewlyDelivered(s.buf, a)
             X == Holding(Anything)
             Y == Settled(una)
  <2>1. /\ b.cc = BeginView(s).cc /\ BeginView(s) \in Views /\ LossView(b) \in Views
        /\ ReceivedAck => AckedView(b, a) \in Views
    BY <1>1, HandlerStart
  <2>2. b.cc.queue = Aged(s.cc.queue) /\ b.cc.waitMode = s.cc.waitMode
        /\ b.cc \in CongestionControls
    BY <1>1, <2>1 DEF BeginView, CongestionControls, Views
  <2> HIDE DEF b
  <2>3. ~ReceivedAck => BeginView(s) \in Y /\ LossView(b) \in Y
    <3>1. LossView(b).cc.waitMode = TRUE
      BY <2>2 DEF LossView, CongestionStateSet, CongestionControls
    <3>2. ~ReceivedAck => una = s.buf.una
      <4>1. In(s', una, s.buf.high, Views) /\ (~ReceivedAck => s'.buf.una = s.buf.una)
        BY <1>1, <1>4, HandlerStart, ViewsClosed, HandlerIn
      <4> QED
        BY <4>1
    <3> QED
      BY <1>3, <2>1, <2>2, <3>1, <3>2 DEF Settled
  <2>4. ReceivedAck => AckedView(b, a) \in X
    <3>1. Aged(s.cc.queue) \in Queues(Intervals)
      BY HearingType, AgedWithin DEF Ordered
    <3>2. AckedView(b, a).tx = <<>> /\ AckedView(b, a).cc = b.cc
      BY DEF AckedView
    <3>3. Anything[0] = Intervals
      BY DEF Anything
    <3> QED
      BY <2>1, <2>2, <3>1, <3>2, <3>3 DEF Holding
  <2>5. ASSUME ReceivedAck, NEW v \in X
        PROVE  HeardView(v, a, newly) \in Y
    <3>1. /\ v \in Views /\ v.cc \in CongestionControls
          /\ v.cc.queue \in Queues(Intervals)
      <4>1. Len(v.tx) \in 0..2 => Anything[Len(v.tx)] = Intervals
        BY DEF Anything
      <4> QED
        BY <4>1, HoldingType
    <3>2. HeardView(v, a, newly) \in Views /\ a.ack = una /\ newly \in Int
      BY <1>1, <2>5, <3>1, HandlerStart
    <3>3. newly * MSS \in Int /\ a.ack \in Int
      BY <1>1, <3>2, PccAssumption, TxBufferAssumption
    <3>4. HeardView(v, a, newly).cc = CongControl(v.cc, a.ack, newly)
      BY DEF HeardView
    <3> HIDE DEF newly, a, P, una
    <3>5. CASE v.cc.waitMode
      BY <3>2, <3>4, <3>5 DEF CongControl, Settled
    <3>6. CASE ~v.cc.waitMode
      <4>1. \A mi \in Intervals : IF AllPacketsAccountedFor(mi) THEN mi \in P
                                  ELSE MIAcked(mi, SeqNo(a.ack), newly * MSS) \in P
        BY <1>1, <3>2, <3>3, PassedHears DEF P
      <4>2. CongControl(v.cc, a.ack, newly).queue \in Queues(P)
        BY <1>2, <3>1, <3>2, <3>3, <3>6, <4>1, AckedWithin
      <4> QED
        BY <3>2, <3>4, <4>2 DEF Settled, P
    <3> QED
      BY <3>5, <3>6
  <2>6. ClosedLost(X, una, s.buf.high) /\ ClosedState(X) /\ ClosedSent(Y, una, s.buf.high)
    BY <1>1, AnythingCarries, HoldingClosed, SettledClosed
  <2> HIDE DEF X, Y, a, newly
  <2>7. In(s', una, s.buf.high, Y)
    BY <1>1, <1>4, <2>3, <2>4, <2>5, <2>6, HandlerIn DEF a, newly, b
  <2> QED
    BY <2>7 DEF In, View, Settled, Accounts, Y
<1>5. CASE IntervalEnds
  <2> DEFINE q == Aged(s.cc.queue)
  <2>1. /\ s'.cc.queue = [q EXCEPT ![Len(s.cc.queue)].ended = TRUE]
        /\ s.cc.queue \in Seq(Intervals) /\ s.cc.queue # <<>> /\ una = s.buf.una
        /\ s'.cc.waitMode = s.cc.waitMode
    BY <1>1, <1>5, IntervalEndsView
  <2>2. CASE s.cc.waitMode
    BY <2>1, <2>2 DEF Accounts
  <2>3. CASE ~s.cc.waitMode
    <3>1. q \in Queues(P)
      BY <1>3, <2>1, <2>3
    <3>2. Len(q) = Len(s.cc.queue) /\ q # <<>>
      BY <2>1 DEF Aged
    <3>3. \A mi \in P : [mi EXCEPT !.ended = TRUE] \in P
      BY <1>1, <1>2, PassedHears
    <3> HIDE DEF P, q
    <3>4. [q EXCEPT ![Len(q)].ended = TRUE] \in Queues(P)
      BY <1>2, <3>1, <3>2, <3>3, EndedWithin
    <3> QED
      BY <2>1, <3>2, <3>4 DEF Accounts, P
  <2> QED
    BY <2>2, <2>3
<1>6. CASE s' = s
  BY <1>6 DEF Accounts
<1> QED
  BY <1>4, <1>5, <1>6 DEF Next, vars, ReceivedData, DelAckTimeout, Drop

\* Outside wait mode no interval is left behind (TcpPccAurora::CongControl, and
\* MonitorInterval::OnPacketAcked for a packet beyond the last one): once the
\* cumulative ACK has passed its last packet it is accounted for, whatever was
\* lost, retransmitted or missed during a wait, and however counters wrap.
THEOREM PassedCorrect == Spec => []PassedIsAccounted
<1>1. Init => Ordered /\ Accounts
  <2> SUFFICES ASSUME Init
               PROVE  \A M : s.cc.queue \in Queues(M)
    BY DEF Ordered, Accounts
  <2>1. s.cc.queue = <<>>
    BY DEF Init, InitialCC
  <2> QED
    BY <2>1 DEF Queues
<1>2. Reached /\ [Next]_vars /\ Ordered /\ Accounts => Ordered' /\ Accounts'
  BY QueueOrdered, NextAccounts
<1>3. Accounts => PassedIsAccounted
  <2> SUFFICES ASSUME Accounts, ~s.cc.waitMode, NEW i \in DOMAIN Queue
               PROVE  Queue[i].last < SeqNo(s.buf.una) => Queue[i].nAcc = Queue[i].nSent
    BY DEF PassedIsAccounted
  <2>1. Queue \in Seq(Passed(s.buf.una))
    BY DEF Accounts, Queues, Queue
  <2>2. Queue[i] \in Passed(s.buf.una)
    BY <2>1
  <2> QED
    BY <2>2 DEF Passed
<1> QED
  BY <1>1, <1>2, <1>3, ReachedAlways, PTL DEF Spec

-----------------------------------------------------------------------------
\* The counters of an interval, while there is room in them.

\* The sequence number after the last byte.
End == N * MSS

\* What an interval knows of the packets it has sent, when una is acknowledged: what
\* it has accounted for reaches from one of its packets to the last one accounted
\* for, and no packet it can still hear of makes the sum fall below zero.
Sums(mi, una) ==
  /\ mi.first \in mi.pkts /\ mi.last \in mi.pkts /\ mi.pkts \subseteq 0..End
  /\ mi.lastAcc <= End
  /\ \E m \in mi.pkts : /\ m - 1 <= mi.lastAcc
                        /\ mi.nAcc <= mi.nSent + (mi.lastAcc - m) + 1
  /\ \/ mi.nAcc + mi.first >= mi.lastAcc
     \/ mi.nAcc + SeqNo(una) >= mi.lastAcc
     \/ mi.ended /\ mi.nAcc = mi.nSent

\* Intervals that have sent; their sums count without ECN.
Counting(una) ==
  {mi \in Intervals : mi.nSent > 0 /\ (~EcnEnabled => Sums(mi, una))}

\* Those with room for what the path can tell before they finish, and for the
\* segments that the handler still sends.
Room(una) ==
  [k \in 0..2 |-> {mi \in Counting(una) : mi.nSent + End + 4 <= UintMod + k}]

\* Sequence numbers of the file.
LEMMA SeqNoWithin ==
  /\ End \in Nat
  /\ \A seg \in 0..N : SeqNo(seg) \in 0..End
  /\ \A una \in 0..N : \A seg \in una..N-1 :
       SeqNo(seg) \in 0..End /\ SeqNo(una) <= SeqNo(seg)
<1>1. N \in Int /\ 0 \in Int /\ MSS \in Int /\ N \in Nat /\ MSS \in Nat
  BY TxBufferAssumption, PccAssumption
<1>2. End \in Nat
  BY <1>1 DEF End
<1>3. ASSUME NEW seg \in 0..N
      PROVE  SeqNo(seg) \in 0..End
  <2>1. seg \in Int /\ 0 <= seg /\ seg <= N
    BY <1>1
  <2>2. SeqNo(0) <= SeqNo(seg) /\ SeqNo(seg) <= SeqNo(N)
    BY <1>1, <2>1, SeqNoGrows
  <2>3. SeqNo(0) = 0 /\ SeqNo(N) = End
    BY <1>1 DEF SeqNo, End
  <2> QED
    BY <1>2, <2>1, <2>2, <2>3, SeqNoType
<1>4. ASSUME NEW una \in 0..N, NEW seg \in una..N-1
      PROVE  SeqNo(seg) \in 0..End /\ SeqNo(una) <= SeqNo(seg)
  <2>1. una \in Int /\ seg \in Int /\ una <= seg /\ seg \in 0..N
    BY <1>1
  <2> QED
    BY <1>3, <2>1, SeqNoGrows
<1> QED
  BY <1>2, <1>3, <1>4

\* A counter that has room counts.
LEMMA Unwrapped == \A x \in Nat : x < UintMod => U32(x) = x
  BY UintModAssumption DEF U32

\* An interval's first packet.
LEMMA FirstCounts ==
  ASSUME NEW una \in 0..N, NEW seg \in una..N-1, End + 4 <= UintMod,
         NEW mi \in Intervals, mi.nSent = 0, mi.nAcc = 0, mi.pkts = {}
  PROVE  LET m == MISent(mi, SeqNo(seg), MSS)
         IN  m \in Counting(una) /\ m.nSent = 1
<1> DEFINE p == SeqNo(seg)
           m == MISent(mi, p, MSS)
<1>1. p \in 0..End /\ p \in Int /\ End \in Nat /\ UintMod \in Nat /\ SeqNo(una) \in Int
  BY SeqNoWithin, UintModAssumption
<1>2. U32(1) = 1
  BY <1>1, Unwrapped
<1>3. m \in Intervals
  BY <1>1, HearingType
<1> HIDE DEF p
<1>4. /\ m.first = p /\ m.last = p /\ m.lastAcc = p - 1 /\ m.nAcc = 0
      /\ m.nSent = 1 /\ m.pkts = {p}
  BY <1>1, <1>2 DEF MISent, Intervals
<1> HIDE DEF m
<1>5. Sums(m, una)
  BY <1>1, <1>4 DEF Sums
<1> QED
  BY <1>3, <1>4, <1>5 DEF Counting, m, p

\* A later packet.
LEMMA SentCounts ==
  ASSUME NEW una \in 0..N, NEW seg \in una..N-1,
         NEW mi \in Counting(una), ~mi.ended, mi.nSent + 1 < UintMod
  PROVE  LET m == MISent(mi, SeqNo(seg), MSS)
         IN  m \in Counting(una) /\ m.nSent = mi.nSent + 1
<1> DEFINE p == SeqNo(seg)
           m == MISent(mi, p, MSS)
<1>1. /\ p \in 0..End /\ p \in Int /\ End \in Nat /\ UintMod \in Nat
      /\ SeqNo(una) \in 0..End
  BY SeqNoWithin, UintModAssumption
<1>2. /\ mi \in Intervals /\ mi.nSent \in Nat /\ mi.nAcc \in Nat /\ mi.nSent > 0
      /\ mi.first \in Int /\ mi.last \in Int /\ mi.lastAcc \in Int
      /\ ~EcnEnabled => Sums(mi, una)
  BY DEF Counting, Intervals
<1>3. U32(mi.nSent + 1) = mi.nSent + 1
  BY <1>2, Unwrapped
<1>4. m \in Intervals
  BY <1>1, <1>2, HearingType
<1> HIDE DEF p
<1>5. /\ m.first = mi.first /\ m.last = p /\ m.lastAcc = mi.lastAcc
      /\ m.nAcc = mi.nAcc /\ m.ended = mi.ended
      /\ m.nSent = mi.nSent + 1 /\ m.pkts = mi.pkts \cup {p}
  BY <1>2, <1>3 DEF MISent, Intervals
<1> HIDE DEF m
<1>6. ASSUME ~EcnEnabled
      PROVE  Sums(m, una)
  <2>1. Sums(mi, una)
    BY <1>2, <1>6
  <2>2. PICK x \in mi.pkts : /\ x - 1 <= mi.lastAcc
                             /\ mi.nAcc <= mi.nSent + (mi.lastAcc - x) + 1
    BY <2>1 DEF Sums
  <2>3. x \in m.pkts /\ x \in Int
    BY <1>1, <1>5, <2>1 DEF Sums
  <2>4. x - 1 <= m.lastAcc /\ m.nAcc <= m.nSent + (m.lastAcc - x) + 1
    BY <1>2, <1>5, <2>2, <2>3
  <2> QED
    BY <1>1, <1>5, <2>1, <2>3, <2>4 DEF Sums
<1> QED
  BY <1>2, <1>4, <1>5, <1>6 DEF Counting, m, p

\* A packet that an interval hears of, at or beyond the cumulative ACK.
LEMMA AccountCounts ==
  ASSUME NEW una \in 0..N, NEW p \in 0..End, SeqNo(una) <= p,
         NEW mi \in Counting(una), mi.nSent + End + 1 < UintMod,
         ~AllPacketsAccountedFor(mi),
         EcnEnabled \/ mi.ended \/ p = SeqNo(una) \/ mi.last = p,
         NEW m \in Intervals,
         m.first = mi.first, m.last = mi.last, m.pkts = mi.pkts,
         m.nSent = mi.nSent, m.ended = mi.ended,
         m.nAcc = IF ContainsPacket(mi, p) THEN U32(mi.nAcc + (p - mi.lastAcc))
                  ELSE IF p > mi.last THEN mi.nSent ELSE mi.nAcc,
         m.lastAcc = IF ContainsPacket(mi, p) THEN p
                     ELSE IF p > mi.last THEN mi.last ELSE mi.lastAcc
  PROVE  m \in Counting(una)
<1>1. /\ p \in Int /\ p <= End /\ End \in Nat /\ UintMod \in Nat
      /\ SeqNo(una) \in 0..End /\ SeqNo(una) \in Int
  BY SeqNoWithin, UintModAssumption
<1>2. /\ mi \in Intervals /\ mi.nSent \in Nat /\ mi.nAcc \in Nat /\ mi.nSent > 0
      /\ mi.first \in Int /\ mi.last \in Int /\ mi.lastAcc \in Int
      /\ ~EcnEnabled => Sums(mi, una)
  BY DEF Counting, Intervals
<1>3. ASSUME ~EcnEnabled
      PROVE  Sums(m, una)
  <2>1. Sums(mi, una)
    BY <1>2, <1>3
  <2>2. /\ mi.first \in mi.pkts /\ mi.last \in mi.pkts /\ mi.pkts \subseteq 0..End
        /\ mi.lastAcc <= End
        /\ \/ mi.nAcc + mi.first >= mi.lastAcc
           \/ mi.nAcc + SeqNo(una) >= mi.lastAcc
           \/ mi.ended /\ mi.nAcc = mi.nSent
    BY <2>1 DEF Sums
  <2>3. PICK x \in mi.pkts : /\ x - 1 <= mi.lastAcc
                             /\ mi.nAcc <= mi.nSent + (mi.lastAcc - x) + 1
    BY <2>1 DEF Sums
  <2>4. x \in Int /\ 0 <= x /\ mi.last <= End
    BY <1>1, <2>2
  <2>5. CASE ContainsPacket(mi, p)
    <3>1. mi.first <= p /\ p <= mi.last
      BY <2>5 DEF ContainsPacket
    <3>2. mi.nAcc + (p - mi.lastAcc) >= 0
      BY <1>1, <1>2, <2>2, <3>1 DEF AllPacketsAccountedFor, AllPacketsSent
    <3>3. mi.nAcc + (p - mi.lastAcc) < UintMod
      BY <1>1, <1>2, <2>3, <2>4
    <3>4. U32(mi.nAcc + (p - mi.lastAcc)) = mi.nAcc + (p - mi.lastAcc)
      BY <1>1, <1>2, <3>2, <3>3, Unwrapped
    <3>5. m.nAcc = mi.nAcc + (p - mi.lastAcc) /\ m.lastAcc = p
      BY <2>5, <3>4
    <3>6. \/ m.nAcc + m.first >= m.lastAcc
          \/ m.nAcc + SeqNo(una) >= m.lastAcc
      BY <1>1, <1>2, <2>2, <3>5 DEF AllPacketsAccountedFor, AllPacketsSent
    <3>7. \E y \in m.pkts : /\ y - 1 <= m.lastAcc
                            /\ m.nAcc <= m.nSent + (m.lastAcc - y) + 1
      <4>1. CASE x - 1 <= p
        <5>1. x - 1 <= m.lastAcc /\ m.nAcc <= m.nSent + (m.lastAcc - x) + 1
          BY <1>1, <1>2, <2>3, <2>4, <3>5, <4>1
        <5> QED
          BY <5>1
      <4>2. CASE x - 1 > p
        <5>1. mi.first - 1 <= m.lastAcc
              /\ m.nAcc <= m.nSent + (m.lastAcc - mi.first) + 1
          BY <1>1, <1>2, <2>3, <2>4, <3>1, <3>5, <4>2
        <5> QED
          BY <2>2, <5>1
      <4> QED
        BY <1>1, <2>4, <4>1, <4>2
    <3> QED
      BY <1>1, <2>2, <3>5, <3>6, <3>7 DEF Sums
  <2>6. CASE ~ContainsPacket(mi, p) /\ p > mi.last
    <3>1. m.nAcc = mi.nSent /\ m.lastAcc = mi.last
      BY <2>6
    <3>2. \/ m.nAcc + SeqNo(una) >= m.lastAcc
          \/ m.ended /\ m.nAcc = m.nSent
      BY <1>1, <1>2, <1>3, <2>6, <3>1
    <3>3. mi.last - 1 <= m.lastAcc /\ m.nAcc <= m.nSent + (m.lastAcc - mi.last) + 1
      BY <1>2, <3>1
    <3>4. \E y \in m.pkts : /\ y - 1 <= m.lastAcc
                            /\ m.nAcc <= m.nSent + (m.lastAcc - y) + 1
      BY <2>2, <3>3
    <3> QED
      BY <2>2, <2>4, <3>1, <3>2, <3>4 DEF Sums
  <2>7. CASE ~ContainsPacket(mi, p) /\ ~(p > mi.last)
    <3>1. m.nAcc = mi.nAcc /\ m.lastAcc = mi.lastAcc
      BY <2>7
    <3> QED
      BY <2>1, <3>1 DEF Sums
  <2> QED
    BY <2>5, <2>6, <2>7
<1> QED
  BY <1>2, <1>3 DEF Counting

\* What OnPacketAcked and OnPacketLost share, field by field.
LEMMA AccountFields ==
  ASSUME NEW mi \in Intervals, NEW p \in Int, NEW sz \in Int,
         NEW m \in {MIAcked(mi, p, sz), MILost(mi, p, sz)}
  PROVE  /\ m \in Intervals
         /\ m.first = mi.first /\ m.last = mi.last /\ m.pkts = mi.pkts
         /\ m.nSent = mi.nSent /\ m.ended = mi.ended
         /\ m.nAcc = IF ContainsPacket(mi, p) THEN U32(mi.nAcc + (p - mi.lastAcc))
                     ELSE IF p > mi.last THEN mi.nSent ELSE mi.nAcc
         /\ m.lastAcc = IF ContainsPacket(mi, p) THEN p
                        ELSE IF p > mi.last THEN mi.last ELSE mi.lastAcc
<1> DEFINE t == TimeAcks(mi, p)
           a == Account(mi, p)
<1>1. t \in Intervals /\ a \in Intervals /\ m \in Intervals
  BY TimeAcksType, AccountType, MIAckedType, MILostType
<1>2. /\ t.first = mi.first /\ t.last = mi.last /\ t.pkts = mi.pkts
      /\ t.nSent = mi.nSent /\ t.ended = mi.ended /\ t.nAcc = mi.nAcc
      /\ t.lastAcc = mi.lastAcc
  BY DEF TimeAcks, Intervals
<1> HIDE DEF t
<1>3. /\ a.first = mi.first /\ a.last = mi.last /\ a.pkts = mi.pkts
      /\ a.nSent = mi.nSent /\ a.ended = mi.ended
      /\ a.nAcc = IF ContainsPacket(mi, p) THEN U32(mi.nAcc + (p - mi.lastAcc))
                  ELSE IF p > mi.last THEN mi.nSent ELSE mi.nAcc
      /\ a.lastAcc = IF ContainsPacket(mi, p) THEN p
                     ELSE IF p > mi.last THEN mi.last ELSE mi.lastAcc
  BY <1>1, <1>2 DEF Account, t, Intervals
<1> HIDE DEF a
<1>4. /\ m.first = a.first /\ m.last = a.last /\ m.pkts = a.pkts
      /\ m.nSent = a.nSent /\ m.ended = a.ended /\ m.nAcc = a.nAcc
      /\ m.lastAcc = a.lastAcc
  BY <1>1 DEF MIAcked, MILost, a, Intervals
<1> QED
  BY <1>1, <1>3, <1>4

\* What is acknowledged later is acknowledged too.
LEMMA CountingGrows ==
  ASSUME NEW una \in 0..N, NEW next \in 0..N, una <= next
  PROVE  Counting(una) \subseteq Counting(next)
<1> SUFFICES ASSUME NEW mi \in Counting(una)
             PROVE  mi \in Counting(next)
  OBVIOUS
<1>1. SeqNo(una) <= SeqNo(next) /\ SeqNo(una) \in Int /\ SeqNo(next) \in Int
  BY TxBufferAssumption, SeqNoGrows, SeqNoType
<1>2. mi.nAcc \in Int /\ mi.lastAcc \in Int /\ mi \in Intervals
  BY DEF Counting, Intervals
<1>3. Sums(mi, una) => Sums(mi, next)
  <2>1. mi.nAcc + SeqNo(una) >= mi.lastAcc => mi.nAcc + SeqNo(next) >= mi.lastAcc
    BY <1>1, <1>2
  <2> QED
    BY <2>1 DEF Sums
<1> QED
  BY <1>3 DEF Counting

\* Time that passes does not touch the counters.
LEMMA CountingAges ==
  ASSUME NEW una, NEW mi \in Counting(una)
  PROVE  /\ [mi EXCEPT !.fresh = FALSE] \in Counting(una)
         /\ [mi EXCEPT !.ended = TRUE] \in Counting(una)
         /\ [mi EXCEPT !.fresh = FALSE].nSent = mi.nSent
         /\ [mi EXCEPT !.ended = TRUE].nSent = mi.nSent
<1>1. mi \in Intervals
  BY DEF Counting
<1>2. ASSUME NEW m \in Intervals, m.first = mi.first, m.last = mi.last,
             m.lastAcc = mi.lastAcc, m.nAcc = mi.nAcc, m.nSent = mi.nSent,
             m.pkts = mi.pkts, mi.ended => m.ended
      PROVE  m \in Counting(una)
  BY <1>2 DEF Counting, Sums
<1> DEFINE f == [mi EXCEPT !.fresh = FALSE]
           e == [mi EXCEPT !.ended = TRUE]
<1>3. /\ f \in Intervals /\ f.first = mi.first /\ f.last = mi.last
      /\ f.lastAcc = mi.lastAcc /\ f.nAcc = mi.nAcc /\ f.nSent = mi.nSent
      /\ f.pkts = mi.pkts /\ f.ended = mi.ended
  BY <1>1 DEF Intervals
<1>4. /\ e \in Intervals /\ e.first = mi.first /\ e.last = mi.last
      /\ e.lastAcc = mi.lastAcc /\ e.nAcc = mi.nAcc /\ e.nSent = mi.nSent
      /\ e.pkts = mi.pkts /\ e.ended = TRUE
  BY <1>1 DEF Intervals
<1> HIDE DEF f, e
<1>5. f \in Counting(una) /\ e \in Counting(una)
  BY <1>2, <1>3, <1>4
<1> QED
  BY <1>3, <1>4, <1>5 DEF f, e

\* What an interval hears at or beyond the cumulative ACK keeps its sums.
LEMMA HearingCounts ==
  ASSUME NEW una \in 0..N, NEW p \in 0..End, SeqNo(una) <= p, NEW sz \in Int,
         NEW mi \in Counting(una), mi.nSent + End + 1 < UintMod,
         ~AllPacketsAccountedFor(mi),
         EcnEnabled \/ mi.ended \/ p = SeqNo(una) \/ mi.last = p,
         NEW m \in {MIAcked(mi, p, sz), MILost(mi, p, sz)}
  PROVE  m \in Counting(una) /\ m.nSent = mi.nSent
<1>1. mi \in Intervals /\ p \in Int
  BY SeqNoWithin DEF Counting
<1>2. /\ m \in Intervals
      /\ m.first = mi.first /\ m.last = mi.last /\ m.pkts = mi.pkts
      /\ m.nSent = mi.nSent /\ m.ended = mi.ended
      /\ m.nAcc = IF ContainsPacket(mi, p) THEN U32(mi.nAcc + (p - mi.lastAcc))
                  ELSE IF p > mi.last THEN mi.nSent ELSE mi.nAcc
      /\ m.lastAcc = IF ContainsPacket(mi, p) THEN p
                     ELSE IF p > mi.last THEN mi.last ELSE mi.lastAcc
  BY <1>1, AccountFields
<1> QED
  BY <1>2, AccountCounts

\* Room is such a family as a handler carries on, also while the scoreboard knows of
\* a later ACK than the congestion control.
LEMMA RoomCarries ==
  ASSUME NEW una \in 0..N, NEW next \in 0..N, una <= next, End + 4 <= UintMod
  PROVE  Carries(Room(una), next)
<1> DEFINE M == Room(una)
<1>1. /\ M \in [0..2 -> SUBSET Intervals]
      /\ \A k \in 0..2 : M[k] = {mi \in Counting(una) : mi.nSent + End + 4 <= UintMod + k}
  <2>1. Counting(una) \subseteq Intervals
    BY DEF Counting
  <2> QED
    BY <2>1 DEF Room
<1> HIDE DEF M
<1>2. /\ End \in Nat /\ UintMod \in Nat /\ MSS \in Int
      /\ \A mi \in Counting(una) : mi.nSent \in Nat
  BY SeqNoWithin, UintModAssumption, PccAssumption DEF Counting, Intervals
<1>3. \A seg \in next..N-1 : seg \in una..N-1
  BY TxBufferAssumption
<1>4. ASSUME NEW k \in 0..1
      PROVE  M[k] \subseteq M[k + 1]
  <2> SUFFICES ASSUME NEW mi \in M[k]
               PROVE  mi \in M[k + 1]
    OBVIOUS
  <2>1. k \in 0..2 /\ k + 1 \in 0..2
    OBVIOUS
  <2>2. mi \in Counting(una) /\ mi.nSent + End + 4 <= UintMod + k
    BY <1>1, <2>1
  <2>3. mi.nSent + End + 4 <= UintMod + (k + 1)
    BY <1>2, <2>2
  <2> QED
    BY <1>1, <2>1, <2>2, <2>3
<1>5. ASSUME NEW k \in 0..1, NEW seg \in next..N-1
      PROVE  /\ MISent(NewInterval, SeqNo(seg), MSS) \in M[k + 1]
             /\ \A mi \in M[k] : ~mi.ended => MISent(mi, SeqNo(seg), MSS) \in M[k + 1]
  <2>1. k \in 0..2 /\ k + 1 \in 0..2 /\ seg \in una..N-1
    BY <1>3
  <2>2. MISent(NewInterval, SeqNo(seg), MSS) \in M[k + 1]
    <3> DEFINE m == MISent(NewInterval, SeqNo(seg), MSS)
    <3>1. m \in Counting(una) /\ m.nSent = 1
      <4>1. /\ NewInterval \in Intervals /\ NewInterval.nSent = 0
            /\ NewInterval.nAcc = 0 /\ NewInterval.pkts = {}
        BY NewIntervalType DEF NewInterval
      <4> QED
        BY <2>1, <4>1, FirstCounts
    <3> HIDE DEF m
    <3>2. m.nSent + End + 4 <= UintMod + (k + 1)
      BY <1>2, <3>1
    <3> QED
      BY <1>1, <2>1, <3>1, <3>2 DEF m
  <2>3. ASSUME NEW mi \in M[k], ~mi.ended
        PROVE  MISent(mi, SeqNo(seg), MSS) \in M[k + 1]
    <3> DEFINE m == MISent(mi, SeqNo(seg), MSS)
    <3>1. mi \in Counting(una) /\ mi.nSent + End + 4 <= UintMod + k
      BY <1>1, <2>1
    <3>2. mi.nSent + 1 < UintMod
      BY <1>2, <3>1
    <3>3. m \in Counting(una) /\ m.nSent = mi.nSent + 1
      BY <2>1, <2>3, <3>1, <3>2, SentCounts
    <3> HIDE DEF m
    <3>4. m.nSent + End + 4 <= UintMod + (k + 1)
      BY <1>2, <3>1, <3>3
    <3> QED
      BY <1>1, <2>1, <3>3, <3>4 DEF m
  <2> QED
    BY <2>2, <2>3
<1>6. ASSUME NEW k \in 0..2, NEW seg \in next..N-1, NEW mi \in M[k],
             ~AllPacketsAccountedFor(mi),
             EcnEnabled \/ mi.ended \/ mi.last = SeqNo(seg)
      PROVE  MILost(mi, SeqNo(seg), MSS) \in M[k]
  <2> DEFINE m == MILost(mi, SeqNo(seg), MSS)
             p == SeqNo(seg)
  <2>1. mi \in Counting(una) /\ mi.nSent + End + 4 <= UintMod + k
    BY <1>1
  <2>2. mi.nSent + End + 1 < UintMod
    BY <1>2, <2>1
  <2>3. p \in 0..End /\ SeqNo(una) <= p
    BY <1>3, SeqNoWithin
  <2>4. m \in Counting(una) /\ m.nSent = mi.nSent
    <3> HIDE DEF p
    <3>1. MILost(mi, p, MSS) \in {MIAcked(mi, p, MSS), MILost(mi, p, MSS)}
      OBVIOUS
    <3>2. EcnEnabled \/ mi.ended \/ mi.last = p
      BY <1>6 DEF p
    <3> QED
      BY <1>2, <1>6, <2>1, <2>2, <2>3, <3>1, <3>2, HearingCounts DEF p
  <2> HIDE DEF m
  <2> QED
    BY <1>1, <2>1, <2>4 DEF m
<1> QED
  BY <1>1, <1>4, <1>5, <1>6 DEF Carries, M

\* There is room in the counters: the file is shorter than their range, and so is
\* what an interval has sent and the path can still tell.
Roomy ==
  /\ N * MSS + 4 <= UintMod
  /\ \A i \in DOMAIN Queue : Queue[i].nSent + N * MSS + 4 <= UintMod

\* The intervals of the queue have sent, and their sums count.
Summed == s.cc.queue \in Queues(Counting(s.buf.una))

\* A step from counters with room keeps their sums.
LEMMA NextSums ==
  ASSUME Reached, [Next]_vars, Roomy, Summed
  PROVE  Summed'
<1> DEFINE una == s.buf.una
           next == s'.buf.una
           M == Room(una)
           W == Room(next)
           p == SeqNo(next)
<1>1. una \in 0..N /\ next \in 0..N /\ una <= next
  BY UnaGrows
<1>2. /\ End \in Nat /\ UintMod \in Nat /\ End + 4 <= UintMod
      /\ p \in 0..End /\ p \in Int /\ p <= p
      /\ \A mi \in Counting(next) : mi.nSent \in Nat
  BY <1>1, SeqNoWithin, UintModAssumption DEF Roomy, End, Counting, Intervals
<1>3. next <= next
  BY <1>1, TxBufferAssumption
<1>4. Carries(M, next) /\ Carries(W, next)
  BY <1>1, <1>2, <1>3, RoomCarries
<1>5. /\ \A k \in 0..2 : M[k] = {mi \in Counting(una) : mi.nSent + End + 4 <= UintMod + k}
      /\ \A k \in 0..2 : W[k] = {mi \in Counting(next) : mi.nSent + End + 4 <= UintMod + k}
  BY DEF Room
<1>6. Counting(una) \subseteq Counting(next)
  BY <1>1, CountingGrows
<1> HIDE DEF M, W
<1>7. \A k \in 0..2 : M[k] \subseteq W[k]
  BY <1>5, <1>6
<1>8. ASSUME NEW mi \in M[0]
      PROVE  [mi EXCEPT !.fresh = FALSE] \in M[0] /\ [mi EXCEPT !.ended = TRUE] \in W[0]
  <2>1. mi \in Counting(una) /\ mi.nSent + End + 4 <= UintMod + 0
    BY <1>5
  <2> DEFINE f == [mi EXCEPT !.fresh = FALSE]
             e == [mi EXCEPT !.ended = TRUE]
  <2>3. f \in Counting(una) /\ e \in Counting(una) /\ f.nSent = mi.nSent /\ e.nSent = mi.nSent
    BY <2>1, CountingAges
  <2> HIDE DEF f, e
  <2>4. M[0] = {x \in Counting(una) : x.nSent + End + 4 <= UintMod + 0}
    BY <1>5
  <2>5. f \in M[0] /\ e \in M[0]
    BY <2>1, <2>3, <2>4
  <2> QED
    BY <1>7, <2>5 DEF f, e
<1>9. ASSUME NEW k \in 0..2, NEW mi \in M[k], NEW sz \in Int, ~AllPacketsAccountedFor(mi)
      PROVE  MIAcked(mi, p, sz) \in W[k]
  <2> DEFINE m == MIAcked(mi, p, sz)
  <2>1. mi \in Counting(next) /\ mi.nSent + End + 4 <= UintMod + k
    BY <1>5, <1>7
  <2>2. mi.nSent + End + 1 < UintMod
    BY <1>2, <2>1
  <2>3. m \in {MIAcked(mi, p, sz), MILost(mi, p, sz)}
    OBVIOUS
  <2>4. m \in Counting(next) /\ m.nSent = mi.nSent
    BY <1>1, <1>2, <1>9, <2>1, <2>2, <2>3, HearingCounts
  <2> HIDE DEF m
  <2> QED
    BY <1>5, <2>1, <2>4 DEF m
<1>10. s.cc.queue \in Queues(M[0])
  <2>1. /\ s.cc.queue \in Seq(Counting(una))
        /\ \A i \in 1..Len(s.cc.queue)-1 : s.cc.queue[i].ended
    BY DEF Summed, Queues
  <2>2. \A i \in 1..Len(s.cc.queue) : s.cc.queue[i] \in M[0]
    <3> SUFFICES ASSUME NEW i \in 1..Len(s.cc.queue)
                 PROVE  s.cc.queue[i] \in M[0]
      OBVIOUS
    <3>1. s.cc.queue[i] \in Counting(una) /\ i \in DOMAIN s.cc.queue
      BY <2>1
    <3>2. s.cc.queue[i].nSent + End + 4 <= UintMod
      BY <3>1 DEF Roomy, Queue, End
    <3>3. UintMod + 0 = UintMod
      BY <1>2
    <3> QED
      BY <1>5, <3>1, <3>2, <3>3
  <2>3. s.cc.queue \in Seq(M[0])
    BY <2>1, <2>2
  <2> QED
    BY <2>1, <2>3 DEF Queues
<1> HIDE DEF p
<1>11. PICK k \in 0..2 : s'.cc.queue \in Queues(W[k])
  BY <1>4, <1>7, <1>8, <1>9, <1>10, QueueStep DEF p
<1>12. W[k] \subseteq Counting(next)
  BY <1>5
<1>13. s'.cc.queue \in Queues(Counting(next))
  BY <1>11, <1>12, QueuesType
<1> QED
  BY <1>13 DEF Summed

\* As long as there is room in them the counters count.
LEMMA SummedAlways == Spec /\ []Roomy => []Summed
<1>1. Init => Summed
  <2> SUFFICES ASSUME Init
               PROVE  \A M : s.cc.queue \in Queues(M)
    BY DEF Summed
  <2>1. s.cc.queue = <<>>
    BY DEF Init, InitialCC
  <2> QED
    BY <2>1 DEF Queues
<1>2. Reached /\ [Next]_vars /\ Roomy /\ Summed => Summed'
  BY NextSums
<1> QED
  BY <1>1, <1>2, ReachedAlways, PTL DEF Spec

\* GetAveragePacketSize divides by no zero, and only the newest interval may still
\* send (PccMonitorIntervalQueue::OnPacketSent counts on both): an interval enters the
\* queue in the handler that sends its first packet.
THEOREM IntervalsSentCorrect == Spec /\ []Roomy => []IntervalsSent
<1>1. Summed => IntervalsSent
  <2> SUFFICES ASSUME Summed, NEW i \in DOMAIN Queue
               PROVE  Queue[i].nSent > 0 /\ (i < Len(Queue) => Queue[i].ended)
    BY DEF IntervalsSent
  <2>1. /\ Queue \in Seq(Counting(s.buf.una))
        /\ \A j \in 1..Len(Queue)-1 : Queue[j].ended
    BY DEF Summed, Queues, Queue
  <2>2. Queue[i] \in Counting(s.buf.una) /\ i \in 1..Len(Queue)
    BY <2>1
  <2>3. i < Len(Queue) => i \in 1..Len(Queue)-1
    BY <2>1, <2>2
  <2> QED
    BY <2>1, <2>2, <2>3 DEF Counting
<1> QED
  BY <1>1, SummedAlways, PTL

\* n_packets_accounted_for (MonitorInterval::OnPacketAcked, OnPacketLost) never passes
\* what the sequence numbers it was summed from allow: no sum of differences falls
\* below zero and wraps, whatever is sent again out of order.  Without ECN: with it a
\* loss is also reported during a wait, for a packet no interval has sent.
THEOREM AccountedCorrect ==
  ASSUME ~EcnEnabled
  PROVE  Spec /\ []Roomy => []AccountedBounded
<1>1. Summed => AccountedBounded
  <2> SUFFICES ASSUME Summed, NEW i \in DOMAIN Queue
               PROVE  Queue[i].nAcc <= Queue[i].nSent
                                       + (Queue[i].lastAcc - Min(Queue[i].pkts)) + 1
    BY DEF AccountedBounded
  <2> DEFINE mi == Queue[i]
  <2>1. Queue \in Seq(Counting(s.buf.una))
    BY DEF Summed, Queues, Queue
  <2>2. mi \in Counting(s.buf.una)
    BY <2>1
  <2> HIDE DEF mi
  <2>3. Sums(mi, s.buf.una) /\ mi.nAcc \in Int /\ mi.nSent \in Int /\ mi.lastAcc \in Int
    BY <2>2 DEF Counting, Intervals
  <2>4. PICK x \in mi.pkts : /\ x - 1 <= mi.lastAcc
                             /\ mi.nAcc <= mi.nSent + (mi.lastAcc - x) + 1
    BY <2>3 DEF Sums
  <2>5. mi.pkts \in SUBSET Nat /\ mi.pkts # {}
    BY <2>3, <2>4, SeqNoWithin DEF Sums
  <2>6. Min(mi.pkts) \in mi.pkts /\ Min(mi.pkts) <= x /\ x \in Nat
    BY <2>5, MinInSet
  <2>7. mi.nAcc <= mi.nSent + (mi.lastAcc - Min(mi.pkts)) + 1
    BY <2>3, <2>4, <2>5, <2>6
  <2> QED
    BY <2>7 DEF mi
<1> QED
  BY <1>1, SummedAlways, PTL

-----------------------------------------------------------------------------
\* Sums of sequences of integers.

\* Induction up to m, for a set.
LEMMA UpTo ==
  ASSUME NEW m \in Nat, NEW S, 0 \in S,
         \A n \in 0 .. (m - 1) : n \in S => n + 1 \in S
  PROVE  \A n \in 0 .. m : n \in S
<1> DEFINE T == {n \in 0 .. m : n \notin S}
<1> SUFFICES ASSUME T # {}
             PROVE  FALSE
  OBVIOUS
<1>1. PICK d \in T : \A e \in T : d <= e
  <2>1. T \in SUBSET Nat
    OBVIOUS
  <2> HIDE DEF T
  <2> QED
    BY <2>1, MinInSet
<1>2. d # 0 /\ d - 1 \in 0 .. (m - 1) /\ d - 1 + 1 = d
  OBVIOUS
<1>3. d - 1 \in S
  <2>1. d - 1 \notin T
    <3>1. ~(d <= d - 1)
      OBVIOUS
    <3> QED
      BY <1>1, <3>1
  <2> QED
    BY <1>2, <2>1
<1> QED
  BY <1>2, <1>3

\* f adds up w, element by element.
AddsUp(f, w) ==
  /\ f[0] = 0 /\ \A n \in 0 .. Len(w) : f[n] \in Int
  /\ \A n \in 1 .. Len(w) : f[n] = f[n - 1] + w[n]

\* The recursive function of Total exists.
LEMMA AddingExists ==
  ASSUME NEW w \in Seq(Int), NEW m \in 0 .. Len(w)
  PROVE  \E f : f = [n \in 0 .. m |-> IF n = 0 THEN 0 ELSE f[n - 1] + w[n]]
<1> DEFINE Sum(f, d) == f = [n \in 0 .. d |-> IF n = 0 THEN 0 ELSE f[n - 1] + w[n]]
           S == {d \in Nat : \E f : Sum(f, d)}
<1>1. 0 \in S
  <2>1. Sum([n \in 0 .. 0 |-> 0], 0)
    OBVIOUS
  <2> HIDE DEF Sum
  <2> QED
    BY <2>1
<1>2. ASSUME NEW d \in 0 .. (m - 1), d \in S
      PROVE  d + 1 \in S
  <2>1. PICK f : Sum(f, d)
    BY <1>2
  <2> DEFINE g == [n \in 0 .. (d + 1) |-> IF n = 0 THEN 0 ELSE f[n - 1] + w[n]]
  <2>2. \A n \in 0 .. d : g[n] = f[n]
    BY <2>1
  <2>3. g = [n \in 0 .. (d + 1) |-> IF n = 0 THEN 0 ELSE g[n - 1] + w[n]]
    <3>1. \A n \in 0 .. (d + 1) : n # 0 => n - 1 \in 0 .. d
      OBVIOUS
    <3>2. \A n \in 0 .. (d + 1) :
            g[n] = IF n = 0 THEN 0 ELSE g[n - 1] + w[n]
      BY <2>2, <3>1
    <3>3. g = [n \in 0 .. (d + 1) |-> g[n]]
      OBVIOUS
    <3> HIDE DEF g
    <3> QED
      BY <3>2, <3>3
  <2>4. Sum(g, d + 1)
    BY <2>3
  <2> HIDE DEF Sum, g
  <2> QED
    BY <2>4
<1>3. m \in Nat
  OBVIOUS
<1> HIDE DEF S
<1>4. \A n \in 0 .. m : n \in S
  BY <1>1, <1>2, <1>3, UpTo
<1>5. m \in S
  BY <1>3, <1>4
<1> QED
  BY <1>5 DEF S

\* Total adds up.
LEMMA TotalIs ==
  ASSUME NEW w \in Seq(Int)
  PROVE  \E f : AddsUp(f, w) /\ Total(w) = f[Len(w)]
<1> DEFINE f == CHOOSE f : f = [n \in 0 .. Len(w) |->
                                  IF n = 0 THEN 0 ELSE f[n - 1] + w[n]]
<1>1. Len(w) \in Nat /\ Len(w) \in 0 .. Len(w)
  OBVIOUS
<1>2. f = [n \in 0 .. Len(w) |-> IF n = 0 THEN 0 ELSE f[n - 1] + w[n]]
  BY <1>1, AddingExists
<1>3. Total(w) = f[Len(w)]
  BY DEF Total
<1> HIDE DEF f
<1>4. f[0] = 0 /\ \A n \in 1 .. Len(w) : f[n] = f[n - 1] + w[n]
  BY <1>1, <1>2
<1> DEFINE S == {n \in Nat : f[n] \in Int}
<1>5. \A n \in 0 .. (Len(w) - 1) : n \in S => n + 1 \in S
  <2> SUFFICES ASSUME NEW n \in 0 .. (Len(w) - 1), f[n] \in Int
               PROVE  f[n + 1] \in Int
    OBVIOUS
  <2>1. n + 1 \in 1 .. Len(w) /\ n + 1 - 1 = n /\ w[n + 1] \in Int
    OBVIOUS
  <2>2. f[n + 1] = f[n] + w[n + 1]
    BY <1>4, <2>1
  <2> QED
    BY <2>1, <2>2
<1>6. 0 \in S
  BY <1>4
<1>7. \A n \in 0 .. Len(w) : n \in S
  <2> HIDE DEF S
  <2> QED
    BY <1>1, <1>5, <1>6, UpTo
<1>8. AddsUp(f, w)
  BY <1>4, <1>7 DEF AddsUp
<1> QED
  BY <1>3, <1>8

\* The sum of nothing.
LEMMA TotalEmpty ==
  ASSUME NEW w \in Seq(Int), Len(w) = 0
  PROVE  Total(w) = 0
  BY TotalIs DEF AddsUp

\* It is a number.
LEMMA TotalType ==
  ASSUME NEW w \in Seq(Int)
  PROVE  Total(w) \in Int
<1>1. Len(w) \in 0 .. Len(w)
  OBVIOUS
<1> QED
  BY <1>1, TotalIs DEF AddsUp

\* One element more.
LEMMA TotalAppend ==
  ASSUME NEW v \in Seq(Int), NEW w \in Seq(Int), Len(w) = Len(v) + 1,
         \A i \in 1 .. Len(v) : w[i] = v[i]
  PROVE  Total(w) = Total(v) + w[Len(w)]
<1>1. PICK f : AddsUp(f, v) /\ Total(v) = f[Len(v)]
  BY TotalIs
<1>2. PICK g : AddsUp(g, w) /\ Total(w) = g[Len(w)]
  BY TotalIs
<1> DEFINE S == {n \in Nat : g[n] = f[n]}
<1>3. Len(v) \in Nat /\ Len(w) - 1 = Len(v) /\ Len(w) \in 1 .. Len(w)
  OBVIOUS
<1>4. 0 \in S
  BY <1>1, <1>2 DEF AddsUp
<1>5. \A n \in 0 .. (Len(v) - 1) : n \in S => n + 1 \in S
  <2> SUFFICES ASSUME NEW n \in 0 .. (Len(v) - 1), g[n] = f[n]
               PROVE  g[n + 1] = f[n + 1]
    OBVIOUS
  <2>1. n + 1 \in 1 .. Len(v) /\ n + 1 \in 1 .. Len(w) /\ n + 1 - 1 = n
    BY <1>3
  <2> QED
    BY <1>1, <1>2, <2>1 DEF AddsUp
<1>6. g[Len(v)] = f[Len(v)]
  <2>1. \A n \in 0 .. Len(v) : n \in S
    <3> HIDE DEF S
    <3> QED
      BY <1>3, <1>4, <1>5, UpTo
  <2> QED
    BY <1>3, <2>1
<1> QED
  BY <1>1, <1>2, <1>3, <1>6 DEF AddsUp

\* The sum of two parts.
LEMMA TotalConcat ==
  ASSUME NEW u \in Seq(Int), NEW v \in Seq(Int), NEW w \in Seq(Int),
         Len(u) = Len(v) + Len(w),
         \A i \in 1 .. Len(v) : u[i] = v[i],
         \A i \in 1 .. Len(w) : u[Len(v) + i] = w[i]
  PROVE  Total(u) = Total(v) + Total(w)
<1>1. PICK f : AddsUp(f, v) /\ Total(v) = f[Len(v)]
  BY TotalIs
<1>2. PICK g : AddsUp(g, w) /\ Total(w) = g[Len(w)]
  BY TotalIs
<1>3. PICK h : AddsUp(h, u) /\ Total(u) = h[Len(u)]
  BY TotalIs
<1>4. Len(v) \in Nat /\ Len(w) \in Nat /\ Len(u) \in Nat
  OBVIOUS
<1> DEFINE S == {n \in Nat : h[n] = f[n]}
           T == {n \in Nat : h[Len(v) + n] = f[Len(v)] + g[n]}
<1>5. h[Len(v)] = f[Len(v)]
  <2>1. 0 \in S
    BY <1>1, <1>3 DEF AddsUp
  <2>2. \A n \in 0 .. (Len(v) - 1) : n \in S => n + 1 \in S
    <3> SUFFICES ASSUME NEW n \in 0 .. (Len(v) - 1), h[n] = f[n]
                 PROVE  h[n + 1] = f[n + 1]
      OBVIOUS
    <3>1. n + 1 \in 1 .. Len(v) /\ n + 1 \in 1 .. Len(u) /\ n + 1 - 1 = n
      BY <1>4
    <3> QED
      BY <1>1, <1>3, <3>1 DEF AddsUp
  <2>3. \A n \in 0 .. Len(v) : n \in S
    <3> HIDE DEF S
    <3> QED
      BY <1>4, <2>1, <2>2, UpTo
  <2> QED
    BY <1>4, <2>3
<1>6. f[Len(v)] \in Int
  BY <1>1, <1>4 DEF AddsUp
<1>7. 0 \in T
  BY <1>2, <1>4, <1>5, <1>6 DEF AddsUp
<1>8. \A n \in 0 .. (Len(w) - 1) : n \in T => n + 1 \in T
  <2> SUFFICES ASSUME NEW n \in 0 .. (Len(w) - 1), h[Len(v) + n] = f[Len(v)] + g[n]
               PROVE  h[Len(v) + (n + 1)] = f[Len(v)] + g[n + 1]
    OBVIOUS
  <2>1. /\ n + 1 \in 1 .. Len(w) /\ n + 1 - 1 = n /\ n \in 0 .. Len(w)
        /\ Len(v) + (n + 1) \in 1 .. Len(u)
        /\ Len(v) + (n + 1) - 1 = Len(v) + n /\ w[n + 1] \in Int
    BY <1>4
  <2>2. h[Len(v) + (n + 1)] = h[Len(v) + n] + w[n + 1]
    <3> DEFINE m == Len(v) + (n + 1)
    <3>1. m \in 1 .. Len(u) /\ m - 1 = Len(v) + n /\ u[m] = w[n + 1]
      BY <2>1
    <3> HIDE DEF m
    <3>2. h[m] = h[m - 1] + u[m]
      BY <1>3, <3>1 DEF AddsUp
    <3> QED
      BY <3>1, <3>2 DEF m
  <2>3. g[n + 1] = g[n] + w[n + 1] /\ g[n] \in Int
    BY <1>2, <2>1 DEF AddsUp
  <2>4. \A x, y, z \in Int : (x + y) + z = x + (y + z)
    OBVIOUS
  <2>5. (f[Len(v)] + g[n]) + w[n + 1] = f[Len(v)] + (g[n] + w[n + 1])
    BY <1>6, <2>1, <2>3, <2>4, Zenon
  <2> QED
    BY <2>2, <2>3, <2>5
<1>9. h[Len(v) + Len(w)] = f[Len(v)] + g[Len(w)]
  <2>1. \A n \in 0 .. Len(w) : n \in T
    <3> HIDE DEF T
    <3> QED
      BY <1>4, <1>7, <1>8, UpTo
  <2> QED
    BY <1>4, <2>1
<1> QED
  BY <1>1, <1>2, <1>3, <1>9

\* Sums are ordered as their elements are; at one place there may be z more.
LEMMA TotalOrdered ==
  ASSUME NEW v \in Seq(Int), NEW w \in Seq(Int), Len(v) = Len(w),
         NEW k \in Nat, NEW z \in Nat,
         \A i \in 1 .. Len(w) : v[i] <= w[i] + (IF i = k THEN z ELSE 0)
  PROVE  Total(v) <= Total(w) + z
<1>1. PICK f : AddsUp(f, v) /\ Total(v) = f[Len(v)]
  BY TotalIs
<1>2. PICK g : AddsUp(g, w) /\ Total(w) = g[Len(w)]
  BY TotalIs
<1>3. Len(w) \in Nat
  OBVIOUS
<1> DEFINE S == {n \in Nat : f[n] <= g[n] + (IF 0 < k /\ k <= n THEN z ELSE 0)}
<1>4. 0 \in S
  <2>1. f[0] = 0 /\ g[0] = 0
    BY <1>1, <1>2 DEF AddsUp
  <2> QED
    BY <2>1
<1>5. \A n \in 0 .. (Len(w) - 1) : n \in S => n + 1 \in S
  <2> SUFFICES ASSUME NEW n \in 0 .. (Len(w) - 1),
                      f[n] <= g[n] + (IF 0 < k /\ k <= n THEN z ELSE 0)
               PROVE  f[n + 1] <= g[n + 1] + (IF 0 < k /\ k <= n + 1 THEN z ELSE 0)
    OBVIOUS
  <2>1. /\ n + 1 \in 1 .. Len(w) /\ n + 1 - 1 = n /\ n \in 0 .. Len(w)
        /\ n + 1 \in 1 .. Len(v) /\ n \in 0 .. Len(v)
        /\ v[n + 1] \in Int /\ w[n + 1] \in Int
    BY <1>3
  <2>2. /\ f[n + 1] = f[n] + v[n + 1] /\ g[n + 1] = g[n] + w[n + 1]
        /\ f[n] \in Int /\ g[n] \in Int
    BY <1>1, <1>2, <2>1 DEF AddsUp
  <2>3. v[n + 1] <= w[n + 1] + (IF n + 1 = k THEN z ELSE 0)
    BY <2>1
  <2>4. \A a, b, c, d, x, y \in Int : a <= b + x /\ c <= d + y => a + c <= (b + d) + (x + y)
    OBVIOUS
  <2> DEFINE x == IF 0 < k /\ k <= n THEN z ELSE 0
             y == IF n + 1 = k THEN z ELSE 0
  <2>5. x \in Int /\ y \in Int
        /\ x + y = (IF 0 < k /\ k <= n + 1 THEN z ELSE 0)
    OBVIOUS
  <2>6. f[n] <= g[n] + x /\ v[n + 1] <= w[n + 1] + y
    BY <2>3
  <2> HIDE DEF x, y
  <2>7. f[n] + v[n + 1] <= (g[n] + w[n + 1]) + (x + y)
    BY <2>1, <2>2, <2>4, <2>5, <2>6, Zenon
  <2> QED
    BY <2>2, <2>5, <2>7
<1>6. f[Len(w)] <= g[Len(w)] + (IF 0 < k /\ k <= Len(w) THEN z ELSE 0)
  <2>1. \A n \in 0 .. Len(w) : n \in S
    <3> HIDE DEF S
    <3> QED
      BY <1>3, <1>4, <1>5, UpTo
  <2> QED
    BY <1>3, <2>1
<1>7. g[Len(w)] \in Int /\ f[Len(w)] \in Int
  BY <1>1, <1>2, <1>3 DEF AddsUp
<1> QED
  BY <1>1, <1>2, <1>6, <1>7

-----------------------------------------------------------------------------
\* What the rate controller hears.

\* A rate controller whose episode is over with its last decision.
Episode(r) == r \in RateControllers /\ (r.over <=> r.steps = MaxSteps)

\* One call.
LEMMA HearIs ==
  ASSUME NEW r, Episode(r)
  PROVE  /\ Episode(Hear(r, Asked))
         /\ ~r.over => /\ Hear(r, Asked).steps = r.steps + 1
                       /\ Hear(r, Asked).finished = r.finished
         /\ Hear(r, Asked).credited = r.credited
         /\ r.over => Hear(r, Asked).over
         /\ \A mi \in Intervals :
              LET u == Hear(r, Reported(mi))
              IN  /\ Episode(u) /\ u.over = r.over /\ u.steps = r.steps
                  /\ ~r.over => u.finished = r.finished + 1
                  /\ u.credited <= r.credited + mi.bytesAcked
<1>1. /\ r \in RateControllers /\ r.steps \in 0..MaxSteps /\ r.finished \in Nat
      /\ r.credited \in Nat /\ r.over \in BOOLEAN /\ (r.over <=> r.steps = MaxSteps)
      /\ r.window \in [1..History -> Latencies]
  BY DEF Episode, RateControllers
<1>2. /\ Episode(Hear(r, Asked))
      /\ ~r.over => /\ Hear(r, Asked).steps = r.steps + 1
                    /\ Hear(r, Asked).finished = r.finished
      /\ Hear(r, Asked).credited = r.credited
      /\ r.over => Hear(r, Asked).over
  <2>1. CASE r.over
    BY <1>1, <2>1 DEF Hear, Episode
  <2>2. CASE ~r.over
    <3>1. Hear(r, Asked) = [r EXCEPT !.steps = r.steps + 1, !.over = r.steps + 1 >= MaxSteps]
      BY <2>2 DEF Hear, Notify
    <3>2. /\ r.steps + 1 \in 0..MaxSteps
          /\ r.steps + 1 >= MaxSteps <=> r.steps + 1 = MaxSteps
      BY <1>1, <2>2, RateControllerAssumption
    <3> DEFINE u == Hear(r, Asked)
               steps == r.steps + 1
               over == steps >= MaxSteps
    <3>3. u = [r EXCEPT !.steps = steps, !.over = over]
      BY <3>1
    <3>4. /\ over \in BOOLEAN /\ (over <=> steps = MaxSteps) /\ steps \in 0..MaxSteps
          /\ steps = r.steps + 1
      BY <3>2
    <3> HIDE DEF u, steps, over
    <3>5. /\ u.steps = steps /\ u.over = over
          /\ u.finished = r.finished /\ u.credited = r.credited
      BY <1>1, <3>3 DEF RateControllers
    <3>6. u \in RateControllers
      BY <1>1, <3>3, <3>4 DEF RateControllers
    <3>7. Episode(u)
      BY <3>4, <3>5, <3>6 DEF Episode
    <3> QED
      BY <2>2, <3>4, <3>5, <3>7 DEF u
  <2> QED
    BY <1>1, <2>1, <2>2
<1>3. ASSUME NEW mi \in Intervals
      PROVE  LET u == Hear(r, Reported(mi))
             IN  /\ Episode(u) /\ u.over = r.over /\ u.steps = r.steps
                 /\ ~r.over => u.finished = r.finished + 1
                 /\ u.credited <= r.credited + mi.bytesAcked
  <2>1. mi.bytesAcked \in Nat /\ mi.sampled \in BOOLEAN
    BY DEF Intervals
  <2>2. CASE r.over
    <3>1. Hear(r, Reported(mi)) = r
      BY <2>2 DEF Hear
    <3>2. r.credited <= r.credited + mi.bytesAcked
      BY <1>1, <2>1
    <3> QED
      BY <2>2, <3>1, <3>2
  <2>3. CASE ~r.over
    <3>1. Reported(mi).mi = mi /\ Reported(mi) # Asked
      BY DEF Reported, Asked
    <3>2. Hear(r, Reported(mi)) = MonitorIntervalFinished(r, mi)
      BY <2>3, <3>1 DEF Hear
    <3> DEFINE known == r.minKnown \/ mi.sampled
               window == AddState(r.window, LatencyRatio(mi, known))
    <3>3. window \in [1..History -> Latencies]
      <4>1. LatencyRatio(mi, known) \in Latencies
        BY DEF LatencyRatio, Latencies
      <4>2. /\ r.window \in Seq(Latencies) /\ Len(r.window) = History /\ History \in Nat
            /\ r.window # <<>>
        BY <1>1, RateControllerAssumption
      <4>3. Tail(r.window) \in Seq(Latencies) /\ Len(Tail(r.window)) = History - 1
        BY <4>2
      <4> HIDE DEF known
      <4>4. window \in Seq(Latencies) /\ Len(window) = History
        BY <4>1, <4>2, <4>3 DEF AddState
      <4> HIDE DEF window
      <4> QED
        BY <4>4
    <3>4. RecvRate(mi) \in Throughputs
      BY DEF RecvRate, Throughputs
    <3>5. known \in BOOLEAN
      BY <1>1, <2>1 DEF RateControllers
    <3>6. MonitorIntervalFinished(r, mi) =
            [r EXCEPT !.window = window, !.reward = RecvRate(mi), !.minKnown = known,
                      !.finished = r.finished + 1,
                      !.credited = r.credited + mi.bytesAcked]
      BY <1>1 DEF MonitorIntervalFinished
    <3> HIDE DEF window, known
    <3>7. r.finished + 1 \in Nat /\ r.credited + mi.bytesAcked \in Nat
      BY <1>1, <2>1
    <3> DEFINE u == Hear(r, Reported(mi))
               reward == RecvRate(mi)
               finished == r.finished + 1
               credited == r.credited + mi.bytesAcked
    <3>8. u = [r EXCEPT !.window = window, !.reward = reward, !.minKnown = known,
                        !.finished = finished, !.credited = credited]
      BY <3>2, <3>6
    <3>9. /\ reward \in Throughputs /\ finished \in Nat /\ credited \in Nat
          /\ credited <= credited
      BY <3>4, <3>7
    <3> HIDE DEF u, reward, finished, credited
    <3>10. /\ u.steps = r.steps /\ u.over = r.over
           /\ u.finished = finished /\ u.credited = credited
      BY <1>1, <3>8 DEF RateControllers
    <3>11. u \in RateControllers
      BY <1>1, <3>3, <3>5, <3>8, <3>9 DEF RateControllers
    <3>12. Episode(u)
      BY <1>1, <3>10, <3>11 DEF Episode
    <3> QED
      BY <3>9, <3>10, <3>12 DEF u, finished, credited
  <2> QED
    BY <1>1, <2>2, <2>3
<1> QED
  BY <1>2, <1>3

\* f follows the calls, one by one.
Hears(f, r, calls) ==
  f[0] = r /\ \A n \in 1 .. Len(calls) : f[n] = Hear(f[n - 1], calls[n])

\* The recursive function of HearAll exists.
LEMMA HearingExists ==
  ASSUME NEW r, NEW calls \in Seq(Calls), NEW m \in 0 .. Len(calls)
  PROVE  \E f : f = [n \in 0 .. m |-> IF n = 0 THEN r ELSE Hear(f[n - 1], calls[n])]
<1> DEFINE Is(f, d) == f = [n \in 0 .. d |-> IF n = 0 THEN r
                                             ELSE Hear(f[n - 1], calls[n])]
           S == {d \in Nat : \E f : Is(f, d)}
<1>1. 0 \in S
  <2>1. Is([n \in 0 .. 0 |-> r], 0)
    OBVIOUS
  <2> HIDE DEF Is
  <2> QED
    BY <2>1
<1>2. ASSUME NEW d \in 0 .. (m - 1), d \in S
      PROVE  d + 1 \in S
  <2>1. PICK f : Is(f, d)
    BY <1>2
  <2> DEFINE g == [n \in 0 .. (d + 1) |-> IF n = 0 THEN r ELSE Hear(f[n - 1], calls[n])]
  <2>2. \A n \in 0 .. d : g[n] = f[n]
    BY <2>1
  <2>3. g = [n \in 0 .. (d + 1) |-> IF n = 0 THEN r ELSE Hear(g[n - 1], calls[n])]
    <3>1. \A n \in 0 .. (d + 1) : n # 0 => n - 1 \in 0 .. d
      OBVIOUS
    <3>2. \A n \in 0 .. (d + 1) :
            g[n] = IF n = 0 THEN r ELSE Hear(g[n - 1], calls[n])
      BY <2>2, <3>1
    <3>3. g = [n \in 0 .. (d + 1) |-> g[n]]
      OBVIOUS
    <3> HIDE DEF g
    <3> QED
      BY <3>2, <3>3
  <2>4. Is(g, d + 1)
    BY <2>3
  <2> HIDE DEF Is, g
  <2> QED
    BY <2>4
<1>3. m \in Nat
  OBVIOUS
<1> HIDE DEF S
<1>4. \A n \in 0 .. m : n \in S
  BY <1>1, <1>2, <1>3, UpTo
<1>5. m \in S
  BY <1>3, <1>4
<1> QED
  BY <1>5 DEF S

\* HearAll follows them.
LEMMA HearAllIs ==
  ASSUME NEW r, NEW calls \in Seq(Calls)
  PROVE  \E f : Hears(f, r, calls) /\ HearAll(r, calls) = f[Len(calls)]
<1> DEFINE f == CHOOSE f : f = [n \in 0 .. Len(calls) |->
                                  IF n = 0 THEN r ELSE Hear(f[n - 1], calls[n])]
<1>1. Len(calls) \in Nat /\ Len(calls) \in 0 .. Len(calls)
  OBVIOUS
<1>2. f = [n \in 0 .. Len(calls) |-> IF n = 0 THEN r ELSE Hear(f[n - 1], calls[n])]
  BY <1>1, HearingExists
<1>3. HearAll(r, calls) = f[Len(calls)]
  BY DEF HearAll
<1> HIDE DEF f
<1>4. Hears(f, r, calls)
  BY <1>1, <1>2 DEF Hears
<1> QED
  BY <1>3, <1>4

\* No call, and one.
LEMMA HearAllSmall ==
  ASSUME NEW r
  PROVE  /\ HearAll(r, <<>>) = r
         /\ \A c \in Calls : HearAll(r, <<c>>) = Hear(r, c)
<1>1. HearAll(r, <<>>) = r
  <2>1. <<>> \in Seq(Calls) /\ Len(<<>>) = 0
    OBVIOUS
  <2>2. PICK f : Hears(f, r, <<>>) /\ HearAll(r, <<>>) = f[Len(<<>>)]
    BY <2>1, HearAllIs
  <2> QED
    BY <2>1, <2>2 DEF Hears
<1>2. ASSUME NEW c \in Calls
      PROVE  HearAll(r, <<c>>) = Hear(r, c)
  <2> DEFINE w == <<c>>
  <2>1. w \in Seq(Calls) /\ Len(w) = 1 /\ w[1] = c
    OBVIOUS
  <2> HIDE DEF w
  <2>2. PICK f : Hears(f, r, w) /\ HearAll(r, w) = f[Len(w)]
    BY <2>1, HearAllIs
  <2>3. f[1] = Hear(f[1 - 1], w[1]) /\ f[0] = r
    BY <2>1, <2>2 DEF Hears
  <2>4. 1 - 1 = 0
    OBVIOUS
  <2> QED
    BY <2>1, <2>2, <2>3, <2>4 DEF w
<1> QED
  BY <1>1, <1>2

\* First some calls, then some more.
LEMMA HearAllConcat ==
  ASSUME NEW r, NEW c \in Seq(Calls), NEW d \in Seq(Calls)
  PROVE  HearAll(r, c \o d) = HearAll(HearAll(r, c), d)
<1> DEFINE e == c \o d
<1>1. /\ e \in Seq(Calls) /\ Len(e) = Len(c) + Len(d) /\ Len(c) \in Nat /\ Len(d) \in Nat
      /\ \A i \in 1 .. Len(c) : e[i] = c[i]
      /\ \A i \in 1 .. Len(d) : e[Len(c) + i] = d[i]
  OBVIOUS
<1> HIDE DEF e
<1>2. PICK f : Hears(f, r, c) /\ HearAll(r, c) = f[Len(c)]
  BY HearAllIs
<1>3. PICK g : Hears(g, f[Len(c)], d) /\ HearAll(f[Len(c)], d) = g[Len(d)]
  BY HearAllIs
<1>4. PICK h : Hears(h, r, e) /\ HearAll(r, e) = h[Len(e)]
  BY <1>1, HearAllIs
<1> DEFINE S == {n \in Nat : h[n] = f[n]}
           T == {n \in Nat : h[Len(c) + n] = g[n]}
<1>5. h[Len(c)] = f[Len(c)]
  <2>1. 0 \in S
    BY <1>2, <1>4 DEF Hears
  <2>2. \A n \in 0 .. (Len(c) - 1) : n \in S => n + 1 \in S
    <3> SUFFICES ASSUME NEW n \in 0 .. (Len(c) - 1), h[n] = f[n]
                 PROVE  h[n + 1] = f[n + 1]
      OBVIOUS
    <3>1. n + 1 \in 1 .. Len(c) /\ n + 1 \in 1 .. Len(e) /\ n + 1 - 1 = n
      BY <1>1
    <3>2. e[n + 1] = c[n + 1]
      BY <1>1, <3>1
    <3> QED
      BY <1>2, <1>4, <3>1, <3>2 DEF Hears
  <2>3. \A n \in 0 .. Len(c) : n \in S
    <3> HIDE DEF S
    <3> QED
      BY <1>1, <2>1, <2>2, UpTo
  <2> QED
    BY <1>1, <2>3
<1>6. 0 \in T
  BY <1>1, <1>3, <1>5 DEF Hears
<1>7. \A n \in 0 .. (Len(d) - 1) : n \in T => n + 1 \in T
  <2> SUFFICES ASSUME NEW n \in 0 .. (Len(d) - 1), h[Len(c) + n] = g[n]
               PROVE  h[Len(c) + (n + 1)] = g[n + 1]
    OBVIOUS
  <2>1. n + 1 \in 1 .. Len(d) /\ n + 1 - 1 = n
    BY <1>1
  <2>2. g[n + 1] = Hear(g[n], d[n + 1])
    BY <1>3, <2>1 DEF Hears
  <2> DEFINE m == Len(c) + (n + 1)
  <2>3. m \in 1 .. Len(e) /\ m - 1 = Len(c) + n /\ e[m] = d[n + 1]
    BY <1>1, <2>1
  <2> HIDE DEF m
  <2>4. h[m] = Hear(h[m - 1], e[m])
    BY <1>4, <2>3 DEF Hears
  <2> QED
    BY <2>2, <2>3, <2>4 DEF m
<1>8. h[Len(c) + Len(d)] = g[Len(d)]
  <2>1. \A n \in 0 .. Len(d) : n \in T
    <3> HIDE DEF T
    <3> QED
      BY <1>1, <1>6, <1>7, UpTo
  <2> QED
    BY <1>1, <2>1
<1> QED
  BY <1>1, <1>2, <1>3, <1>4, <1>8 DEF e

\* What the intervals of a queue have been credited with is a sequence of numbers.
Credits(q) == [i \in DOMAIN q |-> q[i].bytesAcked]

\* It is one.
LEMMA CreditsType ==
  ASSUME NEW q \in Seq(Intervals)
  PROVE  /\ Credits(q) \in Seq(Int) /\ Len(Credits(q)) = Len(q) /\ Len(q) \in Nat
         /\ Credited(q) = Total(Credits(q)) /\ Credited(q) \in Int
         /\ \A i \in 1..Len(q) : /\ q[i] \in Intervals /\ Credits(q)[i] = q[i].bytesAcked
                               /\ q[i].bytesAcked \in Nat
<1> DEFINE w == Credits(q)
<1>1. \A i \in 1..Len(q) : q[i] \in Intervals /\ q[i].bytesAcked \in Nat
  <2>1. \A mi \in Intervals : mi.bytesAcked \in Nat
    BY DEF Intervals
  <2>2. \A i \in 1..Len(q) : q[i] \in Intervals
    OBVIOUS
  <2> QED
    BY <2>1, <2>2
<1>2. DOMAIN q = 1..Len(q) /\ Len(q) \in Nat
  OBVIOUS
<1>3. w \in Seq(Int) /\ Len(w) = Len(q) /\ Credited(q) = Total(w)
      /\ \A i \in 1..Len(q) : w[i] = q[i].bytesAcked
  BY <1>1, <1>2 DEF Credits, Credited
<1> HIDE DEF w
<1>4. Total(w) \in Int
  BY <1>3, TotalType
<1> QED
  BY <1>1, <1>2, <1>3, <1>4 DEF w

\* A queue is reported.
LEMMA HearReports ==
  ASSUME NEW r, Episode(r), NEW q \in Seq(Intervals)
  PROVE  LET u == HearAll(r, [i \in 1..Len(q) |-> Reported(q[i])])
         IN  /\ Episode(u) /\ u.over = r.over /\ u.steps = r.steps
             /\ ~r.over => u.finished = r.finished + Len(q)
             /\ u.credited <= r.credited + Credited(q)
<1> DEFINE c == [i \in 1..Len(q) |-> Reported(q[i])]
           w == Credits(q)
<1>1. /\ Len(q) \in Nat /\ c \in Seq(Calls) /\ Len(c) = Len(q)
      /\ \A i \in 1..Len(q) : c[i] = Reported(q[i])
  <2>1. \A i \in 1..Len(q) : Reported(q[i]) \in Calls
    BY DEF Reported, Calls
  <2> QED
    BY <2>1
<1>2. /\ w \in Seq(Int) /\ Len(w) = Len(q) /\ Credited(q) = Total(w)
      /\ \A i \in 1..Len(q) : q[i] \in Intervals /\ w[i] = q[i].bytesAcked /\ w[i] \in Nat
  BY CreditsType
<1> HIDE DEF c, w
<1>3. PICK f : Hears(f, r, c) /\ HearAll(r, c) = f[Len(c)]
  BY <1>1, HearAllIs
<1>4. PICK g : AddsUp(g, w) /\ Total(w) = g[Len(w)]
  BY <1>2, TotalIs
<1>5. r.finished \in Nat /\ r.credited \in Nat
  BY DEF Episode, RateControllers
<1> DEFINE Good(n) == /\ Episode(f[n]) /\ f[n].over = r.over /\ f[n].steps = r.steps
                      /\ ~r.over => f[n].finished = r.finished + n
                      /\ f[n].credited <= r.credited + g[n]
           S == {n \in Nat : Good(n)}
<1>6. 0 \in S
  <2>1. f[0] = r /\ g[0] = 0
    BY <1>3, <1>4 DEF Hears, AddsUp
  <2> QED
    BY <1>5, <2>1
<1>7. \A n \in 0 .. (Len(q) - 1) : n \in S => n + 1 \in S
  <2> SUFFICES ASSUME NEW n \in 0 .. (Len(q) - 1), Good(n)
               PROVE  Good(n + 1)
    OBVIOUS
  <2>1. /\ n + 1 \in 1 .. Len(q) /\ n + 1 - 1 = n /\ n \in 0 .. Len(q) /\ n \in Nat
    BY <1>1
  <2>2. f[n + 1] = Hear(f[n], Reported(q[n + 1]))
    BY <1>1, <1>3, <2>1 DEF Hears
  <2>3. /\ g[n + 1] = g[n] + q[n + 1].bytesAcked /\ g[n] \in Int
        /\ q[n + 1].bytesAcked \in Nat /\ q[n + 1] \in Intervals
    BY <1>2, <1>4, <2>1 DEF AddsUp
  <2>4. /\ Episode(f[n + 1]) /\ f[n + 1].over = f[n].over /\ f[n + 1].steps = f[n].steps
        /\ ~f[n].over => f[n + 1].finished = f[n].finished + 1
        /\ f[n + 1].credited <= f[n].credited + q[n + 1].bytesAcked
    BY <2>2, <2>3, HearIs
  <2>5. f[n].credited \in Nat /\ f[n + 1].credited \in Nat
    BY <2>4 DEF Episode, RateControllers
  <2>6. \A a, b, d, x, y \in Int : a <= b + x /\ b <= d + y => a <= d + (y + x)
    OBVIOUS
  <2>7. f[n + 1].credited <= r.credited + g[n + 1]
    <3> DEFINE a == f[n + 1].credited
               b == f[n].credited
               d == r.credited
               x == q[n + 1].bytesAcked
               y == g[n]
    <3>1. /\ a \in Int /\ b \in Int /\ d \in Int /\ x \in Int /\ y \in Int
          /\ a <= b + x /\ b <= d + y
      BY <1>5, <2>3, <2>4, <2>5
    <3> HIDE DEF a, b, d, x, y
    <3>2. a <= d + (y + x)
      BY <2>6, <3>1
    <3> QED
      BY <2>3, <3>2 DEF a, b, d, x, y
  <2> QED
    BY <1>5, <2>1, <2>4, <2>7
<1>8. Good(Len(q))
  <2>1. \A n \in 0 .. Len(q) : n \in S
    <3> HIDE DEF S
    <3> QED
      BY <1>1, <1>6, <1>7, UpTo
  <2>2. Len(q) \in S
    BY <1>1, <2>1
  <2> QED
    BY <2>2
<1> QED
  BY <1>1, <1>2, <1>3, <1>4, <1>8 DEF c

\* Queues with the same credits.
LEMMA SameCredits ==
  ASSUME NEW p \in Seq(Intervals), NEW q \in Seq(Intervals), Len(p) = Len(q),
         \A i \in 1..Len(q) : p[i].bytesAcked = q[i].bytesAcked
  PROVE  Credited(p) = Credited(q)
<1>1. DOMAIN p = 1..Len(q) /\ DOMAIN q = 1..Len(q)
  OBVIOUS
<1>2. [i \in DOMAIN p |-> p[i].bytesAcked] = [i \in DOMAIN q |-> q[i].bytesAcked]
  BY <1>1
<1> QED
  BY <1>2 DEF Credited

\* A queue has one interval more.
LEMMA OneMoreCredit ==
  ASSUME NEW p \in Seq(Intervals), NEW q \in Seq(Intervals), Len(q) = Len(p) + 1,
         \A i \in 1..Len(p) : q[i].bytesAcked = p[i].bytesAcked
  PROVE  Credited(q) = Credited(p) + q[Len(q)].bytesAcked
<1>1. Len(p) \in Nat /\ Len(q) \in 1..Len(q) /\ \A i \in 1..Len(p) : i \in 1..Len(q)
  OBVIOUS
<1>2. /\ Credits(p) \in Seq(Int) /\ Credits(q) \in Seq(Int)
      /\ Len(Credits(q)) = Len(Credits(p)) + 1
      /\ Len(Credits(p)) = Len(p) /\ Len(Credits(q)) = Len(q)
      /\ \A i \in 1..Len(Credits(p)) : Credits(q)[i] = Credits(p)[i]
      /\ Credits(q)[Len(q)] = q[Len(q)].bytesAcked
      /\ Credited(p) = Total(Credits(p)) /\ Credited(q) = Total(Credits(q))
  BY <1>1, CreditsType
<1> QED
  BY <1>2, TotalAppend

\* The credits of a queue are those of its two parts.
LEMMA SplitCredits ==
  ASSUME NEW q \in Seq(Intervals), NEW n \in 0..Len(q)
  PROVE  /\ SubSeq(q, 1, n) \in Seq(Intervals) /\ Len(SubSeq(q, 1, n)) = n
         /\ \A i \in 1..n : SubSeq(q, 1, n)[i] = q[i]
         /\ SubSeq(q, n + 1, Len(q)) \in Seq(Intervals)
         /\ Len(SubSeq(q, n + 1, Len(q))) = Len(q) - n
         /\ \A i \in 1..Len(q)-n : SubSeq(q, n + 1, Len(q))[i] = q[n + i]
         /\ Credited(q) = Credited(SubSeq(q, 1, n)) + Credited(SubSeq(q, n + 1, Len(q)))
<1> DEFINE a == SubSeq(q, 1, n)
           b == SubSeq(q, n + 1, Len(q))
<1>1. /\ a \in Seq(Intervals) /\ Len(a) = n /\ \A i \in 1..n : a[i] = q[i]
      /\ b \in Seq(Intervals) /\ Len(b) = Len(q) - n /\ Len(q) \in Nat
      /\ \A i \in 1..Len(q)-n : b[i] = q[n + i]
  OBVIOUS
<1> HIDE DEF a, b
<1>2. /\ Credits(q) \in Seq(Int) /\ Credits(a) \in Seq(Int) /\ Credits(b) \in Seq(Int)
      /\ Len(Credits(q)) = Len(q) /\ Len(Credits(a)) = n /\ Len(Credits(b)) = Len(q) - n
      /\ Credited(q) = Total(Credits(q)) /\ Credited(a) = Total(Credits(a))
      /\ Credited(b) = Total(Credits(b))
  BY <1>1, CreditsType
<1> DEFINE v == Credits(q)
           x == Credits(a)
           y == Credits(b)
<1>3. /\ \A i \in 1..Len(q) : v[i] = q[i].bytesAcked
      /\ \A i \in 1..n : x[i] = a[i].bytesAcked
      /\ \A i \in 1..Len(q)-n : y[i] = b[i].bytesAcked
  BY <1>1, CreditsType
<1> HIDE DEF v, x, y
<1>4. /\ \A i \in 1..Len(x) : v[i] = x[i]
      /\ \A i \in 1..Len(y) : v[Len(x) + i] = y[i]
  <2>1. \A i \in 1..n : i \in 1..Len(q)
    BY <1>1
  <2>2. \A i \in 1..Len(q)-n : n + i \in 1..Len(q)
    BY <1>1
  <2>3. Len(x) = n /\ Len(y) = Len(q) - n
    BY <1>2 DEF x, y
  <2> QED
    BY <1>1, <1>3, <2>1, <2>2, <2>3
<1>5. Total(v) = Total(x) + Total(y)
  <2>1. v \in Seq(Int) /\ x \in Seq(Int) /\ y \in Seq(Int) /\ Len(v) = Len(x) + Len(y)
    BY <1>1, <1>2 DEF v, x, y
  <2> QED
    BY <1>4, <2>1, TotalConcat
<1> QED
  BY <1>1, <1>2, <1>5 DEF a, b, v, x, y

\* What the rate controller is after the calls of a congestion control, when it was
\* r before; each of its decisions but those reported has an interval in the queue.
Told(r, c) == HearAll(r, c.calls)

Balanced(r, c) ==
  /\ Episode(Told(r, c))
  /\ ~Told(r, c).over => Told(r, c).steps = Told(r, c).finished + Len(c.queue)

\* What all intervals were credited with, reported or not.
Credit(r, c) == Told(r, c).credited + Credited(c.queue)

\* Nothing but the queue's intervals changes.
LEMMA MappedTold ==
  ASSUME NEW r, NEW c \in CongestionControls, NEW d \in CongestionControls,
         Balanced(r, c), d.calls = c.calls, Len(d.queue) = Len(c.queue)
  PROVE  /\ Balanced(r, d)
         /\ (\A i \in 1..Len(c.queue) : d.queue[i].bytesAcked = c.queue[i].bytesAcked)
              => Credit(r, d) = Credit(r, c)
<1>1. Told(r, d) = Told(r, c)
  BY DEF Told
<1>2. c.queue \in Seq(Intervals) /\ d.queue \in Seq(Intervals)
  BY DEF CongestionControls
<1> QED
  BY <1>1, <1>2, SameCredits DEF Balanced, Credit

\* CheckMonitoringInterval reports what it pops.
LEMMA CheckTold ==
  ASSUME NEW r, NEW c \in CongestionControls, Balanced(r, c)
  PROVE  LET d == CheckMonitoringInterval(c)
         IN  /\ d \in CongestionControls
             /\ Balanced(r, d) /\ Credit(r, d) <= Credit(r, c)
             /\ \E n \in 0..Len(c.queue) :
                  /\ Len(d.queue) = Len(c.queue) - n
                  /\ \A i \in 1..Len(d.queue) : d.queue[i] = c.queue[n + i]
<1> DEFINE q == c.queue
           n == FinishedPrefix(q)
           a == SubSeq(q, 1, n)
           b == SubSeq(q, n + 1, Len(q))
           x == [i \in 1..Len(a) |-> Reported(a[i])]
           d == CheckMonitoringInterval(c)
           u == Told(r, c)
           w == Told(r, d)
<1>1. q \in Seq(Intervals) /\ c.calls \in Seq(Calls) /\ n \in 0..Len(q) /\ Len(q) \in Nat
  BY FinishedPrefixExists DEF CongestionControls
<1>2. d \in CongestionControls
  BY CheckMonitoringIntervalType
<1>3. /\ d.queue = b /\ d.calls = c.calls \o [i \in 1..n |-> Reported(q[i])]
  BY DEF CheckMonitoringInterval, CongestionControls, Pending
<1> HIDE DEF n, d
<1>4. /\ a \in Seq(Intervals) /\ Len(a) = n /\ \A i \in 1..n : a[i] = q[i]
      /\ b \in Seq(Intervals) /\ Len(b) = Len(q) - n
      /\ \A i \in 1..Len(q)-n : b[i] = q[n + i]
      /\ Credited(q) = Credited(a) + Credited(b)
  BY <1>1, SplitCredits
<1> HIDE DEF a, b
<1>5. x = [i \in 1..n |-> Reported(q[i])]
  BY <1>4
<1>6. x \in Seq(Calls)
  <2>1. \A i \in 1..Len(a) : Reported(a[i]) \in Calls
    <3>1. \A i \in 1..Len(a) : a[i] \in Intervals
      BY <1>4
    <3> QED
      BY <3>1 DEF Reported, Calls
  <2> QED
    BY <1>1, <1>4, <2>1
<1>7. w = HearAll(u, x)
  <2>1. d.calls = c.calls \o x
    BY <1>3, <1>5
  <2> HIDE DEF x
  <2>2. HearAll(r, c.calls \o x) = HearAll(HearAll(r, c.calls), x)
    BY <1>1, <1>6, HearAllConcat
  <2> QED
    BY <2>1, <2>2 DEF Told
<1>8. Episode(u)
  BY DEF Balanced
<1>9. /\ Episode(w) /\ w.over = u.over /\ w.steps = u.steps
      /\ ~u.over => w.finished = u.finished + Len(a)
      /\ w.credited <= u.credited + Credited(a)
  <2> HIDE DEF u, w
  <2> QED
    BY <1>4, <1>7, <1>8, HearReports
<1>10. /\ u.credited \in Int /\ w.credited \in Int /\ u.finished \in Int
       /\ Credited(a) \in Int /\ Credited(b) \in Int
  BY <1>4, <1>8, <1>9, CreditsType DEF Episode, RateControllers
<1>11. Balanced(r, d)
  <2>1. ASSUME ~w.over
        PROVE  w.steps = w.finished + Len(d.queue)
    <3>1. u.steps = u.finished + Len(q)
      BY <1>9, <2>1 DEF Balanced
    <3> HIDE DEF u, w
    <3> QED
      BY <1>1, <1>3, <1>4, <1>9, <1>10, <2>1, <3>1
  <2> QED
    BY <1>9, <2>1 DEF Balanced
<1>12. Credit(r, d) <= Credit(r, c)
  <2>1. Credit(r, d) = w.credited + Credited(b) /\ Credit(r, c) = u.credited + Credited(q)
    BY <1>3 DEF Credit
  <2> HIDE DEF u, w
  <2> QED
    BY <1>4, <1>9, <1>10, <2>1
<1> QED
  BY <1>1, <1>2, <1>3, <1>4, <1>11, <1>12 DEF d

-----------------------------------------------------------------------------
\* Credits, interval by interval.

\* A counter that wraps is below its sum.
LEMMA U32Below == \A x \in Nat : U32(x) \in Nat /\ U32(x) <= x
<1> SUFFICES ASSUME NEW x \in Nat
             PROVE  U32(x) \in Nat /\ U32(x) <= x
  OBVIOUS
<1>1. CASE x < UintMod
  BY <1>1, Unwrapped
<1>2. CASE ~(x < UintMod)
  BY <1>2, UintModAssumption DEF U32
<1> QED
  BY <1>1, <1>2

\* What the calls do to the ends of an interval and to its credit.
LEMMA CreditFields ==
  ASSUME NEW mi \in Intervals, NEW p \in Int, NEW sz \in Int
  PROVE  /\ LET m == MISent(mi, p, sz)
            IN  /\ m \in Intervals /\ m.bytesAcked = mi.bytesAcked /\ m.last = p
                /\ m.first = p \/ m.first = mi.first
         /\ LET m == MILost(mi, p, sz)
            IN  /\ m \in Intervals /\ m.bytesAcked = mi.bytesAcked
                /\ m.last = mi.last /\ m.first = mi.first
         /\ LET m == MIAcked(mi, p, sz)
            IN  /\ m \in Intervals /\ m.last = mi.last /\ m.first = mi.first
                /\ sz \in Nat => m.bytesAcked <= mi.bytesAcked
                                   + (IF ContainsPacket(mi, p) THEN sz ELSE 0)
<1> DEFINE t == TimeAcks(mi, p)
           a == Account(mi, p)
<1>1. t \in Intervals /\ a \in Intervals
  BY TimeAcksType, AccountType
<1>2. t.bytesAcked = mi.bytesAcked
  BY DEF TimeAcks, Intervals
<1> HIDE DEF t
<1>3. a.bytesAcked = mi.bytesAcked
  BY <1>1, <1>2 DEF Account, t, Intervals
<1> HIDE DEF a
<1>4. LET m == MISent(mi, p, sz)
      IN  /\ m \in Intervals /\ m.bytesAcked = mi.bytesAcked /\ m.last = p
          /\ m.first = p \/ m.first = mi.first
  <2>1. MISent(mi, p, sz) \in Intervals
    BY MISentType
  <2> QED
    BY <2>1 DEF MISent, Intervals
<1>5. LET m == MILost(mi, p, sz)
      IN  /\ m \in Intervals /\ m.bytesAcked = mi.bytesAcked
          /\ m.last = mi.last /\ m.first = mi.first
  <2>1. MILost(mi, p, sz).bytesAcked = mi.bytesAcked
    BY <1>1, <1>3 DEF MILost, a, Intervals
  <2> QED
    BY <2>1, AccountFields
<1>6. LET m == MIAcked(mi, p, sz)
      IN  /\ m \in Intervals /\ m.last = mi.last /\ m.first = mi.first
          /\ sz \in Nat => m.bytesAcked <= mi.bytesAcked
                             + (IF ContainsPacket(mi, p) THEN sz ELSE 0)
  <2> DEFINE m == MIAcked(mi, p, sz)
  <2>1. m \in Intervals /\ m.last = mi.last /\ m.first = mi.first
    BY AccountFields
  <2>2. m.bytesAcked = IF ContainsPacket(mi, p) THEN U32(mi.bytesAcked + sz)
                       ELSE mi.bytesAcked
    BY <1>1, <1>3 DEF MIAcked, a, Intervals
  <2> HIDE DEF m
  <2>3. mi.bytesAcked \in Nat
    BY DEF Intervals
  <2>4. sz \in Nat => U32(mi.bytesAcked + sz) <= mi.bytesAcked + sz
    BY <2>3, U32Below
  <2> QED
    BY <2>1, <2>2, <2>3, <2>4 DEF m
<1> QED
  BY <1>4, <1>5, <1>6

\* OnPacketSent: nothing in wait mode, else a new interval is opened, or the newest
\* one goes on.
LEMMA SentShape ==
  ASSUME NEW c \in CongestionControls, NEW seg \in Int, NEW r \in Rates
  PROVE  LET d == OnPacketSent(c, seg, r)
             q == c.queue
             p == SeqNo(seg)
         IN  /\ d \in CongestionControls /\ d.waitMode = c.waitMode
             /\ c.waitMode => d = c
             /\ ~c.waitMode =>
                  \/ /\ d.calls = Append(c.calls, Asked)
                     /\ Len(d.queue) = Len(q) + 1
                     /\ d.queue[Len(q) + 1] = MISent(NewInterval, p, MSS)
                     /\ \A i \in 1..Len(q) : d.queue[i] = q[i]
                  \/ /\ d.calls = c.calls /\ q # <<>>
                     /\ Len(d.queue) = Len(q)
                     /\ d.queue[Len(q)] = MISent(q[Len(q)], p, MSS)
                     /\ \A i \in 1..Len(q)-1 : d.queue[i] = q[i]
<1> DEFINE d == OnPacketSent(c, seg, r)
           q == c.queue
           p == SeqNo(seg)
<1>1. /\ q \in Seq(Intervals) /\ c.calls \in Seq(Calls) /\ Len(q) \in Nat
      /\ p \in Int /\ MSS \in Int
  <2>1. p \in Int /\ MSS \in Int
    BY SeqNoType, PccAssumption
  <2> HIDE DEF p
  <2> QED
    BY <2>1 DEF CongestionControls
<1>2. d \in CongestionControls /\ d.waitMode = c.waitMode
  BY OnPacketSentType
<1>3. CASE c.waitMode
  BY <1>2, <1>3 DEF OnPacketSent
<1>4. CASE ~c.waitMode /\ ShouldCreateNewMonitorInterval(c)
  <2> DEFINE w == Append(q, NewInterval)
             m == MISent(NewInterval, p, MSS)
             o == OpenInterval(c, r)
  <2>1. o.queue = w /\ o.calls = Append(c.calls, Asked) /\ o \in CongestionControls
    BY OpenIntervalType DEF OpenInterval, UpdatePacingRate, CongestionControls
  <2>2. d = [o EXCEPT !.queue = QueueSent(@, p, MSS)]
    BY <1>4 DEF OnPacketSent
  <2> HIDE DEF o, w, d, p, m
  <2>3. d.queue = QueueSent(w, p, MSS) /\ d.calls = Append(c.calls, Asked)
    BY <2>1, <2>2 DEF CongestionControls
  <2>4. /\ w \in Seq(Intervals) /\ Len(w) = Len(q) + 1 /\ w # <<>>
        /\ w[Len(w)] = NewInterval /\ Len(w) \in 1..Len(w)
        /\ \A i \in 1..Len(q) : w[i] = q[i] /\ i # Len(w) /\ i \in 1..Len(w)
    BY <1>1, NewIntervalType DEF w
  <2>5. d.queue = [w EXCEPT ![Len(w)] = m]
    BY <2>3, <2>4 DEF QueueSent, m
  <2>6. /\ Len(d.queue) = Len(w) /\ d.queue[Len(w)] = m
        /\ \A i \in 1..Len(w) : i # Len(w) => d.queue[i] = w[i]
    BY <2>4, <2>5, Replaced
  <2>7. /\ Len(d.queue) = Len(q) + 1 /\ d.queue[Len(q) + 1] = m
        /\ \A i \in 1..Len(q) : d.queue[i] = q[i]
    BY <2>4, <2>6
  <2> QED
    BY <1>2, <1>4, <2>3, <2>7 DEF d, p, m
<1>5. CASE ~c.waitMode /\ ~ShouldCreateNewMonitorInterval(c)
  <2> DEFINE m == MISent(q[Len(q)], p, MSS)
  <2>1. q # <<>>
    BY <1>5 DEF ShouldCreateNewMonitorInterval
  <2>2. d = [c EXCEPT !.queue = QueueSent(@, p, MSS)]
    BY <1>5 DEF OnPacketSent
  <2>3. d.queue = QueueSent(q, p, MSS) /\ d.calls = c.calls
    BY <2>2 DEF CongestionControls
  <2> HIDE DEF d, p, m
  <2>4. d.queue = [q EXCEPT ![Len(q)] = m]
    BY <2>1, <2>3 DEF QueueSent, m
  <2>5. Len(q) \in 1..Len(q) /\ \A i \in 1..Len(q)-1 : i \in 1..Len(q) /\ i # Len(q)
    BY <1>1, <2>1
  <2>6. /\ Len(d.queue) = Len(q) /\ d.queue[Len(q)] = m
        /\ \A i \in 1..Len(q)-1 : d.queue[i] = q[i]
    <3>1. /\ Len(d.queue) = Len(q) /\ d.queue[Len(q)] = m
          /\ \A i \in 1..Len(q) : i # Len(q) => d.queue[i] = q[i]
      BY <1>1, <2>4, <2>5, Replaced
    <3> QED
      BY <2>5, <3>1
  <2> QED
    BY <1>2, <1>5, <2>1, <2>3, <2>6 DEF d, p, m
<1> QED
  BY <1>3, <1>4, <1>5

\* A packet sent is a decision if it opens an interval.
LEMMA SentTold ==
  ASSUME NEW k, NEW c \in CongestionControls, Balanced(k, c),
         NEW seg \in Int, NEW r \in Rates
  PROVE  LET d == OnPacketSent(c, seg, r)
         IN  d \in CongestionControls /\ Balanced(k, d) /\ Credit(k, d) = Credit(k, c)
<1> DEFINE d == OnPacketSent(c, seg, r)
           q == c.queue
           p == SeqNo(seg)
<1>1. /\ d \in CongestionControls /\ d.waitMode = c.waitMode
      /\ c.waitMode => d = c
      /\ ~c.waitMode =>
           \/ /\ d.calls = Append(c.calls, Asked)
              /\ Len(d.queue) = Len(q) + 1
              /\ d.queue[Len(q) + 1] = MISent(NewInterval, p, MSS)
              /\ \A i \in 1..Len(q) : d.queue[i] = q[i]
           \/ /\ d.calls = c.calls /\ q # <<>>
              /\ Len(d.queue) = Len(q)
              /\ d.queue[Len(q)] = MISent(q[Len(q)], p, MSS)
              /\ \A i \in 1..Len(q)-1 : d.queue[i] = q[i]
  BY SentShape
<1> HIDE DEF d
<1>2. /\ q \in Seq(Intervals) /\ c.calls \in Seq(Calls) /\ Len(q) \in Nat
      /\ p \in Int /\ MSS \in Int /\ d.queue \in Seq(Intervals)
  <2>1. p \in Int /\ MSS \in Int
    BY SeqNoType, PccAssumption
  <2> HIDE DEF p
  <2>2. d.queue \in Seq(Intervals)
    BY <1>1 DEF CongestionControls
  <2> QED
    BY <2>1, <2>2 DEF CongestionControls
<1> HIDE DEF p
<1>3. CASE c.waitMode
  <2>1. d = c /\ d \in CongestionControls
    BY <1>1, <1>3
  <2> QED
    BY <2>1 DEF d
<1>4. CASE d.calls = c.calls /\ q # <<>> /\ Len(d.queue) = Len(q)
           /\ d.queue[Len(q)] = MISent(q[Len(q)], p, MSS)
           /\ \A i \in 1..Len(q)-1 : d.queue[i] = q[i]
  <2>1. \A i \in 1..Len(q) : i = Len(q) \/ i \in 1..Len(q)-1
    BY <1>2
  <2>2. q[Len(q)] \in Intervals
    BY <1>2, <1>4
  <2>3. MISent(q[Len(q)], p, MSS).bytesAcked = q[Len(q)].bytesAcked
    BY <1>2, <2>2, CreditFields
  <2>4. \A i \in 1..Len(q) : d.queue[i].bytesAcked = q[i].bytesAcked
    BY <1>4, <2>1, <2>3
  <2> QED
    BY <1>1, <1>4, <2>4, MappedTold DEF d
<1>5. CASE d.calls = Append(c.calls, Asked) /\ Len(d.queue) = Len(q) + 1
           /\ d.queue[Len(q) + 1] = MISent(NewInterval, p, MSS)
           /\ \A i \in 1..Len(q) : d.queue[i] = q[i]
  <2> DEFINE u == Told(k, c)
             w == Told(k, d)
  <2>1. w = Hear(u, Asked)
    <3>1. d.calls = c.calls \o <<Asked>>
      BY <1>2, <1>5
    <3>2. <<Asked>> \in Seq(Calls) /\ Asked \in Calls
      BY DEF Calls
    <3>3. HearAll(k, c.calls \o <<Asked>>) = HearAll(HearAll(k, c.calls), <<Asked>>)
      BY <1>2, <3>2, HearAllConcat
    <3> QED
      BY <3>1, <3>2, <3>3, HearAllSmall DEF Told
  <2>2. Episode(u)
    BY DEF Balanced
  <2>3. /\ Episode(w) /\ w.credited = u.credited /\ (u.over => w.over)
        /\ ~u.over => w.steps = u.steps + 1 /\ w.finished = u.finished
    <3> HIDE DEF u, w
    <3> QED
      BY <2>1, <2>2, HearIs
  <2>4. u.finished \in Int /\ u.steps \in Int
    <3> HIDE DEF u
    <3> QED
      BY <2>2, RateControllerAssumption DEF Episode, RateControllers
  <2>5. Balanced(k, d)
    <3>1. ASSUME ~w.over
          PROVE  w.steps = w.finished + Len(d.queue)
      <4>1. u.steps = u.finished + Len(q)
        BY <2>3, <3>1 DEF Balanced
      <4> HIDE DEF u, w
      <4> QED
        BY <1>2, <1>5, <2>3, <2>4, <3>1, <4>1
    <3> QED
      BY <2>3, <3>1 DEF Balanced
  <2>6. Credited(d.queue) = Credited(q)
    <3>1. MISent(NewInterval, p, MSS).bytesAcked = 0
      <4>1. NewInterval.bytesAcked = 0
        BY DEF NewInterval
      <4> QED
        BY <1>2, <4>1, NewIntervalType, CreditFields
    <3>2. Credited(d.queue) = Credited(q) + d.queue[Len(d.queue)].bytesAcked
      BY <1>2, <1>5, OneMoreCredit
    <3>3. Credited(q) \in Int
      BY <1>2, CreditsType
    <3> QED
      BY <1>5, <3>1, <3>2, <3>3
  <2>7. Credit(k, d) = Credit(k, c)
    BY <2>3, <2>6 DEF Credit
  <2> QED
    BY <1>1, <2>5, <2>7 DEF d
<1> QED
  BY <1>1, <1>3, <1>4, <1>5 DEF d

\* The intervals of a queue have sent packets of their own, one interval after the
\* other, all below b.
Apart(q, b) ==
  \A i \in 1..Len(q) :
    /\ q[i].last < b
    /\ \A j \in 1..Len(q) : i < j => q[i].last < q[j].first

\* The intervals' accounting changes, but not what they sent; what has finished may
\* be reported.
LEMMA HeardTold ==
  ASSUME NEW k, NEW c \in CongestionControls, Balanced(k, c),
         NEW w \in Seq(Intervals), Len(w) = Len(c.queue),
         \A i \in 1..Len(w) : /\ w[i].last = c.queue[i].last
                              /\ w[i].first = c.queue[i].first,
         NEW e \in {[c EXCEPT !.queue = w], CheckMonitoringInterval([c EXCEPT !.queue = w])}
  PROVE  /\ e \in CongestionControls /\ Balanced(k, e)
         /\ Credit(k, e) <= Told(k, c).credited + Credited(w)
         /\ \A b : Apart(c.queue, b) => Apart(e.queue, b)
<1> DEFINE d == [c EXCEPT !.queue = w]
<1>1. /\ d \in CongestionControls /\ d.queue = w /\ d.calls = c.calls
      /\ c.queue \in Seq(Intervals) /\ Len(w) \in Nat
  BY DEF CongestionControls
<1> HIDE DEF d
<1>2. Balanced(k, d) /\ Credit(k, d) = Told(k, c).credited + Credited(w)
  <2>1. Balanced(k, d)
    BY <1>1, MappedTold
  <2>2. Told(k, d) = Told(k, c)
    BY <1>1 DEF Told
  <2> QED
    BY <1>1, <2>1, <2>2 DEF Credit
<1>3. \A b : Apart(c.queue, b) => Apart(w, b)
  BY DEF Apart
<1>4. CASE e = d
  <2>1. Credit(k, d) \in Int
    <3>1. Told(k, c).credited \in Int
      BY DEF Balanced, Episode, RateControllers
    <3> QED
      BY <1>2, <3>1, CreditsType
  <2> QED
    BY <1>1, <1>2, <1>3, <1>4, <2>1
<1>5. CASE e = CheckMonitoringInterval(d)
  <2>1. /\ e \in CongestionControls
        /\ Balanced(k, e) /\ Credit(k, e) <= Credit(k, d)
        /\ \E n \in 0..Len(d.queue) :
             /\ Len(e.queue) = Len(d.queue) - n
             /\ \A i \in 1..Len(e.queue) : e.queue[i] = d.queue[n + i]
    BY <1>1, <1>2, <1>5, CheckTold
  <2>2. PICK n \in 0..Len(w) :
             /\ Len(e.queue) = Len(w) - n
             /\ \A i \in 1..Len(e.queue) : e.queue[i] = w[n + i]
    BY <1>1, <2>1
  <2>3. \A i \in 1..Len(e.queue) : n + i \in 1..Len(w)
    BY <1>1, <2>2
  <2>4. \A i, j \in 1..Len(e.queue) : i < j => n + i < n + j
    BY <1>1, <2>2
  <2>5. \A b : Apart(w, b) => Apart(e.queue, b)
    BY <2>2, <2>3, <2>4 DEF Apart
  <2> QED
    BY <1>2, <1>3, <2>1, <2>5
<1> QED
  BY <1>4, <1>5 DEF d

\* A packet is lost: no credit is given.
LEMMA LostTold ==
  ASSUME NEW k, NEW c \in CongestionControls, Balanced(k, c), NEW seg \in Int
  PROVE  LET e == OnPacketLost(c, seg)
         IN  /\ e \in CongestionControls /\ Balanced(k, e) /\ Credit(k, e) <= Credit(k, c)
             /\ \A b : Apart(c.queue, b) => Apart(e.queue, b)
<1> DEFINE p == SeqNo(seg)
           q == c.queue
           w == QueueLost(q, p, MSS)
           d == [c EXCEPT !.queue = w]
           e == OnPacketLost(c, seg)
<1>1. p \in Int /\ MSS \in Int
  BY SeqNoType, PccAssumption
<1>2. e \in {d, CheckMonitoringInterval(d)}
  BY DEF OnPacketLost
<1> HIDE DEF p, e
<1>3. q \in Seq(Intervals)
  BY DEF CongestionControls
<1>4. /\ w \in Seq(Intervals) /\ Len(w) = Len(q)
      /\ \A i \in 1..Len(q) :
           w[i] = IF AllPacketsAccountedFor(q[i]) THEN q[i] ELSE MILost(q[i], p, MSS)
  <2>1. w \in Seq(Intervals) /\ Len(w) = Len(q)
    BY <1>1, <1>3, QueueLostType
  <2>2. DOMAIN q = 1..Len(q)
    BY <1>3
  <2> QED
    BY <2>1, <2>2 DEF QueueLost
<1> HIDE DEF w
<1>5. \A i \in 1..Len(q) : /\ w[i].last = q[i].last /\ w[i].first = q[i].first
                           /\ w[i].bytesAcked = q[i].bytesAcked
  <2> SUFFICES ASSUME NEW i \in 1..Len(q)
               PROVE  /\ w[i].last = q[i].last /\ w[i].first = q[i].first
                      /\ w[i].bytesAcked = q[i].bytesAcked
    OBVIOUS
  <2>1. q[i] \in Intervals
    BY <1>3
  <2> QED
    BY <1>1, <1>4, <2>1, CreditFields
<1>6. Credited(w) = Credited(q)
  BY <1>3, <1>4, <1>5, SameCredits
<1>7. /\ e \in CongestionControls /\ Balanced(k, e)
      /\ Credit(k, e) <= Told(k, c).credited + Credited(w)
      /\ \A b : Apart(c.queue, b) => Apart(e.queue, b)
  BY <1>2, <1>4, <1>5, HeardTold
<1> QED
  BY <1>6, <1>7 DEF e, Credit

\* An ACK is heard: at most one interval is given its credit.
LEMMA AckedTold ==
  ASSUME NEW k, NEW c \in CongestionControls, Balanced(k, c), NEW ack \in Int,
         NEW newly \in Nat
  PROVE  LET e == CongControl(c, ack, newly)
         IN  /\ e \in CongestionControls /\ Balanced(k, e)
             /\ \A b : Apart(c.queue, b) =>
                         /\ Apart(e.queue, b)
                         /\ Credit(k, e) <= Credit(k, c) + newly * MSS
<1> DEFINE p == SeqNo(ack)
           sz == newly * MSS
           q == c.queue
           w == QueueAcked(q, p, sz)
           d == [c EXCEPT !.queue = w]
           e == CongControl(c, ack, newly)
<1>1. p \in Int /\ sz \in Nat /\ sz \in Int
  <2>1. \A x, y \in Nat : x * y \in Nat
    OBVIOUS
  <2>2. MSS \in Nat
    BY PccAssumption
  <2> QED
    BY <2>1, <2>2, SeqNoType
<1> HIDE DEF p, sz
<1>2. q \in Seq(Intervals) /\ Len(q) \in Nat
  BY DEF CongestionControls
<1>3. Told(k, c).credited \in Int /\ Credited(q) \in Int /\ Credit(k, c) \in Int
  BY <1>2, CreditsType DEF Balanced, Episode, RateControllers, Credit
<1>4. CASE c.waitMode
  <2>1. e = c
    BY <1>4 DEF CongControl
  <2>2. Credit(k, c) <= Credit(k, c) + sz
    BY <1>1, <1>3
  <2> QED
    BY <2>1, <2>2 DEF sz
<1>5. CASE ~c.waitMode
  <2>1. e = CheckMonitoringInterval(d)
    BY <1>5 DEF CongControl, p, sz
  <2> HIDE DEF e
  <2>2. /\ w \in Seq(Intervals) /\ Len(w) = Len(q)
        /\ \A i \in 1..Len(q) :
             w[i] = IF AllPacketsAccountedFor(q[i]) THEN q[i] ELSE MIAcked(q[i], p, sz)
    <3>1. w \in Seq(Intervals) /\ Len(w) = Len(q)
      BY <1>1, <1>2, QueueAckedType
    <3>2. DOMAIN q = 1..Len(q)
      BY <1>2
    <3> QED
      BY <3>1, <3>2 DEF QueueAcked
  <2> HIDE DEF w
  <2>3. \A i \in 1..Len(q) : /\ w[i].last = q[i].last /\ w[i].first = q[i].first
                             /\ w[i].bytesAcked <= q[i].bytesAcked
                                  + (IF ContainsPacket(q[i], p) THEN sz ELSE 0)
    <3> SUFFICES ASSUME NEW i \in 1..Len(q)
                 PROVE  /\ w[i].last = q[i].last /\ w[i].first = q[i].first
                        /\ w[i].bytesAcked <= q[i].bytesAcked
                             + (IF ContainsPacket(q[i], p) THEN sz ELSE 0)
      OBVIOUS
    <3>1. q[i] \in Intervals /\ q[i].bytesAcked \in Nat
      BY <1>2, CreditsType
    <3>2. CASE AllPacketsAccountedFor(q[i])
      BY <1>1, <2>2, <3>1, <3>2
    <3>3. CASE ~AllPacketsAccountedFor(q[i])
      BY <1>1, <2>2, <3>1, <3>3, CreditFields
    <3> QED
      BY <3>2, <3>3
  <2>4. /\ e \in CongestionControls /\ Balanced(k, e)
        /\ Credit(k, e) <= Told(k, c).credited + Credited(w)
        /\ \A b : Apart(c.queue, b) => Apart(e.queue, b)
    BY <2>1, <2>2, <2>3, HeardTold
  <2>5. ASSUME NEW b, Apart(q, b)
        PROVE  Credited(w) <= Credited(q) + sz
    <3>1. PICK n \in Nat : \A i \in 1..Len(q) : ContainsPacket(q[i], p) => i = n
      <4>1. CASE \E n \in 1..Len(q) : ContainsPacket(q[n], p)
        <5>1. PICK n \in 1..Len(q) : ContainsPacket(q[n], p)
          BY <4>1
        <5>2. ASSUME NEW i \in 1..Len(q), ContainsPacket(q[i], p), i # n
              PROVE  FALSE
          <6>1. \A m \in 1..Len(q) : q[m].first \in Int /\ q[m].last \in Int
            <7>1. \A m \in 1..Len(q) : q[m] \in Intervals
              BY <1>2
            <7> QED
              BY <7>1 DEF Intervals
          <6>2. /\ q[i].first <= p /\ p <= q[i].last
                /\ q[n].first <= p /\ p <= q[n].last
            BY <5>1, <5>2 DEF ContainsPacket
          <6>3. q[i].last < q[n].first \/ q[n].last < q[i].first
            <7>1. i < n \/ n < i
              BY <1>2, <5>2
            <7> QED
              BY <2>5, <7>1 DEF Apart
          <6> QED
            BY <1>1, <6>1, <6>2, <6>3
        <5> QED
          BY <1>2, <5>2
      <4>2. CASE \A n \in 1..Len(q) : ~ContainsPacket(q[n], p)
        BY <4>2
      <4> QED
        BY <4>1, <4>2
    <3>2. /\ Credits(w) \in Seq(Int) /\ Credits(q) \in Seq(Int)
          /\ Len(Credits(w)) = Len(q) /\ Len(Credits(q)) = Len(q)
          /\ Credited(w) = Total(Credits(w)) /\ Credited(q) = Total(Credits(q))
      BY <1>2, <2>2, CreditsType
    <3>3. \A i \in 1..Len(q) :
            Credits(w)[i] <= Credits(q)[i] + (IF i = n THEN sz ELSE 0)
      <4> SUFFICES ASSUME NEW i \in 1..Len(q)
                   PROVE  Credits(w)[i] <= Credits(q)[i] + (IF i = n THEN sz ELSE 0)
        OBVIOUS
      <4>1. /\ Credits(w)[i] = w[i].bytesAcked /\ Credits(q)[i] = q[i].bytesAcked
            /\ w[i].bytesAcked \in Nat /\ q[i].bytesAcked \in Nat
        BY <1>2, <2>2, CreditsType
      <4> QED
        BY <1>1, <2>3, <3>1, <4>1
    <3> HIDE DEF q
    <3>4. Total(Credits(w)) <= Total(Credits(q)) + sz
      BY <1>1, <3>2, <3>3, TotalOrdered
    <3> QED
      BY <3>2, <3>4 DEF q
  <2>6. Credited(w) \in Int
    BY <2>2, CreditsType
  <2>7. Credit(k, e) \in Int
    <3>1. e.queue \in Seq(Intervals) /\ Told(k, e).credited \in Int
      BY <2>4 DEF Balanced, Episode, RateControllers, CongestionControls
    <3> QED
      BY <3>1, CreditsType DEF Credit
  <2>8. ASSUME NEW b, Apart(q, b)
        PROVE  Credit(k, e) <= Credit(k, c) + sz
    <3>1. Credited(w) <= Credited(q) + sz
      BY <2>5, <2>8
    <3>2. Credit(k, c) = Told(k, c).credited + Credited(q)
      BY DEF Credit
    <3> QED
      BY <1>1, <1>3, <2>4, <2>6, <2>7, <3>1, <3>2
  <2> QED
    BY <2>4, <2>8 DEF e, sz
<1> QED
  BY <1>4, <1>5

\* Sequence numbers grow with the segments.
LEMMA SeqNoNext == \A n \in Int : SeqNo(n) < SeqNo(n + 1)
<1> SUFFICES ASSUME NEW n \in Int
             PROVE  SeqNo(n) < SeqNo(n + 1)
  OBVIOUS
<1>1. \A a, b \in Int : (a + 1) * b = a * b + b
  OBVIOUS
<1>2. MSS \in Int /\ MSS > 0
  BY PccAssumption
<1>3. (n + 1) * MSS = n * MSS + MSS /\ n * MSS \in Int
  BY <1>1, <1>2, SeqNoType
<1> QED
  BY <1>2, <1>3 DEF SeqNo

\* What is below b is below what is beyond b.
LEMMA ApartBelow ==
  ASSUME NEW q \in Seq(Intervals), NEW b \in Int, NEW c \in Int, b <= c, Apart(q, b)
  PROVE  Apart(q, c)
<1>1. \A i \in 1..Len(q) : q[i].last \in Int
  <2>1. \A i \in 1..Len(q) : q[i] \in Intervals
    OBVIOUS
  <2> QED
    BY <2>1 DEF Intervals
<1> QED
  BY <1>1 DEF Apart

\* A new segment is sent: the newest interval ends with it.
LEMMA SentApart ==
  ASSUME NEW c \in CongestionControls, NEW n \in Int, NEW r \in Rates,
         Apart(c.queue, SeqNo(n))
  PROVE  Apart(OnPacketSent(c, n, r).queue, SeqNo(n + 1))
<1> DEFINE d == OnPacketSent(c, n, r)
           q == c.queue
           w == d.queue
           p == SeqNo(n)
           b == SeqNo(n + 1)
           L == Len(w)
<1>1. /\ c.waitMode => d = c
      /\ ~c.waitMode =>
           \/ /\ Len(w) = Len(q) + 1
              /\ w[Len(q) + 1] = MISent(NewInterval, p, MSS)
              /\ \A i \in 1..Len(q) : w[i] = q[i]
           \/ /\ q # <<>>
              /\ Len(w) = Len(q)
              /\ w[Len(q)] = MISent(q[Len(q)], p, MSS)
              /\ \A i \in 1..Len(q)-1 : w[i] = q[i]
  <2>1. /\ d \in CongestionControls /\ d.waitMode = c.waitMode
        /\ c.waitMode => d = c
        /\ ~c.waitMode =>
             \/ /\ d.calls = Append(c.calls, Asked)
                /\ Len(d.queue) = Len(q) + 1
                /\ d.queue[Len(q) + 1] = MISent(NewInterval, p, MSS)
                /\ \A i \in 1..Len(q) : d.queue[i] = q[i]
             \/ /\ d.calls = c.calls /\ q # <<>>
                /\ Len(d.queue) = Len(q)
                /\ d.queue[Len(q)] = MISent(q[Len(q)], p, MSS)
                /\ \A i \in 1..Len(q)-1 : d.queue[i] = q[i]
    BY SentShape
  <2> HIDE DEF d, q, p
  <2> QED
    BY <2>1
<1>2. q \in Seq(Intervals) /\ Len(q) \in Nat
  BY DEF CongestionControls
<1>3. p \in Int /\ b \in Int /\ p < b /\ MSS \in Int
  <2>1. MSS \in Int /\ n + 1 \in Int
    BY PccAssumption
  <2>2. p < b
    BY SeqNoNext
  <2>3. p \in Int /\ b \in Int
    <3> DEFINE m == n + 1
    <3>1. m \in Int
      BY <2>1
    <3> HIDE DEF m
    <3>2. SeqNo(m) \in Int /\ SeqNo(n) \in Int
      BY <3>1, SeqNoType
    <3> QED
      BY <3>2 DEF m
  <2> QED
    BY <2>1, <2>2, <2>3
<1> HIDE DEF p, b, d
<1>4. \A i \in 1..Len(q) : /\ q[i] \in Intervals /\ q[i].last \in Int /\ q[i].first \in Int
                           /\ q[i].last < p
                           /\ \A j \in 1..Len(q) : i < j => q[i].last < q[j].first
  <2>1. \A i \in 1..Len(q) : q[i] \in Intervals
    BY <1>2
  <2>2. \A mi \in Intervals : mi.last \in Int /\ mi.first \in Int
    BY DEF Intervals
  <2> QED
    BY <2>1, <2>2 DEF Apart, p
<1>5. CASE c.waitMode
  <2>1. Apart(q, b)
    BY <1>2, <1>3, ApartBelow DEF p
  <2> QED
    BY <1>1, <1>5, <2>1 DEF d, b
<1>6. CASE ~c.waitMode
  <2>1. /\ L \in Nat /\ L # 0 /\ w[L].last = p
        /\ w[L].first = p \/ (L = Len(q) /\ w[L].first = q[L].first)
        /\ \A i \in 1..L-1 : i \in 1..Len(q) /\ w[i] = q[i]
    <3>1. CASE /\ L = Len(q) + 1
               /\ w[Len(q) + 1] = MISent(NewInterval, p, MSS)
               /\ \A i \in 1..Len(q) : w[i] = q[i]
      <4>1. MISent(NewInterval, p, MSS).last = p /\ MISent(NewInterval, p, MSS).first = p
        <5>1. NewInterval.nSent = 0
          BY DEF NewInterval
        <5> QED
          BY <5>1, NewIntervalType DEF MISent, Intervals
      <4> QED
        BY <1>2, <3>1, <4>1
    <3>2. CASE /\ q # <<>>
               /\ L = Len(q)
               /\ w[Len(q)] = MISent(q[Len(q)], p, MSS)
               /\ \A i \in 1..Len(q)-1 : w[i] = q[i]
      <4>1. q[L] \in Intervals /\ L # 0
        BY <1>2, <3>2
      <4>2. w[L].last = p /\ (w[L].first = p \/ w[L].first = q[L].first)
        BY <1>3, <3>2, <4>1, CreditFields
      <4> QED
        BY <1>2, <3>2, <4>1, <4>2
    <3> QED
      BY <1>1, <1>6, <3>1, <3>2
  <2> HIDE DEF w, L
  <2> SUFFICES ASSUME NEW i \in 1..L
               PROVE  /\ w[i].last < b
                      /\ \A j \in 1..L : i < j => w[i].last < w[j].first
    BY DEF Apart, L, w, b, d
  <2>2. w[i].last < b
    <3>1. CASE i = L
      BY <1>3, <2>1, <3>1
    <3>2. CASE i # L
      <4>1. i \in 1..L-1
        BY <2>1, <3>2
      <4>2. w[i].last \in Int /\ w[i].last < p
        BY <1>4, <2>1, <4>1
      <4> QED
        BY <1>3, <4>2
    <3> QED
      BY <3>1, <3>2
  <2>3. ASSUME NEW j \in 1..L, i < j
        PROVE  w[i].last < w[j].first
    <3>1. i \in 1..L-1
      BY <2>1, <2>3
    <3>2. w[i].last < p /\ w[i] = q[i] /\ i \in 1..Len(q)
      BY <1>4, <2>1, <3>1
    <3>3. CASE j = L
      BY <1>2, <1>4, <2>1, <2>3, <3>2, <3>3
    <3>4. CASE j # L
      <4>1. j \in 1..L-1
        BY <2>1, <3>4
      <4> QED
        BY <1>4, <2>1, <2>3, <3>2, <4>1
    <3> QED
      BY <3>3, <3>4
  <2> QED
    BY <2>2, <2>3
<1> QED
  BY <1>5, <1>6

-----------------------------------------------------------------------------
\* The handlers.

\* The views of which the rate controller, which was k when the handler began, has
\* heard of each decision, and of no byte twice: K is what it may have been credited
\* with, unless a segment below h was sent again.
Crediting(k, again, h, K) ==
  {v \in Views :
     /\ Balanced(k, v.cc)
     /\ \/ again
        \/ \E i \in 1..Len(v.tx) : v.tx[i] < h
        \/ Apart(v.cc.queue, SeqNo(v.high)) /\ Credit(k, v.cc) <= K}

\* Credit is a number.
LEMMA CreditType ==
  ASSUME NEW k, NEW c \in CongestionControls, Balanced(k, c)
  PROVE  Credit(k, c) \in Int
<1>1. c.queue \in Seq(Intervals) /\ Told(k, c).credited \in Int
  BY DEF Balanced, Episode, RateControllers, CongestionControls
<1> QED
  BY <1>1, CreditsType DEF Credit

\* The parts of a handler do not leave them.
LEMMA CreditingClosed ==
  ASSUME NEW una, NEW k, NEW again, NEW h, NEW K \in Int
  PROVE  /\ ClosedSent(Crediting(k, again, h, K), una, h)
         /\ ClosedLost(Crediting(k, again, h, K), una, h)
         /\ ClosedState(Crediting(k, again, h, K))
<1> DEFINE X == Crediting(k, again, h, K)
<1>1. ASSUME NEW v \in X, NEW seg \in Segments, NEW r \in Rates,
             seg = v.high \/ seg < h
      PROVE  SentView(v, seg, r) \in X /\ LostView(v, seg, r) \in X
  <2> DEFINE c == v.cc
             d == OnPacketSent(c, seg, r)
             e == OnPacketLost(d, seg)
             x == SentView(v, seg, r)
             y == LostView(v, seg, r)
             high == IF seg = v.high THEN seg + 1 ELSE v.high
             tx == Append(v.tx, seg)
  <2>1. /\ v \in Views /\ c \in CongestionControls /\ v.high \in Int /\ seg \in Int
        /\ v.tx \in Seq(Segments) /\ Balanced(k, c)
    BY TxBufferAssumption DEF Crediting, Views, Segments
  <2>2. x \in Views /\ y \in Views
    BY <2>1, ViewsKept
  <2>3. x.cc = d /\ y.cc = e /\ x.high = high /\ y.high = high /\ x.tx = tx /\ y.tx = tx
    BY DEF SentView, LostView
  <2>4. d \in CongestionControls /\ Balanced(k, d) /\ Credit(k, d) = Credit(k, c)
    BY <2>1, SentTold
  <2> HIDE DEF d, x, y
  <2>5. /\ e \in CongestionControls /\ Balanced(k, e) /\ Credit(k, e) <= Credit(k, d)
        /\ \A b : Apart(d.queue, b) => Apart(e.queue, b)
    BY <2>1, <2>4, LostTold
  <2>6. Credit(k, c) \in Int /\ Credit(k, d) \in Int /\ Credit(k, e) \in Int
    BY <2>1, <2>4, <2>5, CreditType
  <2> HIDE DEF e
  <2>7. \/ again
        \/ \E i \in 1..Len(tx) : tx[i] < h
        \/ Apart(d.queue, SeqNo(high)) /\ Credit(k, d) <= K
    <3>1. CASE again
      BY <3>1
    <3>2. CASE seg < h
      <4>1. Len(tx) \in 1..Len(tx) /\ tx[Len(tx)] = seg
        BY <2>1
      <4> QED
        BY <3>2, <4>1
    <3>3. CASE \E i \in 1..Len(v.tx) : v.tx[i] < h
      <4>1. \A i \in 1..Len(v.tx) : i \in 1..Len(tx) /\ tx[i] = v.tx[i]
        BY <2>1
      <4> QED
        BY <3>3, <4>1
    <3>4. CASE seg = v.high /\ Apart(c.queue, SeqNo(v.high)) /\ Credit(k, c) <= K
      <4>1. Apart(d.queue, SeqNo(seg + 1))
        BY <2>1, <3>4, SentApart DEF d
      <4>2. high = seg + 1
        BY <3>4
      <4> QED
        BY <2>4, <3>4, <4>1, <4>2
    <3> QED
      BY <1>1, <3>1, <3>2, <3>3, <3>4 DEF Crediting
  <2> HIDE DEF tx, high, c
  <2>8. x \in X
    BY <2>2, <2>3, <2>4, <2>7 DEF Crediting
  <2>9. y \in X
    <3>1. Apart(d.queue, SeqNo(high)) /\ Credit(k, d) <= K
            => Apart(e.queue, SeqNo(high)) /\ Credit(k, e) <= K
      BY <2>5, <2>6
    <3> QED
      BY <2>2, <2>3, <2>5, <2>7, <3>1 DEF Crediting
  <2> QED
    BY <2>8, <2>9 DEF x, y
<1>2. ASSUME NEW v \in X, NEW st \in CongStates
      PROVE  StateView(v, st) \in X
  <2> DEFINE d == CongestionStateSet(v.cc, st)
  <2>1. v \in Views /\ v.cc \in CongestionControls /\ Balanced(k, v.cc)
    BY DEF Crediting, Views
  <2>2. StateView(v, st) \in Views
    BY <2>1, ViewsKept
  <2>3. d \in CongestionControls
    BY <2>1, CongestionStateSetType
  <2>4. d.calls = v.cc.calls /\ d.queue = v.cc.queue
    BY <2>1 DEF CongestionStateSet, UpdatePacingRate, CongestionControls
  <2>5. StateView(v, st).cc = d /\ StateView(v, st).high = v.high
        /\ StateView(v, st).tx = v.tx
    BY DEF StateView
  <2> HIDE DEF d
  <2>6. Balanced(k, d) /\ Credit(k, d) = Credit(k, v.cc)
    BY <2>1, <2>4 DEF Balanced, Credit, Told
  <2> QED
    BY <2>2, <2>4, <2>5, <2>6 DEF Crediting
<1> QED
  BY <1>1, <1>2 DEF ClosedSent, ClosedLost, ClosedState, MaySend

\* An ACK is heard: what it newly delivers is credited.
LEMMA CreditingHears ==
  ASSUME NEW k, NEW again, NEW h, NEW K \in Int, NEW a \in Acks, NEW newly \in Nat,
         NEW v \in Crediting(k, again, h, K)
  PROVE  HeardView(v, a, newly) \in Crediting(k, again, h, K + newly * MSS)
<1> DEFINE e == CongControl(v.cc, a.ack, newly)
           x == HeardView(v, a, newly)
           sz == newly * MSS
<1>1. v \in Views /\ v.cc \in CongestionControls /\ Balanced(k, v.cc)
  BY DEF Crediting, Views
<1>2. a.ack \in Int /\ sz \in Int /\ newly \in Int
  <2>1. \A m, n \in Nat : m * n \in Int
    OBVIOUS
  <2>2. MSS \in Nat
    BY PccAssumption
  <2> QED
    BY <2>1, <2>2, TxBufferAssumption DEF Acks
<1>3. x \in Views /\ x.cc = e /\ x.high = v.high /\ x.tx = v.tx
  <2>1. x \in Views
    BY <1>1, <1>2, ViewsKept
  <2> QED
    BY <2>1 DEF HeardView
<1>4. /\ e \in CongestionControls /\ Balanced(k, e)
      /\ \A b : Apart(v.cc.queue, b) =>
                  /\ Apart(e.queue, b)
                  /\ Credit(k, e) <= Credit(k, v.cc) + sz
  BY <1>1, <1>2, AckedTold
<1> HIDE DEF e, x, sz
<1>5. Credit(k, v.cc) \in Int /\ Credit(k, e) \in Int
  BY <1>1, <1>4, CreditType
<1>6. \A b : Apart(v.cc.queue, b) /\ Credit(k, v.cc) <= K
               => Apart(e.queue, b) /\ Credit(k, e) <= K + sz
  BY <1>2, <1>4, <1>5
<1> QED
  BY <1>3, <1>4, <1>6 DEF Crediting, x, sz

\* The segments the sender knows to be delivered.
Delivered(b) == 0..b.una-1 \cup b.sacked

\* They are finitely many.
LEMMA DeliveredType ==
  ASSUME NEW b \in Buffers
  PROVE  /\ IsFiniteSet(Delivered(b)) /\ Cardinality(Delivered(b)) \in Nat
         /\ MSS * Cardinality(Delivered(b)) \in Nat
<1>1. b.una \in Int /\ b.sacked \in SUBSET (0..N-1) /\ N \in Int
  BY TxBufferAssumption DEF Buffers
<1>2. IsFiniteSet(0..b.una-1) /\ IsFiniteSet(0..N-1)
  <2>1. 0 \in Int /\ b.una-1 \in Int /\ N-1 \in Int
    BY <1>1
  <2> QED
    BY <2>1, FS_Interval
<1>3. IsFiniteSet(b.sacked)
  BY <1>1, <1>2, FS_Subset
<1>4. IsFiniteSet(Delivered(b))
  BY <1>2, <1>3, FS_Union DEF Delivered
<1>5. Cardinality(Delivered(b)) \in Nat
  BY <1>4, FS_CardinalityType
<1>6. \A m, n \in Nat : m * n \in Nat
  OBVIOUS
<1> QED
  BY <1>4, <1>5, <1>6, PccAssumption

\* A handler delivers what m_lastAckedSackedBytes counts, and loses nothing.
LEMMA DeliveredGrows ==
  ASSUME IInv, s.recover <= s.buf.high, [Next]_vars
  PROVE  /\ s.buf \in Buffers /\ s'.buf \in Buffers
         /\ Cardinality(Delivered(s'.buf)) >=
              Cardinality(Delivered(s.buf))
                + (IF ReceivedAck THEN NewlyDelivered(s.buf, Head(acks)) ELSE 0)
<1> DEFINE b == Begin(s)
           a == Head(acks)
<1>1. GoodSender(s) /\ Waits(s) /\ s.buf \in Buffers
  BY DEF IInv, TypeOK, GoodSender, Senders
<1>2. GoodSender(b) /\ Waits(b) /\ b.buf = s.buf /\ (Armed(s) => Armed(b))
  <2>1. Keeps(s, b)
    BY <1>1, BeginKeeps
  <2>2. b.buf = s.buf
    BY <1>1, BeginIdle
  <2> QED
    BY <1>1, <2>1, <2>2 DEF Keeps
<1>3. s'.buf \in Buffers
  <2>1. IInv'
    BY NextIInv
  <2> QED
    BY <2>1 DEF IInv, TypeOK, Senders
<1>4. CASE ReceivedAck
  <2>1. PICK r \in Rates, ece \in BOOLEAN : s' = AckProcessed(b, a, ece, r)
    BY <1>4, SenderAssumption DEF ReceivedAck
  <2>2. CanProcess(b, a)
    BY <1>4, AckPresent DEF ReceivedAck
  <2>3. Armed(b)
    BY <1>2 DEF IInv
  <2> HIDE DEF b, a
  <2>4. /\ s'.buf.una = a.ack
        /\ s'.buf.sacked = (s.buf.sacked \cup (a.sack \cap Sent(s.buf))) \ 0..a.ack-1
    BY <1>2, <2>1, <2>2, <2>3, AckProcessedGood
  <2>5. /\ s.buf.una \in Nat /\ a.ack \in Nat /\ s.buf.una <= a.ack
        /\ s.buf.high \in Nat
    BY <1>1, <1>2, <2>2, TxBufferAssumption DEF CanProcess, Acks, Buffers
  <2> DEFINE new == (Sent(s.buf) \cap (0..a.ack-1 \cup a.sack)) \ s.buf.sacked
             D == Delivered(s.buf)
             E == Delivered(s'.buf)
  <2>6. IsFiniteSet(D) /\ IsFiniteSet(E) /\ Cardinality(D) \in Nat /\ Cardinality(E) \in Nat
    BY <1>1, <1>3, DeliveredType
  <2>7. D \subseteq E
    BY <2>4, <2>5 DEF Delivered
  <2>8. new \subseteq E
    BY <2>4, <2>5 DEF Delivered
  <2>9. D \cap new = {}
    BY <2>5 DEF Delivered, Sent
  <2>10. Cardinality(new) = NewlyDelivered(s.buf, a)
    BY DEF NewlyDelivered
  <2> HIDE DEF new, D, E
  <2>11. IsFiniteSet(new) /\ Cardinality(new) \in Nat
    BY <2>6, <2>8, FS_Subset, FS_CardinalityType
  <2>12. Cardinality(D \cup new) = Cardinality(D) + Cardinality(new)
    <3>1. Cardinality({}) = 0
      BY FS_EmptySet
    <3>2. Cardinality(D \cup new)
            = Cardinality(D) + Cardinality(new) - Cardinality(D \cap new)
      BY <2>6, <2>11, FS_Union
    <3>3. Cardinality(D \cup new) = Cardinality(D) + Cardinality(new) - 0
      BY <2>9, <3>1, <3>2
    <3> QED
      BY <2>6, <2>11, <3>3
  <2>13. Cardinality(D \cup new) <= Cardinality(E)
    <3>1. D \cup new \in SUBSET E
      BY <2>7, <2>8
    <3> QED
      BY <2>6, <3>1, FS_Subset
  <2>14. Cardinality(E) >= Cardinality(D) + Cardinality(new)
    BY <2>6, <2>11, <2>12, <2>13
  <2> QED
    BY <1>1, <1>3, <1>4, <2>10, <2>14 DEF D, E, a
<1>5. CASE ~ReceivedAck
  <2>1. s'.buf.una = s.buf.una /\ s'.buf.sacked = s.buf.sacked
    <3>1. CASE Start \/ PacingTimerExpires
      <4> DEFINE t == [b EXCEPT !.pacing = FALSE]
      <4>1. PICK r \in Rates : s' = SendPendingData(b, r) \/ s' = SendPendingData(t, r)
        BY <3>1 DEF Start, PacingTimerExpires
      <4>2. t \in Senders /\ t.buf = b.buf
        BY <1>2 DEF GoodSender, Senders
      <4>3. GoodSender(t)
        BY <1>2, <4>2 DEF GoodSender
      <4> HIDE DEF t, b
      <4>4. Keeps(b, s') \/ Keeps(t, s')
        BY <1>2, <4>1, <4>3, SendPendingDataKeeps
      <4> QED
        BY <1>2, <4>2, <4>4 DEF Keeps
    <3>2. CASE ReTxTimeout
      <4>1. PICK r \in Rates : s' = TimedOut(b, r)
        BY <3>2 DEF ReTxTimeout
      <4> HIDE DEF b
      <4> QED
        BY <1>2, <4>1, TimedOutGood
    <3>3. CASE IntervalEnds
      BY <3>3, IntervalEndsView
    <3>4. CASE s' = s
      BY <3>4
    <3> QED
      BY <1>5, <3>1, <3>2, <3>3, <3>4 DEF Next, vars, ReceivedData, DelAckTimeout, Drop
  <2>2. Delivered(s'.buf) = Delivered(s.buf)
    BY <2>1 DEF Delivered
  <2>3. Cardinality(Delivered(s.buf)) \in Nat
    BY <1>1, DeliveredType
  <2> QED
    BY <1>1, <1>3, <1>5, <2>2, <2>3
<1> QED
  BY <1>4, <1>5

\* The invariant of the flow: the rate controller is one whose episode is over with
\* its last decision; until then each decision is reported or has its interval; and
\* what was credited was delivered, as long as no segment was sent a second time.
FlowInv ==
  /\ Reached /\ FlowTypeOK /\ DecisionsHaveIntervals
  /\ resent \/ /\ Apart(Queue, SeqNo(s.buf.high))
               /\ rc.credited + Credited(Queue) <= MSS * Cardinality(Delivered(s.buf))

\* The flow and its agent are a sender.
LEMMA FlowIsSender ==
  ASSUME [FlowNext]_flowVars
  PROVE  [Next]_vars
  BY DEF FlowNext, flowVars, Next

\* Before the first call.
LEMMA InitFlowInv ==
  ASSUME FlowInit
  PROVE  FlowInv
<1>1. Reached
  BY InitIInv DEF FlowInit, Init, EmptyBuffer, Reached
<1>2. rc = InitialRC /\ resent = FALSE /\ s.cc.queue = <<>>
  BY DEF FlowInit, Init, InitialCC
<1>3. rc \in RateControllers /\ rc.over = FALSE /\ rc.steps = 0 /\ rc.finished = 0
      /\ rc.credited = 0 /\ MaxSteps # 0
  <2>1. [i \in 1..History |-> "one"] \in [1..History -> Latencies] /\ 0 \in 0..MaxSteps
        /\ MaxSteps # 0
    BY RateControllerAssumption DEF Latencies
  <2> QED
    BY <1>2, <2>1 DEF InitialRC, RateControllers, Throughputs
<1>4. Apart(s.cc.queue, SeqNo(s.buf.high)) /\ Len(s.cc.queue) = 0
  BY <1>2 DEF Apart
<1>5. Credited(s.cc.queue) = 0
  <2>1. <<>> \in Seq(Intervals) /\ Len(<<>>) = 0
    OBVIOUS
  <2>2. /\ Credits(<<>>) \in Seq(Int) /\ Len(Credits(<<>>)) = 0
        /\ Credited(<<>>) = Total(Credits(<<>>))
    BY <2>1, CreditsType
  <2> QED
    BY <1>2, <2>2, TotalEmpty
<1>6. MSS * Cardinality(Delivered(s.buf)) \in Nat
  <2>1. s.buf \in Buffers
    BY <1>1 DEF Reached, IInv, TypeOK, Senders
  <2> QED
    BY <2>1, DeliveredType
<1>7. FlowTypeOK
  BY <1>2, <1>3 DEF FlowTypeOK
<1>8. DecisionsHaveIntervals
  BY <1>3, <1>4 DEF DecisionsHaveIntervals, Queue
<1>9. rc.credited + Credited(Queue) <= MSS * Cardinality(Delivered(s.buf))
  <2> DEFINE K == MSS * Cardinality(Delivered(s.buf))
  <2>1. K \in Nat
    BY <1>6
  <2> HIDE DEF K
  <2>2. rc.credited + Credited(Queue) <= K
    BY <1>3, <1>5, <2>1 DEF Queue
  <2> QED
    BY <2>2 DEF K
<1> QED
  BY <1>1, <1>4, <1>7, <1>8, <1>9 DEF FlowInv, Queue

\* What the handler starts with, and what the rate controller has heard then.
LEMMA BeginCredits ==
  ASSUME FlowInv
  PROVE  LET X == Crediting(rc, resent, s.buf.high, MSS * Cardinality(Delivered(s.buf)))
         IN  /\ BeginView(s) \in X /\ LossView(Begin(s)) \in X
             /\ ReceivedAck => AckedView(Begin(s), Head(acks)) \in X
<1> DEFINE K == MSS * Cardinality(Delivered(s.buf))
           b == Begin(s)
           h == s.buf.high
           a == Head(acks)
           c == BeginView(s).cc
           l == [CongestionStateSet(c, "CA_LOSS") EXCEPT !.cwnd = 1]
           q == s.cc.queue
           w == Aged(q)
<1>1. IInv /\ s.recover <= s.buf.high /\ s.cc \in CongestionControls
      /\ q \in Seq(Intervals) /\ s.buf.high \in 0..N
  BY DEF FlowInv, Reached, IInv, TypeOK, Senders, CongestionControls, Buffers
<1>2. /\ BeginView(s) \in Views /\ LossView(b) \in Views /\ b.cc = c /\ b.buf = s.buf
      /\ ReceivedAck => a \in Acks /\ AckedView(b, a) \in Views
  BY <1>1, HandlerStart
<1>3. c.calls = <<>> /\ c.queue = w /\ c \in CongestionControls
  <2>1. c = [s.cc EXCEPT !.queue = w, !.calls = <<>>] /\ c \in CongestionControls
    BY <1>2 DEF BeginView, Views
  <2> QED
    BY <1>1, <2>1 DEF CongestionControls
<1>4. l.calls = <<>> /\ l.queue = w
  BY <1>3 DEF CongestionStateSet, UpdatePacingRate, CongestionControls
<1>5. /\ w \in Seq(Intervals) /\ Len(w) = Len(q)
      /\ \A i \in 1..Len(q) : w[i].last = q[i].last /\ w[i].first = q[i].first
                              /\ w[i].bytesAcked = q[i].bytesAcked
  <2>1. w \in Seq(Intervals) /\ Len(w) = Len(q)
    BY <1>1, AgedType
  <2>2. \A i \in 1..Len(q) : q[i] \in Intervals /\ w[i] = [q[i] EXCEPT !.fresh = FALSE]
    BY <1>1 DEF Aged
  <2> HIDE DEF w
  <2>3. \A i \in 1..Len(q) : w[i].last = q[i].last /\ w[i].first = q[i].first
                             /\ w[i].bytesAcked = q[i].bytesAcked
    BY <2>2 DEF Intervals
  <2> QED
    BY <2>1, <2>3
<1> HIDE DEF w
<1>6. Credited(w) = Credited(q)
  BY <1>1, <1>5, SameCredits
<1>7. \A d : d.calls = <<>> /\ d.queue = w =>
         /\ Balanced(rc, d)
         /\ resent \/ (Apart(d.queue, SeqNo(h)) /\ Credit(rc, d) <= K)
  <2> SUFFICES ASSUME NEW d, d.calls = <<>>, d.queue = w
               PROVE  /\ Balanced(rc, d)
                      /\ resent \/ (Apart(d.queue, SeqNo(h)) /\ Credit(rc, d) <= K)
    OBVIOUS
  <2>1. Told(rc, d) = rc
    BY HearAllSmall DEF Told
  <2>2. Balanced(rc, d)
    BY <1>5, <2>1 DEF Balanced, FlowInv, FlowTypeOK, DecisionsHaveIntervals, Episode, Queue
  <2>3. \A e : Apart(q, e) => Apart(w, e)
    BY <1>5 DEF Apart
  <2>4. resent \/ (Apart(q, SeqNo(h)) /\ rc.credited + Credited(q) <= K)
    BY DEF FlowInv, Queue
  <2>5. Credit(rc, d) = rc.credited + Credited(q)
    BY <1>6, <2>1 DEF Credit
  <2> QED
    BY <2>2, <2>3, <2>4, <2>5
<1>8. BeginView(s).high = h /\ BeginView(s).tx = <<>>
  BY DEF BeginView
<1>9. LossView(b).cc = l /\ LossView(b).high = h /\ LossView(b).tx = <<>>
  BY <1>2 DEF LossView
<1> HIDE DEF K, l, c
<1>10. BeginView(s) \in Crediting(rc, resent, h, K)
  BY <1>2, <1>3, <1>7, <1>8 DEF Crediting, c
<1>11. LossView(b) \in Crediting(rc, resent, h, K)
  BY <1>2, <1>4, <1>7, <1>9 DEF Crediting
<1>12. ASSUME ReceivedAck
       PROVE  AckedView(b, a) \in Crediting(rc, resent, h, K)
  <2> DEFINE v == AckedView(b, a)
             e == IF a.ack > h THEN a.ack ELSE h
  <2>1. v \in Views /\ v.cc = c /\ v.tx = <<>> /\ v.high = e
    BY <1>2, <1>12 DEF AckedView
  <2>2. e \in Int /\ h \in Int /\ h <= e
    BY <1>1, <1>2, <1>12, TxBufferAssumption DEF Acks
  <2> HIDE DEF e, v
  <2>3. SeqNo(h) <= SeqNo(e) /\ SeqNo(h) \in Int /\ SeqNo(e) \in Int
    BY <2>2, SeqNoGrows, SeqNoType
  <2>4. Apart(w, SeqNo(h)) => Apart(w, SeqNo(e))
    <3> DEFINE x == SeqNo(h)
               y == SeqNo(e)
    <3>1. x \in Int /\ y \in Int /\ x <= y
      BY <2>3
    <3> HIDE DEF x, y
    <3>2. Apart(w, x) => Apart(w, y)
      BY <1>5, <3>1, ApartBelow
    <3> QED
      BY <3>2 DEF x, y
  <2>5. Balanced(rc, c) /\ (resent \/ (Apart(c.queue, SeqNo(e)) /\ Credit(rc, c) <= K))
    BY <1>3, <1>7, <2>4
  <2> QED
    BY <2>1, <2>5 DEF Crediting, v
<1> QED
  BY <1>10, <1>11, <1>12 DEF K

\* The rate controller hears a handler.
LEMMA HandlerCredits ==
  ASSUME FlowInv, RateControllerHears,
         Start \/ ReceivedAck \/ ReTxTimeout \/ PacingTimerExpires
  PROVE  /\ Balanced(rc, s'.cc)
         /\ resent' \/ (/\ Apart(s'.cc.queue, SeqNo(s'.buf.high))
                        /\ Credit(rc, s'.cc) <= MSS * Cardinality(Delivered(s'.buf)))
<1> DEFINE K == MSS * Cardinality(Delivered(s.buf))
           a == Head(acks)
           newly == IF ReceivedAck THEN NewlyDelivered(s.buf, a) ELSE 0
           h == s.buf.high
           X == Crediting(rc, resent, h, K)
           L == K + newly * MSS
           Y == Crediting(rc, resent, h, L)
<1>1. IInv /\ s.recover <= s.buf.high /\ s.buf \in Buffers /\ [Next]_vars
  BY DEF FlowInv, Reached, IInv, TypeOK, Senders, Next
<1>2. ReceivedAck => a \in Acks /\ NewlyDelivered(s.buf, a) \in Nat
  BY <1>1, HandlerStart
<1>3. newly \in Nat /\ (~ReceivedAck => newly = 0)
  BY <1>2
<1>4. K \in Nat /\ MSS \in Nat
  BY <1>1, DeliveredType, PccAssumption
<1>5. L \in Nat /\ (~ReceivedAck => L = K)
  <2> HIDE DEF newly, K
  <2>1. \A x, y, z \in Nat : x + y * z \in Nat /\ x + 0 * z = x
    OBVIOUS
  <2> QED
    BY <1>3, <1>4, <2>1
<1>6. /\ BeginView(s) \in X /\ LossView(Begin(s)) \in X
      /\ ReceivedAck => AckedView(Begin(s), a) \in X
  BY BeginCredits
<1>7. ASSUME ReceivedAck, NEW v \in X
      PROVE  HeardView(v, a, NewlyDelivered(s.buf, a)) \in Y
  <2>1. K \in Int /\ newly = NewlyDelivered(s.buf, a)
    BY <1>4, <1>7
  <2> HIDE DEF K, newly
  <2> QED
    BY <1>2, <1>7, <2>1, CreditingHears
<1>8. /\ ClosedLost(X, s'.buf.una, h) /\ ClosedState(X) /\ ClosedSent(Y, s'.buf.una, h)
  <2>1. K \in Int /\ L \in Int
    BY <1>4, <1>5
  <2> HIDE DEF K, L
  <2> QED
    BY <2>1, CreditingClosed
<1>9. ~ReceivedAck => BeginView(s) \in Y /\ LossView(Begin(s)) \in Y
  BY <1>5, <1>6
<1> HIDE DEF X, Y, K, newly, L
<1>10. In(s', s'.buf.una, s.buf.high, Y)
  BY <1>1, <1>6, <1>7, <1>8, <1>9, HandlerIn DEF a, h
<1>11. View(s') \in Y
  BY <1>10 DEF In
<1>12. View(s').cc = s'.cc /\ View(s').high = s'.buf.high /\ View(s').tx = s'.tx
  BY DEF View
<1>13. /\ Balanced(rc, s'.cc) /\ s'.tx \in Seq(Segments) /\ s'.cc \in CongestionControls
       /\ \/ resent
          \/ \E i \in 1..Len(s'.tx) : s'.tx[i] < h
          \/ Apart(s'.cc.queue, SeqNo(s'.buf.high)) /\ Credit(rc, s'.cc) <= L
  BY <1>11, <1>12 DEF Crediting, Y, Views
<1>14. CASE resent \/ \E i \in 1..Len(s'.tx) : s'.tx[i] < h
  <2>1. DOMAIN s'.tx = 1..Len(s'.tx)
    BY <1>13
  <2>2. resent'
    BY <1>14, <2>1 DEF RateControllerHears, h
  <2> QED
    BY <1>13, <2>2
<1>15. CASE Apart(s'.cc.queue, SeqNo(s'.buf.high)) /\ Credit(rc, s'.cc) <= L
  <2>1. /\ s'.buf \in Buffers
        /\ Cardinality(Delivered(s'.buf)) >= Cardinality(Delivered(s.buf)) + newly
    BY <1>1, DeliveredGrows DEF newly, a
  <2> DEFINE D == Cardinality(Delivered(s.buf))
             E == Cardinality(Delivered(s'.buf))
  <2>2. D \in Nat /\ E \in Nat
    BY <1>1, <2>1, DeliveredType
  <2>3. L = MSS * D + newly * MSS
    BY DEF L, K
  <2>4. E >= D + newly
    BY <2>1
  <2> HIDE DEF D, E
  <2>5. L <= MSS * E
    <3>1. PICK m \in Nat : E = (D + newly) + m
      <4>1. E - (D + newly) \in Nat /\ E = (D + newly) + (E - (D + newly))
        BY <1>3, <2>2, <2>4
      <4> QED
        BY <4>1
    <3>2. \A x, y, z, w \in Nat : x * ((y + z) + w) = (x * y + z * x) + x * w
      OBVIOUS
    <3>3. \A x, y \in Nat : x * y \in Nat
      OBVIOUS
    <3>4. MSS * E = (MSS * D + newly * MSS) + MSS * m
      BY <1>3, <1>4, <2>2, <3>1, <3>2
    <3>5. MSS * m \in Nat
      BY <1>4, <3>3
    <3>6. MSS * E = L + MSS * m
      BY <2>3, <3>4
    <3> QED
      BY <1>5, <3>5, <3>6
  <2>6. MSS * E \in Int /\ Credit(rc, s'.cc) \in Int
    <3>1. Credit(rc, s'.cc) \in Int
      BY <1>13, CreditType
    <3>2. MSS * E \in Nat
      BY <2>1, DeliveredType DEF E
    <3> QED
      BY <3>1, <3>2
  <2>7. Credit(rc, s'.cc) <= MSS * E
    <3> DEFINE x == MSS * E
               y == Credit(rc, s'.cc)
    <3>1. x \in Int /\ y \in Int /\ y <= L /\ L <= x
      BY <1>15, <2>5, <2>6
    <3> HIDE DEF x, y
    <3>2. y <= x
      BY <1>5, <3>1
    <3> QED
      BY <3>2 DEF x, y
  <2> QED
    BY <1>13, <1>15, <2>7 DEF E
<1> QED
  BY <1>13, <1>14, <1>15

\* It hears nothing when the duration of an interval is over.
LEMMA EndCredits ==
  ASSUME FlowInv, RateControllerHears, IntervalEnds
  PROVE  /\ Balanced(rc, s'.cc)
         /\ resent' \/ (/\ Apart(s'.cc.queue, SeqNo(s'.buf.high))
                        /\ Credit(rc, s'.cc) <= MSS * Cardinality(Delivered(s'.buf)))
<1> DEFINE q == s.cc.queue
           w == Aged(q)
           x == s'.cc.queue
<1>1. IInv /\ [Next]_vars
  BY DEF FlowInv, Reached, Next
<1>2. /\ s'.buf = s.buf /\ q \in Seq(Intervals) /\ q # <<>>
      /\ s'.tx = <<>> /\ s'.cc.calls = <<>>
      /\ x = [w EXCEPT ![Len(q)].ended = TRUE]
  BY <1>1, IntervalEndsView
<1>3. IInv'
  BY <1>1, NextIInv
<1>4. x \in Seq(Intervals)
  BY <1>3 DEF IInv, TypeOK, Senders, CongestionControls
<1>5. /\ w \in Seq(Intervals) /\ Len(w) = Len(q)
      /\ \A i \in 1..Len(q) : w[i] = [q[i] EXCEPT !.fresh = FALSE] /\ q[i] \in Intervals
                              /\ w[i] \in Intervals
  <2>1. w \in Seq(Intervals) /\ Len(w) = Len(q)
    BY <1>2, AgedType
  <2>2. \A i \in 1..Len(q) : q[i] \in Intervals /\ w[i] = [q[i] EXCEPT !.fresh = FALSE]
    BY <1>2 DEF Aged
  <2> HIDE DEF w
  <2>3. \A i \in 1..Len(q) : w[i] \in Intervals
    BY <2>1
  <2> QED
    BY <2>1, <2>2, <2>3
<1> HIDE DEF w, x
<1>6. /\ Len(x) = Len(q)
      /\ \A i \in 1..Len(q) : x[i] = w[i] \/ x[i] = [w[i] EXCEPT !.ended = TRUE]
  <2>1. Len(q) \in 1..Len(w)
    BY <1>2, <1>5
  <2>2. x = [w EXCEPT ![Len(q)] = [w[Len(q)] EXCEPT !.ended = TRUE]]
    BY <1>2
  <2> DEFINE n == Len(q)
             m == [w[n] EXCEPT !.ended = TRUE]
  <2>3. x = [w EXCEPT ![n] = m] /\ n \in 1..Len(w) /\ w \in Seq(Intervals)
    BY <1>5, <2>1, <2>2
  <2> HIDE DEF n, m
  <2>4. /\ Len(x) = Len(w) /\ x[n] = m
        /\ \A i \in 1..Len(w) : i # n => x[i] = w[i]
    BY <2>3, Replaced
  <2> QED
    BY <1>5, <2>1, <2>4 DEF n, m
<1>7. \A i \in 1..Len(q) : /\ x[i].last = q[i].last /\ x[i].first = q[i].first
                           /\ x[i].bytesAcked = q[i].bytesAcked
  <2> SUFFICES ASSUME NEW i \in 1..Len(q)
               PROVE  /\ x[i].last = q[i].last /\ x[i].first = q[i].first
                      /\ x[i].bytesAcked = q[i].bytesAcked
    OBVIOUS
  <2>1. /\ w[i].last = q[i].last /\ w[i].first = q[i].first
        /\ w[i].bytesAcked = q[i].bytesAcked /\ w[i] \in Intervals
    BY <1>5 DEF Intervals
  <2>2. x[i] = w[i] \/ x[i] = [w[i] EXCEPT !.ended = TRUE]
    BY <1>6
  <2> QED
    BY <2>1, <2>2 DEF Intervals
<1>8. Credited(x) = Credited(q)
  BY <1>2, <1>4, <1>6, <1>7, SameCredits
<1>9. Told(rc, s'.cc) = rc
  BY <1>2, HearAllSmall DEF Told
<1>10. Balanced(rc, s'.cc)
  BY <1>6, <1>9
     DEF x, Balanced, FlowInv, FlowTypeOK, DecisionsHaveIntervals, Episode, Queue
<1>11. resent => resent'
  BY DEF RateControllerHears
<1>12. resent \/ /\ Apart(q, SeqNo(s.buf.high))
                 /\ rc.credited + Credited(q) <= MSS * Cardinality(Delivered(s.buf))
  BY DEF FlowInv, Queue
<1>13. Apart(q, SeqNo(s.buf.high)) => Apart(x, SeqNo(s.buf.high))
  BY <1>6, <1>7 DEF Apart
<1>14. Credit(rc, s'.cc) = rc.credited + Credited(q)
  BY <1>8, <1>9 DEF Credit, x
<1> QED
  BY <1>2, <1>10, <1>11, <1>12, <1>13, <1>14 DEF x

\* Every step of the flow keeps its invariant.
LEMMA NextFlowInv ==
  ASSUME FlowInv, [FlowNext]_flowVars
  PROVE  FlowInv'
<1>1. Reached'
  <2>1. IInv /\ s.recover <= s.buf.high /\ [Next]_vars
    BY FlowIsSender DEF FlowInv, Reached
  <2> QED
    BY <2>1, NextIInv, RecoverKept DEF Reached
<1>2. ASSUME RateControllerHears,
             Start \/ ReceivedAck \/ ReTxTimeout \/ PacingTimerExpires \/ IntervalEnds
      PROVE  FlowInv'
  <2>1. /\ Balanced(rc, s'.cc)
        /\ resent' \/ (/\ Apart(s'.cc.queue, SeqNo(s'.buf.high))
                       /\ Credit(rc, s'.cc) <= MSS * Cardinality(Delivered(s'.buf)))
    BY <1>2, HandlerCredits, EndCredits
  <2>2. rc' = Told(rc, s'.cc)
    BY <1>2 DEF RateControllerHears, Told
  <2>3. resent' \in BOOLEAN
    BY <1>2 DEF RateControllerHears
  <2>4. FlowTypeOK' /\ DecisionsHaveIntervals'
    BY <2>1, <2>2, <2>3 DEF Balanced, Episode, FlowTypeOK, DecisionsHaveIntervals, Queue
  <2>5. Credit(rc, s'.cc) = rc'.credited + Credited(Queue')
    BY <2>2 DEF Credit, Queue
  <2> QED
    BY <1>1, <2>1, <2>4, <2>5 DEF FlowInv, Queue
<1>3. ASSUME s' = s, rc' = rc, resent' = resent
      PROVE  FlowInv'
  BY <1>1, <1>3 DEF FlowInv, FlowTypeOK, DecisionsHaveIntervals, Queue
<1> QED
  BY <1>2, <1>3 DEF FlowNext, flowVars, vars, ReceivedData, DelAckTimeout, Drop

\* So it always holds.
LEMMA FlowAlways == FlowSpec => []FlowInv
<1>1. FlowInit => FlowInv
  BY InitFlowInv
<1>2. FlowInv /\ [FlowNext]_flowVars => FlowInv'
  BY NextFlowInv
<1> QED
  BY <1>1, <1>2, PTL DEF FlowSpec

\* The rate controller's records are of their types in every reachable state, and the
\* episode is over with the last decision it has steps for, not one earlier or later.
THEOREM FlowTypeCorrect == FlowSpec => []FlowTypeOK
<1>1. FlowInv => FlowTypeOK
  BY DEF FlowInv
<1> QED
  BY <1>1, FlowAlways, PTL

\* Whatever is lost, acknowledged or waited for: as long as the episode goes on, each
\* decision the agent made was reported once or has its interval in the queue.
THEOREM DecisionsCorrect == FlowSpec => []DecisionsHaveIntervals
<1>1. FlowInv => DecisionsHaveIntervals
  BY DEF FlowInv
<1> QED
  BY <1>1, FlowAlways, PTL

\* Until a segment is sent a second time, all intervals together, those reported and
\* those in the queue, are credited with no more than the receiver is known to have.
THEOREM CreditedCorrect == FlowSpec => []CreditedOnce
<1>1. FlowInv => CreditedOnce
  BY DEF FlowInv, CreditedOnce, Delivered
<1> QED
  BY <1>1, FlowAlways, PTL

-----------------------------------------------------------------------------
\* The times of an interval, until a segment is sent a second time.

\* The intervals of which no segment has been sent twice, when high is the next new
\* segment: they sent full segments, one beyond the other; what they were credited
\* with, b at most, is a segment or more; an interval that has accounted for anything has
\* both ends of its time; and one without credit has them from a single handler.
Timed(high, b) ==
  {mi \in Intervals :
     /\ mi.nSent > 0 /\ 0 <= mi.first /\ mi.first <= mi.last
     /\ mi.bytesSent = mi.nSent * MSS /\ mi.bytesSent <= mi.last - mi.first + MSS
     /\ mi.last + MSS <= SeqNo(high)
     /\ mi.bytesAcked # 0 => MSS <= mi.bytesAcked /\ mi.bytesAcked <= b
     /\ mi.nAcc # 0 => mi.firstAck /\ mi.lastAck
     /\ mi.bytesAcked = 0 => (mi.firstAck => mi.lastAck) /\ ~mi.apart}

\* A report of which ThroughputSound holds.
Timely(mi) == mi.firstAck /\ mi.lastAck /\ RecvRate(mi) # "wrapped"

\* Full segments have the size of one on average.
LEMMA AverageIsSegment ==
  \A n \in Nat \ {0} : (n * MSS) \div n = MSS
<1> SUFFICES ASSUME NEW n \in Nat \ {0}
             PROVE  (n * MSS) \div n = MSS
  OBVIOUS
<1>1. MSS \in Nat
  BY PccAssumption
<1>2. \A m \in Nat : (n * m) \div n = m
  OBVIOUS
<1> QED
  BY <1>1, <1>2

\* An interval is reported when everything is accounted for.
LEMMA ReportedTimely ==
  ASSUME NEW high, NEW b, NEW mi \in Timed(high, b), AllPacketsAccountedFor(mi)
  PROVE  Timely(mi)
<1>1. /\ mi \in Intervals /\ mi.nSent \in Nat \ {0} /\ mi.nAcc # 0
      /\ mi.bytesSent = mi.nSent * MSS /\ mi.bytesAcked \in Nat
  BY DEF Timed, Intervals, AllPacketsAccountedFor
<1>2. mi.firstAck /\ mi.lastAck
  BY <1>1 DEF Timed
<1>3. GetAveragePacketSize(mi) = MSS
  BY <1>1, AverageIsSegment DEF GetAveragePacketSize
<1>4. mi.bytesAcked = 0 => ~mi.apart
  BY DEF Timed
<1>5. mi.bytesAcked # 0 => ~(mi.bytesAcked < MSS)
  BY <1>1, PccAssumption DEF Timed
<1>6. RecvRate(mi) # "wrapped"
  BY <1>3, <1>4, <1>5 DEF RecvRate
<1> QED
  BY <1>2, <1>6 DEF Timely

\* What is known of the numbers of a new segment.
LEMMA NewNumber ==
  ASSUME NEW high \in 0..N-1, End < UintMod
  PROVE  /\ SeqNo(high) \in Nat /\ SeqNo(high + 1) = SeqNo(high) + MSS
         /\ SeqNo(high) + MSS < UintMod /\ MSS \in Nat \ {0} /\ UintMod \in Nat
<1>1. high \in Int /\ high + 1 \in 0..N /\ high \in 0..N /\ N \in Int
  BY TxBufferAssumption
<1>2. MSS \in Nat \ {0} /\ UintMod \in Nat
  BY PccAssumption, UintModAssumption
<1>3. SeqNo(high) \in 0..End /\ SeqNo(high + 1) \in 0..End /\ End \in Nat
  BY <1>1, SeqNoWithin
<1>4. \A x, y \in Int : (x + 1) * y = x * y + y
  OBVIOUS
<1>5. SeqNo(high + 1) = SeqNo(high) + MSS
  BY <1>1, <1>2, <1>4 DEF SeqNo
<1> QED
  BY <1>2, <1>3, <1>5

\* A new interval's first packet.
LEMMA FirstTimed ==
  ASSUME NEW high \in 0..N-1, NEW b \in Nat, End < UintMod
  PROVE  MISent(NewInterval, SeqNo(high), MSS) \in Timed(high + 1, b)
<1> DEFINE p == SeqNo(high)
           m == MISent(NewInterval, p, MSS)
           e == SeqNo(high + 1)
<1>1. /\ p \in Nat /\ e = p + MSS /\ p + MSS < UintMod /\ MSS \in Nat \ {0}
      /\ UintMod \in Nat
  BY NewNumber
<1> HIDE DEF p, e
<1>2. U32(0 + 1) = 1 /\ U32(0 + MSS) = MSS
  <2>1. 0 + 1 \in Nat /\ 0 + 1 < UintMod /\ 0 + MSS \in Nat /\ 0 + MSS < UintMod
    BY <1>1
  <2>2. U32(0 + 1) = 0 + 1 /\ U32(0 + MSS) = 0 + MSS
    BY <2>1, Unwrapped
  <2> QED
    BY <1>1, <2>2
<1>3. m \in Intervals
  <2>1. p \in Int /\ NewInterval \in Intervals
    BY <1>1, NewIntervalType
  <2> QED
    BY <2>1, HearingType
<1>4. /\ m.nSent = 1 /\ m.first = p /\ m.last = p /\ m.bytesSent = MSS
      /\ m.bytesAcked = 0 /\ m.nAcc = 0 /\ m.firstAck = FALSE /\ m.apart = FALSE
  BY <1>2 DEF MISent, NewInterval
<1> HIDE DEF m
<1>5. m \in Timed(high + 1, b)
  BY <1>1, <1>3, <1>4 DEF Timed, e
<1> QED
  BY <1>5 DEF m, p

\* A later packet.
LEMMA SentTimed ==
  ASSUME NEW high \in 0..N-1, NEW b \in Nat, End < UintMod, NEW mi \in Timed(high, b)
  PROVE  MISent(mi, SeqNo(high), MSS) \in Timed(high + 1, b)
<1> DEFINE p == SeqNo(high)
           m == MISent(mi, p, MSS)
           e == SeqNo(high + 1)
<1>1. /\ p \in Nat /\ e = p + MSS /\ p + MSS < UintMod /\ MSS \in Nat \ {0}
      /\ UintMod \in Nat
  BY NewNumber
<1>2. mi \in Intervals /\ mi.last + MSS <= p
  BY DEF Timed
<1> HIDE DEF p, e
<1>3. /\ mi.nSent \in Nat /\ mi.bytesSent \in Nat /\ mi.first \in Int /\ mi.last \in Int
      /\ mi.nSent # 0 /\ 0 <= mi.first /\ mi.first <= mi.last
      /\ mi.bytesSent = mi.nSent * MSS /\ mi.bytesSent <= mi.last - mi.first + MSS
  BY <1>2 DEF Timed, Intervals
<1>4. mi.bytesSent + MSS <= p - mi.first + MSS
  BY <1>1, <1>2, <1>3
<1>5. U32(mi.bytesSent + MSS) = mi.bytesSent + MSS
  <2>1. mi.bytesSent + MSS \in Nat /\ mi.bytesSent + MSS < UintMod
    BY <1>1, <1>3, <1>4
  <2> QED
    BY <2>1, Unwrapped
<1>6. (mi.nSent + 1) * MSS = mi.bytesSent + MSS
  <2>1. \A x, y \in Int : (x + 1) * y = x * y + y
    OBVIOUS
  <2> QED
    BY <1>1, <1>3, <2>1
<1>7. U32(mi.nSent + 1) = mi.nSent + 1
  <2>1. \A x, y \in Nat : y # 0 => x <= x * y
    <3> SUFFICES ASSUME NEW x \in Nat, NEW y \in Nat, y # 0
                 PROVE  x <= x * y
      OBVIOUS
    <3>1. PICK z \in Nat : y = z + 1
      <4>1. y - 1 \in Nat /\ y = (y - 1) + 1
        OBVIOUS
      <4> QED
        BY <4>1
    <3>2. \A u, v \in Nat : u * (v + 1) = u * v + u /\ u * v \in Nat
      OBVIOUS
    <3> QED
      BY <3>1, <3>2
  <2>2. mi.nSent + 1 <= mi.bytesSent + MSS
    BY <1>1, <1>3, <2>1
  <2>3. mi.nSent + 1 \in Nat /\ mi.nSent + 1 < UintMod
    BY <1>1, <1>3, <1>4, <2>2
  <2> QED
    BY <2>3, Unwrapped
<1>8. m \in Intervals
  <2>1. p \in Int
    BY <1>1
  <2> QED
    BY <1>2, <2>1, HearingType
<1>9. /\ m.nSent = mi.nSent + 1 /\ m.first = mi.first /\ m.last = p
      /\ m.bytesSent = mi.bytesSent + MSS
      /\ m.bytesAcked = mi.bytesAcked /\ m.nAcc = mi.nAcc
      /\ m.firstAck = mi.firstAck /\ m.lastAck = mi.lastAck /\ m.apart = mi.apart
  BY <1>2, <1>3, <1>5, <1>7 DEF MISent, Intervals
<1> HIDE DEF m
<1>10. /\ m.nSent > 0 /\ 0 <= m.first /\ m.first <= m.last
       /\ m.bytesSent = m.nSent * MSS /\ m.bytesSent <= m.last - m.first + MSS
       /\ m.last + MSS <= e
  BY <1>1, <1>2, <1>3, <1>4, <1>6, <1>9
<1>11. /\ m.bytesAcked # 0 => MSS <= m.bytesAcked /\ m.bytesAcked <= b
       /\ m.nAcc # 0 => m.firstAck /\ m.lastAck
       /\ m.bytesAcked = 0 => (m.firstAck => m.lastAck) /\ ~m.apart
  BY <1>9 DEF Timed
<1>12. m \in Timed(high + 1, b)
  BY <1>8, <1>10, <1>11 DEF Timed, e
<1> QED
  BY <1>12 DEF m, p

\* What OnPacketAcked does to the times and to the credit.
LEMMA AckedTimes ==
  ASSUME NEW mi \in Intervals, NEW p \in Int, NEW sz \in Int, mi.first <= mi.last
  PROVE  LET m == MIAcked(mi, p, sz)
         IN  /\ m \in Intervals
             /\ m.first = mi.first /\ m.last = mi.last /\ m.nSent = mi.nSent
             /\ m.bytesSent = mi.bytesSent
             /\ ContainsPacket(mi, p) =>
                  /\ m.bytesAcked = U32(mi.bytesAcked + sz)
                  /\ m.firstAck /\ m.lastAck
             /\ ~ContainsPacket(mi, p) => m.bytesAcked = mi.bytesAcked
             /\ p > mi.last =>
                  /\ m.firstAck /\ m.lastAck
                  /\ ~mi.lastAck /\ ~mi.firstAck => ~m.apart
             /\ ~ContainsPacket(mi, p) /\ (mi.lastAck \/ p < mi.first) =>
                  (m.apart => mi.apart)
             /\ p < mi.first =>
                  /\ m.firstAck = mi.firstAck /\ m.lastAck = mi.lastAck
                  /\ m.nAcc = mi.nAcc
<1> DEFINE t == TimeAcks(mi, p)
           a == Account(mi, p)
           m == MIAcked(mi, p, sz)
<1>1. /\ t \in Intervals /\ a \in Intervals /\ m \in Intervals
      /\ mi.first \in Int /\ mi.last \in Int
  BY TimeAcksType, AccountType, MIAckedType DEF Intervals
<1>2. /\ t.first = mi.first /\ t.last = mi.last /\ t.nSent = mi.nSent
      /\ t.bytesSent = mi.bytesSent /\ t.bytesAcked = mi.bytesAcked /\ t.nAcc = mi.nAcc
      /\ t.firstAck = (mi.firstAck \/ p >= mi.first)
      /\ t.lastAck = (mi.lastAck \/ p >= mi.last)
      /\ t.apart = IF p >= mi.last /\ ~mi.lastAck THEN NowIsLater(mi, p)
                   ELSE mi.apart /\ (mi.firstAck \/ p < mi.first)
  BY DEF TimeAcks, Intervals
<1> HIDE DEF t
<1>3. /\ a.first = t.first /\ a.last = t.last /\ a.nSent = t.nSent
      /\ a.bytesSent = t.bytesSent /\ a.bytesAcked = t.bytesAcked
      /\ a.firstAck = t.firstAck /\ a.lastAck = t.lastAck /\ a.apart = t.apart
      /\ a.nAcc = IF ContainsPacket(mi, p) THEN U32(t.nAcc + (p - mi.lastAcc))
                  ELSE IF p > mi.last THEN mi.nSent ELSE t.nAcc
  BY <1>1 DEF Account, t, Intervals
<1> HIDE DEF a
<1>4. CASE ContainsPacket(mi, p)
  <2>1. m = [a EXCEPT !.bytesAcked = U32(@ + sz), !.sampled = TRUE,
                      !.lastAck = TRUE, !.apart = NowIsLater(mi, p)]
    BY <1>4 DEF MIAcked, a
  <2>2. /\ m.first = a.first /\ m.last = a.last /\ m.nSent = a.nSent
        /\ m.bytesSent = a.bytesSent /\ m.bytesAcked = U32(a.bytesAcked + sz)
        /\ m.firstAck = a.firstAck /\ m.lastAck = TRUE
    BY <1>1, <2>1 DEF Intervals
  <2>3. p >= mi.first /\ ~(p > mi.last) /\ ~(p < mi.first)
    BY <1>1, <1>4 DEF ContainsPacket
  <2> HIDE DEF m
  <2>4. /\ m.first = mi.first /\ m.last = mi.last /\ m.nSent = mi.nSent
        /\ m.bytesSent = mi.bytesSent /\ m.bytesAcked = U32(mi.bytesAcked + sz)
        /\ m.firstAck /\ m.lastAck
    BY <1>2, <1>3, <2>2, <2>3
  <2> QED
    BY <1>1, <1>4, <2>3, <2>4 DEF m
<1>5. CASE ~ContainsPacket(mi, p)
  <2>1. m = a
    BY <1>5 DEF MIAcked, a
  <2> HIDE DEF m
  <2>2. p > mi.last \/ p < mi.first
    BY <1>1, <1>5 DEF ContainsPacket
  <2>3. CASE p > mi.last
    <3>1. p >= mi.last /\ p >= mi.first /\ ~(p < mi.first)
      BY <1>1, <2>3
    <3>2. ~mi.firstAck => ~NowIsLater(mi, p)
      BY <3>1 DEF NowIsLater
    <3> QED
      BY <1>1, <1>2, <1>3, <1>5, <2>1, <2>3, <3>1, <3>2 DEF m
  <2>4. CASE p < mi.first
    <3>1. ~(p >= mi.last) /\ ~(p >= mi.first) /\ ~(p > mi.last)
      BY <1>1, <2>4
    <3>2. mi.firstAck \in BOOLEAN /\ mi.lastAck \in BOOLEAN
      BY DEF Intervals
    <3>3. a.firstAck = mi.firstAck /\ a.lastAck = mi.lastAck /\ a.nAcc = mi.nAcc
          /\ (a.apart => mi.apart)
      BY <1>2, <1>3, <1>5, <3>1, <3>2
    <3> QED
      BY <1>1, <1>2, <1>3, <1>5, <2>1, <2>4, <3>1, <3>3 DEF m
  <2> QED
    BY <2>2, <2>3, <2>4
<1> QED
  BY <1>4, <1>5

\* An ACK that reports something is heard.
LEMMA HeardTimed ==
  ASSUME NEW high, NEW b \in Nat, NEW p \in Int, NEW sz \in Nat, MSS <= sz,
         b + sz < UintMod, NEW mi \in Timed(high, b)
  PROVE  MIAcked(mi, p, sz) \in Timed(high, b + sz) /\ mi \in Timed(high, b + sz)
<1> DEFINE m == MIAcked(mi, p, sz)
<1>1. /\ mi \in Intervals /\ mi.first <= mi.last /\ mi.bytesAcked \in Nat
      /\ mi.first \in Int /\ mi.last \in Int /\ mi.nAcc \in Int
      /\ MSS \in Nat \ {0} /\ sz \in Int
  BY PccAssumption DEF Timed, Intervals
<1>2. /\ mi.nSent > 0 /\ 0 <= mi.first
      /\ mi.bytesSent = mi.nSent * MSS /\ mi.bytesSent <= mi.last - mi.first + MSS
      /\ mi.last + MSS <= SeqNo(high)
      /\ mi.bytesAcked # 0 => MSS <= mi.bytesAcked /\ mi.bytesAcked <= b
      /\ mi.nAcc # 0 => mi.firstAck /\ mi.lastAck
      /\ mi.bytesAcked = 0 => (mi.firstAck => mi.lastAck) /\ ~mi.apart
  BY DEF Timed
<1>3. mi.bytesAcked <= b + sz
  BY <1>1, <1>2
<1>4. mi \in Timed(high, b + sz)
  BY <1>1, <1>2, <1>3 DEF Timed
<1>5. /\ m \in Intervals
      /\ m.first = mi.first /\ m.last = mi.last /\ m.nSent = mi.nSent
      /\ m.bytesSent = mi.bytesSent
      /\ ContainsPacket(mi, p) =>
           /\ m.bytesAcked = U32(mi.bytesAcked + sz)
           /\ m.firstAck /\ m.lastAck
      /\ ~ContainsPacket(mi, p) => m.bytesAcked = mi.bytesAcked
      /\ p > mi.last =>
           /\ m.firstAck /\ m.lastAck
           /\ ~mi.lastAck /\ ~mi.firstAck => ~m.apart
      /\ ~ContainsPacket(mi, p) /\ (mi.lastAck \/ p < mi.first) =>
           (m.apart => mi.apart)
      /\ p < mi.first =>
           /\ m.firstAck = mi.firstAck /\ m.lastAck = mi.lastAck
           /\ m.nAcc = mi.nAcc
  BY <1>1, AckedTimes
<1> HIDE DEF m
<1>6. /\ m.nSent > 0 /\ 0 <= m.first /\ m.first <= m.last
      /\ m.bytesSent = m.nSent * MSS /\ m.bytesSent <= m.last - m.first + MSS
      /\ m.last + MSS <= SeqNo(high)
  BY <1>1, <1>2, <1>5
<1>7. CASE ContainsPacket(mi, p)
  <2>1. mi.bytesAcked + sz \in Nat /\ mi.bytesAcked + sz < UintMod
    BY <1>1, <1>2, <1>3, UintModAssumption
  <2>2. m.bytesAcked = mi.bytesAcked + sz
    BY <1>5, <1>7, <2>1, Unwrapped
  <2>3. MSS <= m.bytesAcked /\ m.bytesAcked <= b + sz /\ m.bytesAcked # 0
    BY <1>1, <1>2, <2>2
  <2> QED
    BY <1>4, <1>5, <1>6, <1>7, <2>3 DEF Timed, m
<1>8. CASE ~ContainsPacket(mi, p)
  <2>1. m.bytesAcked = mi.bytesAcked
    BY <1>5, <1>8
  <2>2. p > mi.last \/ p < mi.first
    BY <1>1, <1>8 DEF ContainsPacket
  <2>3. m.nAcc # 0 => m.firstAck /\ m.lastAck
    BY <1>2, <1>5, <2>2
  <2>4. m.bytesAcked = 0 => (m.firstAck => m.lastAck) /\ ~m.apart
    BY <1>2, <1>5, <1>8, <2>1, <2>2
  <2>5. m.bytesAcked # 0 => MSS <= m.bytesAcked /\ m.bytesAcked <= b + sz
    BY <1>2, <1>3, <2>1
  <2>6. m \in Timed(high, b + sz)
    BY <1>5, <1>6, <2>3, <2>4, <2>5 DEF Timed
  <2> QED
    BY <1>4, <2>6 DEF m
<1> QED
  BY <1>7, <1>8

-----------------------------------------------------------------------------
\* The congestion control whose queue holds such intervals, and whose reports are
\* timely.
TimedCC(c, high, b) ==
  /\ \A i \in 1..Len(c.queue) : c.queue[i] \in Timed(high, b)
  /\ \A i \in 1..Len(c.calls) : c.calls[i] # Asked => Timely(c.calls[i].mi)

\* A new segment is sent.
LEMMA SentTimedCC ==
  ASSUME NEW c \in CongestionControls, NEW high \in 0..N-1, NEW r \in Rates,
         NEW b \in Nat, End < UintMod, TimedCC(c, high, b)
  PROVE  TimedCC(OnPacketSent(c, high, r), high + 1, b)
<1> DEFINE d == OnPacketSent(c, high, r)
           q == c.queue
           p == SeqNo(high)
<1>1. high \in Int /\ q \in Seq(Intervals) /\ c.calls \in Seq(Calls) /\ Len(q) \in Nat
  BY TxBufferAssumption DEF CongestionControls
<1>2. /\ d \in CongestionControls
      /\ c.waitMode => d = c
      /\ ~c.waitMode =>
           \/ /\ d.calls = Append(c.calls, Asked)
              /\ Len(d.queue) = Len(q) + 1
              /\ d.queue[Len(q) + 1] = MISent(NewInterval, p, MSS)
              /\ \A i \in 1..Len(q) : d.queue[i] = q[i]
           \/ /\ d.calls = c.calls /\ q # <<>>
              /\ Len(d.queue) = Len(q)
              /\ d.queue[Len(q)] = MISent(q[Len(q)], p, MSS)
              /\ \A i \in 1..Len(q)-1 : d.queue[i] = q[i]
  BY <1>1, SentShape
<1>3. \A mi \in Timed(high, b) : mi \in Timed(high + 1, b)
  <2> SUFFICES ASSUME NEW mi \in Timed(high, b)
               PROVE  mi \in Timed(high + 1, b)
    OBVIOUS
  <2>1. mi \in Intervals /\ mi.last + MSS <= SeqNo(high) /\ mi.last + MSS \in Int
    BY PccAssumption DEF Timed, Intervals
  <2>2. mi.last + MSS <= SeqNo(high + 1)
    BY <2>1, NewNumber
  <2> QED
    BY <2>2 DEF Timed
<1>4. MISent(NewInterval, p, MSS) \in Timed(high + 1, b)
  BY FirstTimed
<1>5. \A mi \in Timed(high, b) : MISent(mi, p, MSS) \in Timed(high + 1, b)
  BY SentTimed
<1>6. \A i \in 1..Len(q) : q[i] \in Timed(high, b)
  BY DEF TimedCC
<1>7. \A i \in 1..Len(c.calls) : c.calls[i] # Asked => Timely(c.calls[i].mi)
  BY DEF TimedCC
<1> HIDE DEF d, q, p
<1>8. CASE c.waitMode
  BY <1>2, <1>3, <1>6, <1>7, <1>8 DEF TimedCC, d, q
<1>9. CASE /\ d.calls = Append(c.calls, Asked)
           /\ Len(d.queue) = Len(q) + 1
           /\ d.queue[Len(q) + 1] = MISent(NewInterval, p, MSS)
           /\ \A i \in 1..Len(q) : d.queue[i] = q[i]
  <2>1. \A i \in 1..Len(d.calls) : d.calls[i] # Asked => Timely(d.calls[i].mi)
    BY <1>1, <1>7, <1>9
  <2>2. \A i \in 1..Len(d.queue) : i \in 1..Len(q) \/ i = Len(q) + 1
    BY <1>1, <1>9
  <2> QED
    BY <1>3, <1>4, <1>6, <1>9, <2>1, <2>2 DEF TimedCC, d
<1>10. CASE /\ d.calls = c.calls /\ q # <<>>
            /\ Len(d.queue) = Len(q)
            /\ d.queue[Len(q)] = MISent(q[Len(q)], p, MSS)
            /\ \A i \in 1..Len(q)-1 : d.queue[i] = q[i]
  <2>1. Len(q) \in 1..Len(q) /\ \A i \in 1..Len(q) : i \in 1..Len(q)-1 \/ i = Len(q)
    BY <1>1, <1>10
  <2> QED
    BY <1>3, <1>5, <1>6, <1>7, <1>10, <2>1 DEF TimedCC, d
<1> QED
  BY <1>2, <1>8, <1>9, <1>10

\* What has finished is reported.
LEMMA CheckTimed ==
  ASSUME NEW c \in CongestionControls, NEW high, NEW b, TimedCC(c, high, b)
  PROVE  TimedCC(CheckMonitoringInterval(c), high, b)
<1> DEFINE q == c.queue
           n == FinishedPrefix(q)
           x == [i \in 1..n |-> Reported(q[i])]
           d == CheckMonitoringInterval(c)
           w == SubSeq(q, n + 1, Len(q))
<1>1. q \in Seq(Intervals) /\ c.calls \in Seq(Calls) /\ Len(q) \in Nat
  BY DEF CongestionControls
<1>2. n \in 0..Len(q) /\ \A i \in 1..n : AllPacketsAccountedFor(q[i])
  BY <1>1, FinishedPrefixExists
<1>3. d.queue = w /\ d.calls = c.calls \o x
  BY DEF CheckMonitoringInterval, Pending, CongestionControls
<1>4. x \in Seq(Calls) /\ Len(x) = n /\ \A i \in 1..n : x[i] = Reported(q[i])
  <2>1. x \in Seq(Calls)
    BY <1>1, FinishedPendingType
  <2> QED
    BY <1>2, <2>1
<1> HIDE DEF n, x, d
<1>5. Len(w) = Len(q) - n /\ \A i \in 1..Len(w) : w[i] = q[n + i] /\ n + i \in 1..Len(q)
  <2>1. /\ Len(w) = Len(q) - n /\ \A i \in 1..Len(q)-n : w[i] = q[n + i]
    BY <1>1, <1>2, SplitCredits
  <2>2. \A i \in 1..Len(q)-n : n + i \in 1..Len(q)
    BY <1>1, <1>2
  <2> QED
    BY <2>1, <2>2
<1> HIDE DEF w, q
<1>6. \A i \in 1..Len(q) : q[i] \in Timed(high, b)
  BY DEF TimedCC, q
<1>7. \A i \in 1..n : Timely(x[i].mi)
  <2> SUFFICES ASSUME NEW i \in 1..n
               PROVE  Timely(x[i].mi)
    OBVIOUS
  <2>1. i \in 1..Len(q)
    BY <1>1, <1>2
  <2>2. Timely(q[i])
    BY <1>2, <1>6, <2>1, ReportedTimely
  <2> QED
    BY <1>4, <2>2 DEF Reported
<1>8. \A i \in 1..Len(c.calls) : c.calls[i] # Asked => Timely(c.calls[i].mi)
  BY DEF TimedCC
<1>9. \A i \in 1..Len(d.calls) : d.calls[i] # Asked => Timely(d.calls[i].mi)
  <2> SUFFICES ASSUME NEW i \in 1..Len(d.calls), d.calls[i] # Asked
               PROVE  Timely(d.calls[i].mi)
    OBVIOUS
  <2>1. Len(d.calls) = Len(c.calls) + n /\ Len(c.calls) \in Nat /\ n \in Nat
    <3>1. \A y, z \in Seq(Calls) : Len(y \o z) = Len(y) + Len(z)
      OBVIOUS
    <3>2. Len(c.calls \o x) = Len(c.calls) + Len(x)
      BY <1>1, <1>4, <3>1
    <3>3. n \in Nat
      BY <1>1, <1>2
    <3>4. Len(c.calls) \in Nat
      BY <1>1
    <3> QED
      BY <1>3, <1>4, <3>2, <3>3, <3>4
  <2>2. CASE i \in 1..Len(c.calls)
    <3>1. d.calls[i] = c.calls[i]
      BY <1>1, <1>3, <1>4, <2>2
    <3> QED
      BY <1>8, <2>2, <3>1
  <2>3. CASE i \notin 1..Len(c.calls)
    <3>1. i - Len(c.calls) \in 1..n /\ d.calls[i] = x[i - Len(c.calls)]
      BY <1>1, <1>3, <1>4, <2>1, <2>3
    <3> QED
      BY <1>7, <3>1
  <2> QED
    BY <2>2, <2>3
<1>10. \A i \in 1..Len(d.queue) : d.queue[i] \in Timed(high, b)
  BY <1>3, <1>5, <1>6
<1> QED
  BY <1>9, <1>10 DEF TimedCC, d

\* An ACK that reports something is heard.
LEMMA HeardTimedCC ==
  ASSUME NEW c \in CongestionControls, NEW high, NEW b \in Nat, TimedCC(c, high, b),
         NEW ack \in Int, NEW newly \in Nat \ {0}, b + newly * MSS < UintMod
  PROVE  TimedCC(CongControl(c, ack, newly), high, b + newly * MSS)
<1> DEFINE p == SeqNo(ack)
           sz == newly * MSS
           q == c.queue
           w == QueueAcked(q, p, sz)
           d == [c EXCEPT !.queue = w]
<1>1. p \in Int /\ sz \in Nat /\ sz \in Int /\ MSS <= sz
  <2>1. \A x \in Nat \ {0}, y \in Nat : x * y \in Nat /\ y <= x * y
    <3> SUFFICES ASSUME NEW x \in Nat \ {0}, NEW y \in Nat
                 PROVE  x * y \in Nat /\ y <= x * y
      OBVIOUS
    <3>1. PICK z \in Nat : x = z + 1
      <4>1. x - 1 \in Nat /\ x = (x - 1) + 1
        OBVIOUS
      <4> QED
        BY <4>1
    <3>2. \A u, v \in Nat : (u + 1) * v = u * v + v /\ u * v \in Nat
      OBVIOUS
    <3> QED
      BY <3>1, <3>2
  <2>2. MSS \in Nat
    BY PccAssumption
  <2> QED
    BY <2>1, <2>2, SeqNoType
<1>2. b + sz < UintMod
  OBVIOUS
<1> HIDE DEF p, sz
<1>3. q \in Seq(Intervals) /\ Len(q) \in Nat
  BY DEF CongestionControls
<1>4. \A mi \in Timed(high, b) :
        MIAcked(mi, p, sz) \in Timed(high, b + sz) /\ mi \in Timed(high, b + sz)
  BY <1>1, <1>2, HeardTimed
<1>5. \A i \in 1..Len(q) : q[i] \in Timed(high, b)
  BY DEF TimedCC
<1>6. /\ w \in Seq(Intervals) /\ Len(w) = Len(q)
      /\ \A i \in 1..Len(q) :
           w[i] = IF AllPacketsAccountedFor(q[i]) THEN q[i] ELSE MIAcked(q[i], p, sz)
  <2>1. w \in Seq(Intervals) /\ Len(w) = Len(q)
    BY <1>1, <1>3, QueueAckedType
  <2>2. DOMAIN q = 1..Len(q)
    BY <1>3
  <2> QED
    BY <2>1, <2>2 DEF QueueAcked
<1> HIDE DEF w
<1>7. d \in CongestionControls /\ d.queue = w /\ d.calls = c.calls
  BY <1>6 DEF CongestionControls
<1>8. CongControl(c, ack, newly) = IF c.waitMode THEN c ELSE CheckMonitoringInterval(d)
  BY DEF CongControl, d, w, q, p, sz
<1> HIDE DEF d, q
<1>9. TimedCC(c, high, b + sz)
  BY <1>4, <1>5 DEF TimedCC, q
<1>10. TimedCC(d, high, b + sz)
  BY <1>4, <1>5, <1>6, <1>7 DEF TimedCC
<1>11. TimedCC(CheckMonitoringInterval(d), high, b + sz)
  BY <1>7, <1>10, CheckTimed
<1> QED
  BY <1>8, <1>9, <1>11 DEF sz

\* More credit may be given.
LEMMA TimedGrows ==
  ASSUME NEW c, NEW high, NEW a \in Nat, NEW b \in Nat, a <= b, TimedCC(c, high, a)
  PROVE  TimedCC(c, high, b)
<1>1. \A mi \in Timed(high, a) : mi \in Timed(high, b)
  <2> SUFFICES ASSUME NEW mi \in Timed(high, a)
               PROVE  mi \in Timed(high, b)
    OBVIOUS
  <2>1. mi.bytesAcked \in Nat
    BY DEF Timed, Intervals
  <2>2. mi.bytesAcked # 0 => mi.bytesAcked <= b
    BY <2>1 DEF Timed
  <2> QED
    BY <2>2 DEF Timed
<1> QED
  BY <1>1 DEF TimedCC

\* A handler begins, or the duration of an interval ends: the accounting stays.
LEMMA SameTimed ==
  ASSUME NEW high, NEW b, NEW mi \in Timed(high, b)
  PROVE  [mi EXCEPT !.fresh = FALSE] \in Timed(high, b)
         /\ [mi EXCEPT !.ended = TRUE] \in Timed(high, b)
<1>1. mi \in Intervals
  BY DEF Timed
<1>2. ASSUME NEW m \in {[mi EXCEPT !.fresh = FALSE], [mi EXCEPT !.ended = TRUE]}
      PROVE  m \in Timed(high, b)
  <2>1. /\ m \in Intervals /\ m.first = mi.first /\ m.last = mi.last /\ m.nSent = mi.nSent
        /\ m.bytesSent = mi.bytesSent /\ m.bytesAcked = mi.bytesAcked
        /\ m.nAcc = mi.nAcc /\ m.firstAck = mi.firstAck /\ m.lastAck = mi.lastAck
        /\ m.apart = mi.apart
    BY <1>1 DEF Intervals
  <2> QED
    BY <2>1 DEF Timed
<1> QED
  BY <1>2

-----------------------------------------------------------------------------
\* The handlers, until a segment is sent a second time.

\* The views of a handler that has sent a segment below h again.
Again(h) == {v \in Views : \E i \in 1..Len(v.tx) : v.tx[i] < h}

\* A sender that never did, in the middle of a handler that has sent nothing yet.
Calm(t, una, h, b) ==
  /\ In(t, una, h, Views)
  /\ t.tx = <<>> /\ t.buf.high = h /\ t.buf.retrans = {}
  /\ t.state # "CA_RECOVERY"
  /\ TimedCC(t.cc, h, b)

\* In the middle of a handler: it has sent an old segment again, or is calm.
Untold(t, una, h, b) == In(t, una, h, Again(h)) \/ Calm(t, una, h, b)

\* The parts of a handler take no segment back.
LEMMA AgainClosed ==
  ASSUME NEW una, NEW h
  PROVE  /\ ClosedSent(Again(h), una, h) /\ ClosedLost(Again(h), una, h)
         /\ ClosedState(Again(h))
         /\ \A v \in Again(h), a \in Acks, newly \in Int : HeardView(v, a, newly) \in Again(h)
<1>1. ASSUME NEW v \in Again(h), NEW seg \in Segments
      PROVE  \E i \in 1..Len(Append(v.tx, seg)) : Append(v.tx, seg)[i] < h
  <2>1. v.tx \in Seq(Segments)
    BY DEF Again, Views
  <2>2. \A i \in 1..Len(v.tx) : i \in 1..Len(Append(v.tx, seg)) /\ Append(v.tx, seg)[i] = v.tx[i]
    BY <2>1
  <2> QED
    BY <2>2 DEF Again
<1>2. ASSUME NEW v \in Again(h), NEW seg \in Segments, NEW r \in Rates
      PROVE  SentView(v, seg, r) \in Again(h) /\ LostView(v, seg, r) \in Again(h)
  <2>1. SentView(v, seg, r) \in Views /\ LostView(v, seg, r) \in Views
    BY ViewsKept DEF Again
  <2>2. SentView(v, seg, r).tx = Append(v.tx, seg) /\ LostView(v, seg, r).tx = Append(v.tx, seg)
    BY DEF SentView, LostView
  <2> QED
    BY <1>1, <2>1, <2>2 DEF Again
<1>3. ASSUME NEW v \in Again(h), NEW st \in CongStates
      PROVE  StateView(v, st) \in Again(h)
  <2>1. StateView(v, st) \in Views /\ StateView(v, st).tx = v.tx
    BY ViewsKept DEF Again, StateView
  <2> QED
    BY <2>1 DEF Again
<1>4. ASSUME NEW v \in Again(h), NEW a \in Acks, NEW newly \in Int
      PROVE  HeardView(v, a, newly) \in Again(h)
  <2>1. HeardView(v, a, newly) \in Views /\ HeardView(v, a, newly).tx = v.tx
    BY ViewsKept DEF Again, HeardView
  <2> QED
    BY <2>1 DEF Again
<1> QED
  BY <1>2, <1>3, <1>4 DEF ClosedSent, ClosedLost, ClosedState

\* A change of state that is no beginning of a recovery.
LEMMA SetCongStateCalm ==
  ASSUME NEW una, NEW h, NEW b, NEW t, Calm(t, una, h, b), NEW st \in CongStates,
         st # "CA_RECOVERY", Waits(SetCongState(t, st))
  PROVE  Calm(SetCongState(t, st), una, h, b)
<1> DEFINE u == SetCongState(t, st)
<1>1. In(t, una, h, Views) /\ ClosedState(Views) /\ GoodSender(t) /\ t.buf.una = una
  BY ViewsClosed DEF Calm, In, Ready
<1>2. /\ View(u) \in Views /\ u \in Senders
      /\ u.buf = t.buf /\ u.tx = t.tx /\ u.state = st
      /\ u.cc = CongestionStateSet(t.cc, st)
      /\ u.recover = t.recover /\ u.pacing = t.pacing
  BY <1>1, SetCongStateIn
<1>3. u.cc.queue = t.cc.queue /\ u.cc.calls = t.cc.calls
  BY <1>1, <1>2 DEF CongestionStateSet, UpdatePacingRate, CongestionControls, GoodSender, Senders
<1>4. Waits(u)
  OBVIOUS
<1> HIDE DEF u
<1>5. In(u, una, h, Views)
  BY <1>1, <1>2, <1>4 DEF In, Ready, GoodSender
<1>6. TimedCC(u.cc, h, b)
  BY <1>3 DEF Calm, TimedCC
<1> QED
  BY <1>2, <1>5, <1>6 DEF Calm, u

\* What of a sender matters here.
LEMMA SameCalm ==
  ASSUME NEW una, NEW h, NEW b, NEW t, NEW u, Calm(t, una, h, b), In(u, una, h, Views),
         u.buf = t.buf, u.tx = t.tx, u.cc = t.cc, u.state # "CA_RECOVERY"
  PROVE  Calm(u, una, h, b)
  BY DEF Calm

\* EnterRecovery sends the head, or another lost segment.
LEMMA EnterRecoveryAgain ==
  ASSUME NEW una, NEW h, NEW b, NEW t, Calm(t, una, h, b), NEW r \in Rates,
         t.state = "CA_DISORDER", una < h
  PROVE  In(EnterRecovery(t, r), una, h, Again(h))
<1> DEFINE buf == IF IsLost(t.buf, t.buf.una) THEN t.buf
                  ELSE MarkHeadAsLost(t.buf)
           c == SetCongState(t, "CA_RECOVERY")
           in == [c EXCEPT !.buf = buf, !.recover = t.buf.high,
                           !.recoverActive = TRUE]
           next == NextSeg(buf, FALSE)
           seg == IF next = None THEN buf.una ELSE next
           u == EnterRecovery(t, r)
<1>1. /\ In(t, una, h, Views) /\ GoodSender(t) /\ t.buf.una = una /\ t.buf.high = h
      /\ t.buf.retrans = {} /\ t.tx = <<>> /\ t \in Senders
  BY DEF Calm, In, Ready, GoodSender
<1>2. una \in 0..N /\ h \in 0..N /\ una < N /\ N \in Nat
  BY <1>1, ViewType, TxBufferAssumption
<1>3. In(u, una, h, Views)
  BY <1>1, ViewsClosed, EnterRecoveryIn
<1>4. /\ GoodBuffer(buf) /\ buf.una = una /\ buf.high = h /\ buf.retrans = {}
      /\ buf.lost # {}
  <2>1. CASE IsLost(t.buf, t.buf.una)
    <3>1. buf = t.buf
      BY <2>1
    <3>2. t.buf.lost # {}
      BY <2>1 DEF IsLost
    <3> QED
      BY <1>1, <3>1, <3>2 DEF GoodSender
  <2>2. CASE ~IsLost(t.buf, t.buf.una)
    <3>1. buf = MarkHeadAsLost(t.buf)
      BY <2>2
    <3>2. una \in Sent(t.buf)
      BY <1>1, <1>2 DEF Sent
    <3>3. buf.retrans = {} /\ una \in buf.lost
      <4>1. /\ MarkHeadAsLost(t.buf).retrans = t.buf.retrans \ {una}
            /\ MarkHeadAsLost(t.buf).lost = t.buf.lost \cup {una}
        BY <1>1, <3>2 DEF MarkHeadAsLost, GoodSender, GoodBuffer, Buffers
      <4> QED
        BY <1>1, <3>1, <4>1
    <3>4. GoodBuffer(buf) /\ buf.una = una /\ buf.high = h
      BY <1>1, <3>1, MarkHeadAsLostGood DEF GoodSender
    <3> QED
      BY <3>3, <3>4
  <2> QED
    BY <2>1, <2>2
<1> HIDE DEF buf
<1>5. seg \in buf.lost /\ seg < h /\ seg \in Segments
  <2> DEFINE pending == {i \in Sent(buf) : i \notin buf.retrans \cup buf.sacked}
             S == pending \cap buf.lost
  <2>1. /\ buf.lost \subseteq Sent(buf) /\ buf.sacked \cap buf.lost = {}
        /\ Sent(buf) = una..h-1
    BY <1>4 DEF GoodBuffer, Sent
  <2>2. S = buf.lost
    BY <1>4, <2>1
  <2>3. S # {} /\ S \subseteq Nat
    BY <1>2, <1>4, <2>1, <2>2
  <2>4. next = Min(S)
    BY <2>3 DEF NextSeg
  <2> HIDE DEF S
  <2>5. Min(S) \in S
    BY <2>3, MinInSet
  <2>6. next \in una..h-1
    BY <2>1, <2>2, <2>4, <2>5
  <2> HIDE DEF next
  <2>7. next # None
    BY <1>2, <2>6 DEF None
  <2> QED
    BY <1>2, <2>2, <2>4, <2>5, <2>6, <2>7 DEF Segments
<1>6. c \in Senders /\ c.tx = <<>>
  <2>1. "CA_RECOVERY" \in CongStates
    BY DEF CongStates
  <2> QED
    BY <1>1, <2>1, SetCongStateIn, ViewsClosed
<1>7. in.buf = buf /\ in.tx = <<>> /\ in \in Senders
  <2>1. buf \in Buffers
    BY <1>4 DEF GoodBuffer
  <2> HIDE DEF c
  <2> QED
    BY <1>1, <1>2, <1>6, <2>1 DEF Senders
<1>8. u = DoRetransmit(in, r)
  BY DEF EnterRecovery, buf
<1> HIDE DEF in, c
<1>9. u = [SendDataPacket(in, seg, r) EXCEPT !.cc = OnPacketLost(@, seg)]
  BY <1>7, <1>8 DEF DoRetransmit
<1> HIDE DEF seg, u
<1>10. u.tx = Append(<<>>, seg)
  BY <1>7, <1>9 DEF SendDataPacket, Senders
<1>11. 1 \in 1..Len(u.tx) /\ u.tx[1] = seg
  BY <1>5, <1>10
<1>12. View(u) \in Views /\ View(u).tx = u.tx
  BY <1>3 DEF In, View
<1>13. View(u) \in Again(h)
  BY <1>5, <1>11, <1>12 DEF Again
<1> QED
  BY <1>3, <1>13 DEF In, u

-----------------------------------------------------------------------------
\* DupAck.
LEMMA DupAckUntold ==
  ASSUME NEW una, NEW h, NEW b, NEW t, Calm(t, una, h, b), NEW r \in Rates, una < h
  PROVE  LET u == DupAck(t, r)
         IN  Untold(u, una, h, b) /\ Len(u.tx) <= 1
<1> DEFINE counted == IF t.state = "CA_RECOVERY" THEN t
                      ELSE [t EXCEPT !.dupAcks = @ + 1]
           o == SetCongState(counted, "CA_DISORDER")
           d == IF t.state = "CA_OPEN" THEN o ELSE counted
           u == DupAck(t, r)
<1>1. /\ In(t, una, h, Views) /\ GoodSender(t) /\ Waits(t) /\ t.tx = <<>>
      /\ t.buf.high = h /\ t.state # "CA_RECOVERY"
  BY DEF Calm, In, Ready
<1>2. In(u, una, h, Views) /\ Len(u.tx) <= 1
  BY <1>1, DupAckIn, ViewsClosed
<1>3. /\ counted \in Senders /\ counted.buf = t.buf /\ counted.state = t.state
      /\ counted.cc = t.cc /\ counted.ecn = t.ecn /\ counted.tx = t.tx
      /\ counted.pacing = t.pacing /\ counted.recover = t.recover
  BY <1>1 DEF GoodSender, Senders
<1> HIDE DEF counted
<1>4. Waits(counted)
  BY <1>1, <1>3 DEF Waits
<1>5. In(counted, una, h, Views)
  BY <1>1, <1>3, <1>4, SameView
<1>6. Calm(counted, una, h, b)
  BY <1>1, <1>3, <1>5, SameCalm
<1>7. t.state = "CA_OPEN" => Calm(o, una, h, b)
  <2>1. "CA_DISORDER" \in CongStates /\ "CA_DISORDER" # "CA_RECOVERY" /\ GoodSender(counted)
    BY <1>5 DEF CongStates, In, Ready
  <2>2. /\ o.state = "CA_DISORDER" /\ o.ecn = counted.ecn
        /\ o.cc.waitMode = counted.cc.waitMode
    BY <2>1, SetCongStateGood
  <2>3. t.state = "CA_OPEN" => Waits(o)
    BY <1>1, <1>3, <2>2 DEF Waits
  <2> QED
    BY <1>6, <2>1, <2>3, SetCongStateCalm
<1> HIDE DEF o
<1>8. Calm(d, una, h, b)
  BY <1>6, <1>7
<1>9. \/ u = t \/ u = d
      \/ d.state = "CA_DISORDER" /\ u = EnterRecovery(d, r)
  BY DEF DupAck, counted, o
<1> HIDE DEF d, u
<1>10. d.state = "CA_DISORDER" => In(EnterRecovery(d, r), una, h, Again(h))
  BY <1>8, EnterRecoveryAgain
<1> QED
  BY <1>2, <1>8, <1>9, <1>10 DEF Untold, u

\* What of a sender matters here, in full.
LEMMA LikeCalm ==
  ASSUME NEW una, NEW h, NEW b, NEW t, NEW u, Calm(t, una, h, b), In(u, una, h, Views),
         u.buf = t.buf, u.tx = t.tx, u.cc.queue = t.cc.queue, u.cc.calls = t.cc.calls,
         u.state # "CA_RECOVERY"
  PROVE  Calm(u, una, h, b)
  BY DEF Calm, TimedCC

\* FullAck.
LEMMA FullAckCalm ==
  ASSUME NEW una, NEW h, NEW b, NEW t, Calm(t, una, h, b), NEW isDupack \in BOOLEAN
  PROVE  Calm(FullAck(t, isDupack), una, h, b)
<1> DEFINE o == SetCongState(t, "CA_OPEN")
           back == CASE t.state = "CA_DISORDER" /\ ~isDupack -> o
                     [] t.state = "CA_RECOVERY" ->
                          [o EXCEPT !.firstPartial = TRUE, !.dupAcks = 0]
                     [] t.state = "CA_LOSS" ->
                          [o EXCEPT !.firstPartial = TRUE]
                     [] OTHER -> t
           active == back.recoverActive /\ BelowRecover(t)
           done == [back EXCEPT !.recoverActive = active]
           u == FullAck(t, isDupack)
<1>1. /\ In(t, una, h, Views) /\ GoodSender(t) /\ t \in Senders
      /\ t.state # "CA_RECOVERY"
  BY DEF Calm, In, Ready, GoodSender
<1>2. In(u, una, h, Views)
  BY <1>1, FullAckIn, ViewsClosed
<1>3. /\ o \in Senders /\ o.buf = t.buf /\ o.tx = t.tx /\ o.state = "CA_OPEN"
      /\ o.cc = CongestionStateSet(t.cc, "CA_OPEN")
  <2>1. "CA_OPEN" \in CongStates
    BY DEF CongStates
  <2> QED
    BY <1>1, <2>1, SetCongStateIn, ViewsClosed
<1>4. o.cc.queue = t.cc.queue /\ o.cc.calls = t.cc.calls
  BY <1>1, <1>3 DEF CongestionStateSet, UpdatePacingRate, CongestionControls, Senders
<1>5. \/ back = o
      \/ back = [o EXCEPT !.firstPartial = TRUE, !.dupAcks = 0]
      \/ back = [o EXCEPT !.firstPartial = TRUE]
      \/ back = t
  <2> HIDE DEF o
  <2> QED
    BY Zenon
<1>6. u = IF done.state = "CA_OPEN" THEN NewAck(done, TRUE) ELSE done
  BY DEF FullAck
<1> HIDE DEF o, back, u
<1>7. /\ back \in Senders /\ back.buf = t.buf /\ back.tx = t.tx
      /\ back.cc.queue = t.cc.queue /\ back.cc.calls = t.cc.calls
      /\ back.state # "CA_RECOVERY"
  <2>1. /\ o \in Senders /\ o.buf = t.buf /\ o.tx = t.tx
        /\ o.cc.queue = t.cc.queue /\ o.cc.calls = t.cc.calls
        /\ o.state # "CA_RECOVERY"
    BY <1>3, <1>4
  <2>2. CASE back = [o EXCEPT !.firstPartial = TRUE, !.dupAcks = 0]
    <3>1. /\ back \in Senders /\ back.buf = o.buf /\ back.tx = o.tx
          /\ back.cc = o.cc /\ back.state = o.state
      BY <2>1, <2>2 DEF Senders
    <3> QED
      BY <2>1, <3>1
  <2>3. CASE back = [o EXCEPT !.firstPartial = TRUE]
    <3>1. /\ back \in Senders /\ back.buf = o.buf /\ back.tx = o.tx
          /\ back.cc = o.cc /\ back.state = o.state
      BY <2>1, <2>3 DEF Senders
    <3> QED
      BY <2>1, <3>1
  <2>4. CASE back = t
    BY <1>1, <2>4
  <2> QED
    BY <1>5, <2>1, <2>2, <2>3, <2>4
<1>10. active \in BOOLEAN
  <2>1. back.recoverActive \in BOOLEAN
    BY <1>7 DEF Senders
  <2> QED
    BY <2>1
<1> HIDE DEF active
<1>8. /\ done \in Senders /\ done.buf = t.buf /\ done.tx = t.tx
      /\ done.cc.queue = t.cc.queue /\ done.cc.calls = t.cc.calls
      /\ done.state # "CA_RECOVERY"
  BY <1>7, <1>10 DEF Senders
<1>9. /\ u.buf = t.buf /\ u.tx = t.tx
      /\ u.cc.queue = t.cc.queue /\ u.cc.calls = t.cc.calls
      /\ u.state # "CA_RECOVERY"
  <2>1. CASE u = done
    BY <1>8, <2>1
  <2>2. CASE u = NewAck(done, TRUE)
    BY <1>7, <1>8, <2>2 DEF NewAck, Senders
  <2> QED
    BY <1>6, <2>1, <2>2
<1> QED
  BY <1>2, <1>9, LikeCalm DEF u

\* ProcessAck.
LEMMA ProcessAckUntold ==
  ASSUME NEW una, NEW h, NEW b, NEW t, Calm(t, una, h, b), NEW r \in Rates,
         NEW oldHead, NEW isDupack \in BOOLEAN, isDupack => una < h
  PROVE  Untold(ProcessAck(t, oldHead, isDupack, r), una, h, b)
<1> DEFINE d == IF isDupack THEN DupAck(t, r) ELSE t
           e == ForgetDupAcks(d, isDupack)
           u == ProcessAck(t, oldHead, isDupack, r)
           A == Again(h)
<1>1. Untold(d, una, h, b) /\ Len(d.tx) <= 1
  <2>1. Calm(t, una, h, b) /\ Len(t.tx) <= 1
    BY DEF Calm
  <2>2. isDupack => Untold(DupAck(t, r), una, h, b) /\ Len(DupAck(t, r).tx) <= 1
    BY DupAckUntold
  <2> QED
    BY <2>1, <2>2 DEF Untold
<1>2. \/ u = d
      \/ /\ BelowRecover(e) /\ e.state = "CA_RECOVERY" /\ u = PartialAck(e, r)
      \/ u = NewAck(e, TRUE)
      \/ u = FullAck(e, isDupack)
  BY DEF ProcessAck
<1>3. ClosedSent(A, una, h) /\ ClosedLost(A, una, h) /\ ClosedState(A)
  BY AgainClosed
<1> HIDE DEF d, u, A
<1>4. CASE In(d, una, h, A)
  <2>1. In(e, una, h, A) /\ e.tx = d.tx
    BY <1>4, ForgetDupAcksIn
  <2> HIDE DEF e
  <2>2. In(NewAck(e, TRUE), una, h, A) /\ In(FullAck(e, isDupack), una, h, A)
    BY <1>3, <2>1, NewAckIn, FullAckIn
  <2>3. BelowRecover(e) /\ e.state = "CA_RECOVERY" => In(PartialAck(e, r), una, h, A)
    BY <1>1, <1>3, <2>1, PartialAckIn
  <2> QED
    BY <1>2, <1>4, <2>2, <2>3 DEF Untold, u, A
<1>5. CASE Calm(d, una, h, b)
  <2>1. In(d, una, h, Views) /\ d \in Senders /\ d.state # "CA_RECOVERY"
    BY <1>5 DEF Calm, In, Ready, GoodSender
  <2>2. In(e, una, h, Views)
    BY <2>1, ForgetDupAcksIn
  <2>3. e.buf = d.buf /\ e.tx = d.tx /\ e.cc = d.cc /\ e.state = d.state
    BY <2>1 DEF ForgetDupAcks, Senders
  <2> HIDE DEF e
  <2>4. Calm(e, una, h, b) /\ e \in Senders /\ e.state # "CA_RECOVERY"
    BY <1>5, <2>1, <2>2, <2>3, SameCalm DEF In, Ready, GoodSender
  <2>5. In(NewAck(e, TRUE), una, h, Views)
    BY <2>2, NewAckIn
  <2> DEFINE n == NewAck(e, TRUE)
  <2>6. n.buf = e.buf /\ n.tx = e.tx /\ n.cc = e.cc /\ n.state = e.state
    BY <2>4 DEF NewAck, Senders
  <2> HIDE DEF n
  <2>7. Calm(n, una, h, b)
    BY <2>4, <2>5, <2>6, SameCalm DEF n
  <2>8. Calm(FullAck(e, isDupack), una, h, b)
    BY <2>4, FullAckCalm
  <2> QED
    BY <1>2, <1>5, <2>4, <2>7, <2>8 DEF Untold, u, n
<1> QED
  BY <1>1, <1>4, <1>5 DEF Untold, A

\* A handler has ended: it has sent an old segment again, or one new segment at most,
\* and the intervals still have their times.
Ended(t, una, h, b) ==
  /\ In(t, una, h, Views)
  /\ \/ \E i \in 1..Len(t.tx) : t.tx[i] < h
     \/ /\ t.buf.retrans = {} /\ t.state # "CA_RECOVERY"
        /\ TimedCC(t.cc, t.buf.high, b)
        /\ \/ t.tx = <<>> /\ t.buf.high = h
           \/ t.tx = <<h>> /\ t.buf.high = h + 1 /\ h \in 0..N-1

\* SendPendingData.
LEMMA SendPendingDataEnded ==
  ASSUME NEW una, NEW h, NEW b \in Nat, NEW t, Untold(t, una, h, b), NEW r \in Rates,
         End < UintMod
  PROVE  Ended(SendPendingData(t, r), una, h, b)
<1> DEFINE seg == NextSeg(t.buf, t.state = "CA_RECOVERY")
           u == SendPendingData(t, r)
           A == Again(h)
<1>1. CASE In(t, una, h, A)
  <2>1. In(u, una, h, A)
    BY <1>1, AgainClosed, SendPendingDataIn
  <2> HIDE DEF u
  <2>2. View(u) \in A /\ View(u) \in Views /\ View(u).tx = u.tx
    BY <2>1 DEF In, View, Again
  <2> QED
    BY <2>1, <2>2 DEF Ended, In, Again, u
<1>2. CASE Calm(t, una, h, b)
  <2>1. /\ In(t, una, h, Views) /\ t \in Senders /\ GoodBuffer(t.buf) /\ t.buf.una = una
        /\ t.buf.high = h /\ t.buf.retrans = {} /\ t.tx = <<>>
        /\ t.state # "CA_RECOVERY" /\ TimedCC(t.cc, h, b)
    BY <1>2 DEF Calm, In, Ready, GoodSender
  <2>2. In(u, una, h, Views)
    BY <2>1, SendPendingDataIn, ViewsClosed
  <2>3. CASE u = t
    BY <2>1, <2>3 DEF Ended
  <2>4. CASE u = SendDataPacket(t, seg, r) /\ seg # None
    <3>1. CanCopy(t.buf, seg)
      BY <2>1, <2>4, NextSegCanCopy
    <3>2. /\ u.tx = Append(<<>>, seg) /\ u.buf = Copy(t.buf, seg) /\ u.state = t.state
          /\ u.cc = OnPacketSent(t.cc, seg, r)
      BY <2>1, <2>4 DEF SendDataPacket, Senders
    <3>3. h \in 0..N /\ N \in Nat /\ t.buf \in Buffers /\ t.cc \in CongestionControls
      BY <2>1, TxBufferAssumption DEF Senders, Buffers
    <3> HIDE DEF seg, u
    <3>4. CASE seg = h
      <4>1. h \in 0..N-1
        BY <2>1, <3>1, <3>3, <3>4 DEF CanCopy, Sent
      <4>2. u.buf.retrans = {} /\ u.buf.high = h + 1
        BY <2>1, <3>2, <3>3, <3>4 DEF Copy, Buffers
      <4>3. TimedCC(u.cc, h + 1, b)
        BY <2>1, <3>2, <3>3, <3>4, <4>1, SentTimedCC
      <4>4. u.tx = <<h>>
        BY <3>2, <3>4
      <4> QED
        BY <2>1, <2>2, <3>2, <4>1, <4>2, <4>3, <4>4 DEF Ended, u
    <3>5. CASE seg # h
      <4>1. seg < h
        BY <2>1, <3>1, <3>3, <3>5, TxBufferAssumption DEF CanCopy, Sent, Buffers
      <4>2. 1 \in 1..Len(u.tx) /\ u.tx[1] = seg
        BY <3>2
      <4> QED
        BY <2>2, <4>1, <4>2 DEF Ended, u
    <3> QED
      BY <3>4, <3>5
  <2> QED
    BY <2>3, <2>4 DEF SendPendingData
<1> QED
  BY <1>1, <1>2 DEF Untold

-----------------------------------------------------------------------------
\* ReceivedAck.
LEMMA AckProcessedEnded ==
  ASSUME NEW t, Idle(t), NEW a, CanProcess(t, a), NEW ece \in BOOLEAN, NEW r \in Rates,
         a.ack <= t.buf.high, t.buf.retrans = {}, t.state # "CA_RECOVERY",
         NEW b \in Nat, TimedCC(t.cc, t.buf.high, b),
         NEW newly \in Nat \ {0}, newly = NewlyDelivered(t.buf, a),
         b + newly * MSS < UintMod, End < UintMod
  PROVE  Ended(AckProcessed(t, a, ece, r), a.ack, t.buf.high, b + newly * MSS)
<1> DEFINE h        == t.buf.high
           oldHead  == t.buf.una
           updated  == Update(t.buf, a.sack)
           isDupack == updated.sacked # t.buf.sacked
           buf      == DiscardUpTo(updated, a.ack)
           acked    == [t EXCEPT !.buf = buf]
           l        == LeaveCwr(acked, a.ack)
           e        == ProcessEce(l, oldHead, ece)
           p        == ProcessAck(e, oldHead, isDupack, r)
           c        == CongControl(p.cc, a.ack, newly)
           q        == [p EXCEPT !.cc = c]
           u        == SendPendingData(q, r)
           sacked   == t.buf.sacked \cup (a.sack \cap Sent(t.buf))
           una      == a.ack
           k        == b + newly * MSS
<1>1. /\ a.ack \in 0..N /\ t.buf.una \in 0..N /\ t.buf.high \in 0..N
      /\ N \in Nat /\ GoodSender(t) /\ Waits(t) /\ t.tx = <<>>
      /\ t.recover <= t.buf.high /\ t.recover \in 0..N /\ a \in Acks
      /\ a.ack \in Int
  <2>1. a \in Acks /\ a.ack \in 0..N
    BY DEF CanProcess, Acks
  <2>2. /\ t.buf.una \in 0..N /\ t.buf.high \in 0..N /\ GoodSender(t) /\ Waits(t)
        /\ t.tx = <<>> /\ t.recover <= t.buf.high /\ t.recover \in 0..N
    BY DEF Idle, GoodSender, GoodBuffer, Buffers, Senders
  <2> QED
    BY <2>1, <2>2, TxBufferAssumption
<1>2. /\ GoodBuffer(updated) /\ updated.una = t.buf.una
      /\ updated.high = t.buf.high /\ updated.sacked = sacked
      /\ updated.retrans = {}
  <2>1. t.buf.una \notin a.sack
    BY <1>1 DEF CanProcess
  <2>2. updated.retrans = {}
    BY <1>1 DEF Update, GoodSender, GoodBuffer, Buffers
  <2> QED
    BY <1>1, <2>1, <2>2, UpdateGood DEF GoodSender
<1>3. isDupack => una < h
  <2> SUFFICES ASSUME isDupack
               PROVE  una < h
    OBVIOUS
  <2>1. PICK i \in a.sack : i \in Sent(t.buf)
    BY <1>2
  <2>2. i \in a.ack + 1 .. N - 1 /\ i \in t.buf.una .. t.buf.high - 1
    BY <2>1 DEF CanProcess, Sent
  <2> QED
    BY <1>1, <2>2
<1>4. isDupack \in BOOLEAN
  OBVIOUS
<1> HIDE DEF updated, isDupack
<1>5. /\ GoodBuffer(buf) /\ buf.una = una /\ buf.high = h
      /\ buf.lost \subseteq 0..h-1 /\ buf.retrans = {}
  <2>1. a.ack \notin sacked
    BY <1>1 DEF CanProcess
  <2>2. buf.lost \subseteq updated.lost /\ buf.retrans = {}
    BY <1>2 DEF DiscardUpTo, GoodBuffer, Buffers
  <2>3. updated.lost \subseteq 0..h-1
    BY <1>1, <1>2 DEF GoodBuffer, Buffers, Sent
  <2> HIDE DEF buf
  <2>4. buf.high = IF a.ack > h THEN a.ack ELSE h
    BY <1>1, <1>2, <2>1, DiscardUpToGood DEF CanProcess, buf
  <2> QED
    BY <1>1, <1>2, <2>1, <2>2, <2>3, <2>4, DiscardUpToGood DEF CanProcess, buf
<1> HIDE DEF buf, sacked
<1>6. /\ acked \in Senders /\ acked.buf = buf /\ acked.recover = t.recover
      /\ acked.cc = t.cc /\ acked.tx = <<>> /\ acked.state = t.state
      /\ acked.ecn = t.ecn
  BY <1>1, <1>5 DEF GoodBuffer, GoodSender, Senders
<1> HIDE DEF acked
<1>7. Calm(acked, una, h, b)
  <2>1. Waits(acked)
    BY <1>1, <1>6 DEF Waits
  <2>2. GoodSender(acked)
    BY <1>5, <1>6 DEF GoodSender
  <2>3. View(acked) \in Views
    BY <2>2, ViewType
  <2>4. In(acked, una, h, Views)
    BY <1>1, <1>5, <1>6, <2>1, <2>2, <2>3 DEF In, Ready
  <2> QED
    BY <1>5, <1>6, <2>4 DEF Calm
<1>8. Calm(l, una, h, b)
  <2>1. In(acked, una, h, Views) /\ acked.state # "CA_RECOVERY"
    BY <1>7 DEF Calm
  <2>2. In(l, una, h, Views)
    BY <2>1, LeaveCwrIn
  <2>3. l.buf = acked.buf /\ l.tx = acked.tx /\ l.cc = acked.cc /\ l.state # "CA_RECOVERY"
    BY <1>6, <2>1 DEF LeaveCwr, Senders
  <2> HIDE DEF l
  <2> QED
    BY <1>7, <2>2, <2>3, SameCalm
<1> HIDE DEF l
<1>9. Calm(e, una, h, b)
  <2>1. In(l, una, h, Views) /\ l.state # "CA_RECOVERY" /\ l.tx = <<>> /\ l \in Senders
    BY <1>8 DEF Calm, In, Ready, GoodSender
  <2>2. In(e, una, h, Views)
    BY <2>1, ProcessEceIn
  <2>3. e.buf = l.buf /\ e.tx = l.tx /\ e.cc = l.cc /\ e.state # "CA_RECOVERY"
    BY <2>1 DEF ProcessEce, EnterCwr, Senders
  <2> HIDE DEF e
  <2> QED
    BY <1>8, <2>2, <2>3, SameCalm
<1> HIDE DEF e
<1>10. Untold(p, una, h, b)
  <2> HIDE DEF una, h
  <2> QED
    BY <1>3, <1>4, <1>9, ProcessAckUntold
<1> HIDE DEF p
<1>11. In(p, una, h, Views) /\ GoodSender(p) /\ Waits(p) /\ p.cc \in CongestionControls
  BY <1>10 DEF Untold, Calm, In, Ready, GoodSender, Senders, Again
<1>12. c \in CongestionControls /\ c.waitMode = p.cc.waitMode /\ newly \in Int
  BY <1>1, <1>11, CongControlType
<1>13. c = CongControl(p.cc, a.ack, newly)
  OBVIOUS
<1> HIDE DEF c
<1>14. /\ q \in Senders /\ q.buf = p.buf /\ q.recover = p.recover
       /\ q.cc = c /\ q.tx = p.tx /\ q.pacing = p.pacing /\ q.state = p.state
       /\ q.ecn = p.ecn
  BY <1>11, <1>12 DEF GoodSender, Senders
<1> HIDE DEF q
<1>15. Waits(q) /\ View(q) = HeardView(View(p), a, newly) /\ View(q) \in Views
  <2>1. GoodSender(q)
    BY <1>11, <1>14 DEF GoodSender
  <2> QED
    BY <1>11, <1>12, <1>13, <1>14, <2>1, ViewType DEF Waits, View, HeardView
<1>16. \A X : View(q) \in X => In(q, una, h, X)
  BY <1>11, <1>14, <1>15 DEF In, Ready, GoodSender
<1>17. Untold(q, una, h, k)
  <2>1. CASE In(p, una, h, Again(h))
    <3>1. View(q) \in Again(h)
      BY <1>1, <1>12, <1>15, <2>1, AgainClosed DEF In
    <3> QED
      BY <1>16, <3>1 DEF Untold
  <2>2. CASE Calm(p, una, h, b)
    <3>1. TimedCC(c, h, k)
      <4>1. TimedCC(p.cc, h, b)
        BY <2>2 DEF Calm
      <4> QED
        BY <1>1, <1>11, <1>13, <4>1, HeardTimedCC
    <3>2. In(q, una, h, Views)
      BY <1>15, <1>16
    <3>3. Calm(q, una, h, k)
      BY <1>14, <2>2, <3>1, <3>2 DEF Calm
    <3> QED
      BY <3>3 DEF Untold
  <2> QED
    BY <1>10, <2>1, <2>2 DEF Untold
<1>18. k \in Nat
  <2>1. \A x, y, z \in Nat : x + y * z \in Nat
    OBVIOUS
  <2> QED
    BY <2>1, PccAssumption
<1>19. u = AckProcessed(t, a, ece, r)
  BY DEF AckProcessed, u, q, c, p, e, l, acked, buf, isDupack, updated
<1>20. Ended(u, una, h, k)
  <2> HIDE DEF una, h, k
  <2> QED
    BY <1>17, <1>18, SendPendingDataEnded
<1> QED
  BY <1>19, <1>20

\* ReTxTimeout.
LEMMA TimedOutEnded ==
  ASSUME NEW t, Idle(t), NEW r \in Rates, t.buf.retrans = {}, t.state # "CA_RECOVERY",
         NEW b \in Nat, TimedCC(t.cc, t.buf.high, b), End < UintMod
  PROVE  Ended(TimedOut(t, r), t.buf.una, t.buf.high, b)
<1> DEFINE o == SetCongState(t, "CA_LOSS")
           lossy == [o EXCEPT
                       !.buf = SetSentListLost(@), !.retries = @ - 1,
                       !.dupAcks = 0, !.recover = t.buf.high,
                       !.recoverActive = TRUE, !.cc.cwnd = 1,
                       !.pacing = FALSE, !.rto = FALSE]
           u == TimedOut(t, r)
           una == t.buf.una
           h == t.buf.high
<1>1. /\ una \in 0..N /\ h \in 0..N
      /\ N \in Nat /\ GoodSender(t) /\ Waits(t) /\ t.tx = <<>>
      /\ t.recover <= h /\ t.recover \in 0..N
      /\ t.buf.lost \subseteq 0..h-1
  BY TxBufferAssumption
     DEF Idle, GoodSender, GoodBuffer, Buffers, Senders, Sent
<1>2. View(t) \in Views
  BY <1>1, ViewType
<1>3. Calm(t, una, h, b)
  BY <1>1, <1>2 DEF Calm, In, Ready
<1>4. CASE una = N \/ t.retries = 0
  <2>1. /\ u.buf = t.buf /\ u.state = t.state /\ u.tx = t.tx /\ u.cc = t.cc
        /\ u \in Senders /\ u.recover = t.recover /\ u.ecn = t.ecn
    BY <1>1, <1>4 DEF TimedOut, GoodSender, Senders
  <2> HIDE DEF u
  <2>2. Waits(u)
    BY <1>1, <2>1 DEF Waits
  <2>3. In(u, una, h, Views)
    BY <1>1, <1>3, <2>1, <2>2 DEF Calm, In, Ready, View, GoodSender
  <2> QED
    BY <1>3, <2>1, <2>3 DEF Ended, Calm, u
<1>5. CASE una # N /\ t.retries # 0
  <2>1. u = SendPendingData(lossy, r)
    BY <1>5 DEF TimedOut
  <2>2. /\ GoodSender(o) /\ o.buf = t.buf /\ o.state = "CA_LOSS"
        /\ o.retries = t.retries /\ o.ecn = t.ecn /\ o.cc.waitMode = TRUE
        /\ o.tx = <<>> /\ o.cc.queue = t.cc.queue /\ o.cc.calls = t.cc.calls
    <3>1. o.retries = t.retries /\ o.tx = t.tx
          /\ o.cc = CongestionStateSet(t.cc, "CA_LOSS")
      BY <1>1 DEF SetCongState, GoodSender, Senders
    <3>2. CongestionStateSet(t.cc, "CA_LOSS").queue = t.cc.queue
          /\ CongestionStateSet(t.cc, "CA_LOSS").calls = t.cc.calls
      BY <1>1 DEF CongestionStateSet, UpdatePacingRate, CongestionControls, GoodSender,
                  Senders
    <3> QED
      BY <1>1, <3>1, <3>2, SetCongStateGood DEF CongStates
  <2> HIDE DEF o
  <2> DEFINE buf == SetSentListLost(o.buf)
             c == [o.cc EXCEPT !.cwnd = 1]
  <2>3. GoodBuffer(buf) /\ buf.una = una /\ buf.high = h
    BY <2>2, SetSentListLostGood DEF GoodSender
  <2>4. buf.retrans = {}
    BY <2>2 DEF SetSentListLost, GoodSender, GoodBuffer, Buffers
  <2>5. /\ c \in CongestionControls /\ c.waitMode = TRUE
        /\ c.queue = t.cc.queue /\ c.calls = t.cc.calls
    BY <2>2 DEF GoodSender, Senders, CongestionControls
  <2>6. lossy = [o EXCEPT
                   !.buf = buf, !.retries = @ - 1, !.dupAcks = 0,
                   !.recover = h, !.recoverActive = TRUE,
                   !.cc = c, !.pacing = FALSE, !.rto = FALSE]
    BY <2>2 DEF GoodSender, Senders
  <2> HIDE DEF buf, c, lossy, u
  <2>7. /\ t.retries - 1 \in 0..DataRetries /\ h \in 0..N /\ buf \in Buffers
    <3>1. t.retries \in 0..DataRetries /\ t.retries # 0
      BY <1>1, <1>5 DEF GoodSender, Senders
    <3>2. \A n \in 0..DataRetries : n # 0 => n - 1 \in 0..DataRetries
      BY SenderAssumption
    <3>3. buf \in Buffers
      BY <2>3 DEF GoodBuffer
    <3> QED
      BY <1>1, <3>1, <3>2, <3>3
  <2>8. /\ lossy \in Senders /\ lossy.buf = buf /\ lossy.state = "CA_LOSS"
        /\ lossy.cc = c /\ lossy.ecn = t.ecn /\ lossy.tx = <<>>
        /\ lossy.recover = h
    BY <2>2, <2>5, <2>6, <2>7 DEF GoodSender, Senders
  <2>9. Waits(lossy) /\ GoodSender(lossy)
    BY <1>1, <2>3, <2>5, <2>8 DEF Waits, GoodSender
  <2>10. View(lossy) \in Views
    BY <2>9, ViewType
  <2>11. buf.lost \subseteq 0..h-1
    BY <1>1, <2>3 DEF GoodBuffer, Buffers, Sent
  <2>12. In(lossy, una, h, Views)
    BY <1>1, <2>3, <2>8, <2>9, <2>10, <2>11 DEF In, Ready, GoodSender
  <2>13. TimedCC(lossy.cc, h, b)
    BY <2>5, <2>8 DEF TimedCC
  <2>14. Calm(lossy, una, h, b)
    BY <2>3, <2>4, <2>8, <2>12, <2>13 DEF Calm
  <2>15. Ended(SendPendingData(lossy, r), una, h, b)
    <3> HIDE DEF una, h
    <3> QED
      BY <2>14, SendPendingDataEnded DEF Untold
  <2> QED
    BY <2>1, <2>15 DEF u
<1> QED
  BY <1>4, <1>5

-----------------------------------------------------------------------------
\* The path, until a segment is sent a second time.

\* The segments somebody is known to have.
Has(v) == 0..v.ack-1 \cup v.sack

\* S has a segment that neither b nor one of the first n ACKs of w tells of.
Adds(S, b, w, n) == \E x \in S : x \notin Has(b) /\ \A i \in 1..n : x \notin Has(w[i])

\* The segments on their way to a receiver that has S are new to it, and each is there
\* once.
NewTo(d, S, high) ==
  /\ S \subseteq 0..high-1
  /\ \A i \in 1..Len(d) : d[i] \in 0..high-1 /\ d[i] \notin S
  /\ \A i, j \in 1..Len(d) : i < j => d[i] # d[j]

\* Each ACK on its way tells of a segment that neither the sender nor an ACK before it
\* knows; so will the one that is held.  It may tell less than they do, too.
EachAdds(b, w, held, S) ==
  /\ \A j \in 1..Len(w) : Adds(Has(w[j]), b, w, j - 1)
  /\ held = 1 => Adds(S, b, w, Len(w))

\* What is known at two places.
LEMMA BehindHas ==
  ASSUME NEW v, NEW w, v.ack \in Int, w.ack \in Int, Behind(v, w)
  PROVE  Has(v) \subseteq Has(w)
  BY DEF Behind, Has

\* The oldest segment leaves the path, is received perhaps.
LEMMA NewToTail ==
  ASSUME NEW d \in Seq(Segments), NEW S, NEW high, NewTo(d, S, high), d # <<>>
  PROVE  /\ NewTo(Tail(d), S, high) /\ NewTo(Tail(d), S \cup {Head(d)}, high)
         /\ Head(d) \notin S /\ Head(d) \in 0..high-1
<1> DEFINE x == Head(d)
           w == Tail(d)
<1>1. /\ Len(w) = Len(d) - 1 /\ Len(d) \in Nat /\ x = d[1] /\ 1 \in 1..Len(d)
      /\ \A i \in 1..Len(w) : w[i] = d[i+1]
  OBVIOUS
<1> HIDE DEF x, w
<1>2. \A i \in 1..Len(w) : i + 1 \in 1..Len(d) /\ 1 < i + 1 /\ i \in Int
  BY <1>1
<1>3. x \notin S /\ x \in 0..high-1
  BY <1>1 DEF NewTo
<1>4. \A i \in 1..Len(w) : w[i] \in 0..high-1 /\ w[i] \notin S /\ w[i] # x
  BY <1>1, <1>2 DEF NewTo
<1>5. \A i, j \in 1..Len(w) : i < j => w[i] # w[j]
  <2> SUFFICES ASSUME NEW i \in 1..Len(w), NEW j \in 1..Len(w), i < j
               PROVE  w[i] # w[j]
    OBVIOUS
  <2>1. i + 1 < j + 1
    BY <1>2
  <2> QED
    BY <1>1, <1>2, <2>1 DEF NewTo
<1> QED
  BY <1>3, <1>4, <1>5 DEF NewTo, x, w

\* A new segment is sent.
LEMMA NewToSent ==
  ASSUME NEW d \in Seq(Segments), NEW S, NEW high \in 0..N-1, NewTo(d, S, high)
  PROVE  NewTo(d \o <<high>>, S, high + 1)
<1> DEFINE w == d \o <<high>>
<1>1. high \in Nat /\ high \in Segments
  BY TxBufferAssumption DEF Segments
<1>2. /\ Len(w) = Len(d) + 1 /\ Len(d) \in Nat /\ w[Len(d) + 1] = high
      /\ \A i \in 1..Len(d) : w[i] = d[i]
  BY <1>1
<1> HIDE DEF w
<1>3. \A i \in 1..Len(w) : i \in 1..Len(d) \/ i = Len(d) + 1
  BY <1>2
<1>4. 0..high-1 \subseteq 0..high /\ high \in 0..high /\ high \notin 0..high-1
      /\ (high + 1) - 1 = high
  BY <1>1
<1>5. \A i \in 1..Len(w) : w[i] \in 0..high /\ w[i] \notin S
  BY <1>2, <1>3, <1>4 DEF NewTo
<1>6. \A i, j \in 1..Len(w) : i < j => w[i] # w[j]
  <2> SUFFICES ASSUME NEW i \in 1..Len(w), NEW j \in 1..Len(w), i < j
               PROVE  w[i] # w[j]
    OBVIOUS
  <2>1. i \in 1..Len(d)
    BY <1>2, <1>3
  <2>2. CASE j \in 1..Len(d)
    BY <1>2, <2>1, <2>2 DEF NewTo
  <2>3. CASE j = Len(d) + 1
    BY <1>2, <1>4, <2>1, <2>3 DEF NewTo
  <2> QED
    BY <1>3, <2>2, <2>3
<1>7. S \subseteq 0..high
  BY <1>4 DEF NewTo
<1> QED
  BY <1>4, <1>5, <1>6, <1>7 DEF NewTo, w

\* The oldest ACK leaves the path, is heard perhaps.
LEMMA AddsTail ==
  ASSUME NEW b, NEW w \in Seq(Acks), NEW held, NEW S, EachAdds(b, w, held, S), w # <<>>
  PROVE  /\ \E x \in Has(Head(w)) : x \notin Has(b)
         /\ EachAdds(b, Tail(w), held, S)
         /\ \A c : Has(c) \subseteq Has(b) \cup Has(Head(w)) => EachAdds(c, Tail(w), held, S)
<1> DEFINE x == Head(w)
           v == Tail(w)
<1>1. /\ Len(v) = Len(w) - 1 /\ Len(w) \in Nat /\ x = w[1] /\ 1 \in 1..Len(w)
      /\ Len(v) \in Nat /\ \A i \in 1..Len(v) : v[i] = w[i+1]
  OBVIOUS
<1> HIDE DEF x, v
<1>2. \E y \in Has(x) : y \notin Has(b)
  BY <1>1 DEF EachAdds, Adds
<1>3. ASSUME NEW c, Has(c) \subseteq Has(b) \cup Has(x)
      PROVE  EachAdds(c, v, held, S)
  <2>1. ASSUME NEW T, NEW n \in 0..Len(v), Adds(T, b, w, n + 1)
        PROVE  Adds(T, c, v, n)
    <3>1. PICK y \in T : y \notin Has(b) /\ \A i \in 1..n+1 : y \notin Has(w[i])
      BY <2>1 DEF Adds
    <3>2. \A i \in 1..n : i + 1 \in 1..n+1 /\ i \in 1..Len(v)
      BY <1>1
    <3>3. \A i \in 1..n : y \notin Has(v[i])
      BY <1>1, <3>1, <3>2
    <3>4. y \notin Has(x)
      <4>1. 1 \in 1..n+1
        OBVIOUS
      <4> QED
        BY <1>1, <3>1, <4>1
    <3> QED
      BY <1>3, <3>1, <3>3, <3>4 DEF Adds
  <2>2. ASSUME NEW j \in 1..Len(v)
        PROVE  Adds(Has(v[j]), c, v, j - 1)
    <3>1. /\ j + 1 \in 1..Len(w) /\ (j + 1) - 1 = (j - 1) + 1 /\ j - 1 \in 0..Len(v)
          /\ v[j] = w[j+1]
      BY <1>1
    <3>2. Adds(Has(w[j+1]), b, w, (j + 1) - 1)
      BY <3>1 DEF EachAdds
    <3> QED
      BY <2>1, <3>1, <3>2
  <2>3. held = 1 => Adds(S, c, v, Len(v))
    <3>1. held = 1 => Adds(S, b, w, Len(w))
      BY DEF EachAdds
    <3>2. Len(w) = Len(v) + 1 /\ Len(v) \in 0..Len(v)
      BY <1>1
    <3> QED
      BY <2>1, <3>1, <3>2
  <2> QED
    BY <2>2, <2>3 DEF EachAdds
<1> QED
  BY <1>2, <1>3 DEF x, v

\* An ACK is sent that adds to everything before.
LEMMA AddsTold ==
  ASSUME NEW b, NEW w \in Seq(Acks), NEW held, NEW S, EachAdds(b, w, held, S),
         NEW q \in Acks, Adds(Has(q), b, w, Len(w))
  PROVE  \A T : EachAdds(b, Append(w, q), 0, T)
<1> DEFINE v == Append(w, q)
<1>1. /\ Len(v) = Len(w) + 1 /\ Len(w) \in Nat /\ v[Len(w) + 1] = q
      /\ \A i \in 1..Len(w) : v[i] = w[i]
  OBVIOUS
<1> HIDE DEF v
<1>2. ASSUME NEW n \in 0..Len(w), NEW T, Adds(T, b, w, n)
      PROVE  Adds(T, b, v, n)
  <2>1. \A i \in 1..n : v[i] = w[i]
    BY <1>1
  <2> QED
    BY <1>2, <2>1 DEF Adds
<1>3. ASSUME NEW j \in 1..Len(v)
      PROVE  Adds(Has(v[j]), b, v, j - 1)
  <2>1. CASE j \in 1..Len(w)
    <3>1. j - 1 \in 0..Len(w) /\ v[j] = w[j]
      BY <1>1, <2>1
    <3>2. Adds(Has(w[j]), b, w, j - 1)
      BY <2>1 DEF EachAdds
    <3> QED
      BY <1>2, <3>1, <3>2
  <2>2. CASE j = Len(w) + 1
    <3>1. j - 1 = Len(w) /\ Len(w) \in 0..Len(w) /\ v[j] = q
      BY <1>1, <2>2
    <3> QED
      BY <1>2, <3>1
  <2> QED
    BY <1>1, <2>1, <2>2
<1> QED
  BY <1>3 DEF EachAdds, v

\* The same of the path of the connection.
PathNew == NewTo(data, Has(Received), s.buf.high)

PathAdds == EachAdds(Board, acks, rcv.held, 0..rcv.nxt-1)

\* What the receiver has, with the segment it receives, and what it tells of it.
LEMMA ReceivedHas ==
  ASSUME IInv, ReceivedData, Head(data) \notin Has(Received)
  PROVE  /\ Has(Received') = Has(Received) \cup {Head(data)}
         /\ \/ /\ \E q \in Acks : Head(data) \in Has(q) /\ acks' = Append(acks, q)
               /\ rcv'.held = 0
            \/ acks' = acks /\ Head(data) \in 0..rcv'.nxt-1
<1> DEFINE seg == Head(data)
<1>1. seg \in Segments /\ seg \in 0..N-1 /\ N \in Nat
  BY TxBufferAssumption DEF ReceivedData, IInv, TypeOK, Segments
<1> HIDE DEF seg
<1>2. /\ rcv \in Receivers /\ rcv.nxt \in 0..N /\ rcv.ooo \in SUBSET Segments
      /\ rcv.ooo \subseteq rcv.nxt + 1 .. N - 1 /\ rcv.held \in 0..1
      /\ rcv = [nxt |-> rcv.nxt, ooo |-> rcv.ooo, listed |-> rcv.listed,
                held |-> rcv.held]
  BY DEF IInv, TypeOK, Receivers, KnowledgeGrows, Sound, Received
<1>3. /\ Has(Received) = 0..rcv.nxt-1 \cup rcv.ooo
      /\ Has(Received') = 0..rcv'.nxt-1 \cup rcv'.ooo
  BY DEF Received, Has
<1>4. ASSUME NEW stored, SendAck(stored), seg \in 0..rcv'.nxt-1 \/ seg \in stored
      PROVE  \E q \in Acks : seg \in Has(q) /\ acks' = Append(acks, q)
  <2>1. PICK R \in SUBSET rcv'.listed :
               /\ stored \subseteq R
               /\ acks' = Append(acks, [ack |-> rcv'.nxt, sack |-> R])
    BY <1>4, SendAckIs
  <2>2. rcv' \in Receivers
    BY NextIInv DEF Next, IInv, TypeOK
  <2> DEFINE q == [ack |-> rcv'.nxt, sack |-> R]
  <2>3. q \in Acks
    BY <2>1, <2>2 DEF Receivers, Acks
  <2>4. seg \in Has(q)
    BY <1>4, <2>1 DEF Has
  <2> QED
    BY <2>1, <2>3, <2>4
<1>5. seg \notin 0..rcv.nxt-1 \cup rcv.ooo
  BY <1>3 DEF seg
<1>6. ~ReceiveOld(seg)
  BY <1>1, <1>2, <1>5 DEF ReceiveOld
<1>7. CASE ReceiveBeyond(seg)
  <2>1. PICK listed \in UpdateSackList(rcv.listed, seg) :
               rcv' = [rcv EXCEPT !.ooo = @ \cup {seg}, !.listed = listed, !.held = 0]
    BY <1>7 DEF ReceiveBeyond
  <2>2. rcv'.nxt = rcv.nxt /\ rcv'.ooo = rcv.ooo \cup {seg} /\ rcv'.held = 0
    BY <1>2, <2>1
  <2>3. SendAck({seg})
    BY <1>7 DEF ReceiveBeyond
  <2> QED
    BY <1>3, <1>4, <2>2, <2>3 DEF seg
<1>8. CASE ReceiveInHole(seg)
  <2> DEFINE nxt == RunEnd(rcv.ooo, seg + 1)
  <2>1. seg = rcv.nxt /\ seg + 1 \in 0..N /\ SendAck({})
    BY <1>1, <1>8 DEF ReceiveInHole
  <2>2. nxt \in seg + 1 .. N /\ nxt \notin rcv.ooo /\ seg + 1 .. nxt - 1 \subseteq rcv.ooo
    BY <1>2, <2>1, RunEndFound
  <2>3. rcv' = [nxt |-> nxt, ooo |-> rcv.ooo \ 0..nxt,
                listed |-> rcv.listed \ 0..nxt, held |-> 0]
    BY <1>8 DEF ReceiveInHole
  <2> HIDE DEF nxt
  <2>4. rcv'.nxt = nxt /\ rcv'.ooo = rcv.ooo \ 0..nxt /\ rcv'.held = 0
    BY <2>3
  <2>5. 0..nxt-1 \cup (rcv.ooo \ 0..nxt) = (0..rcv.nxt-1 \cup rcv.ooo) \cup {seg}
    <3>1. rcv.ooo \subseteq Nat
      BY <1>1, <1>2
    <3>2. 0..nxt-1 = (0..rcv.nxt-1 \cup {seg}) \cup (seg + 1 .. nxt - 1)
      BY <1>1, <1>2, <2>1, <2>2
    <3>3. rcv.ooo \subseteq 0..nxt-1 \cup (rcv.ooo \ 0..nxt)
      BY <1>1, <2>2, <3>1
    <3> QED
      BY <2>2, <3>2, <3>3
  <2>6. seg \in 0..nxt-1
    BY <1>1, <2>2
  <2> QED
    BY <1>3, <1>4, <2>1, <2>4, <2>5, <2>6 DEF seg
<1>9. CASE ReceiveInOrder(seg)
  <2>1. seg = rcv.nxt /\ rcv.ooo = {} /\ rcv' = [rcv EXCEPT !.nxt = @ + 1, !.held = 1 - @]
    BY <1>9 DEF ReceiveInOrder
  <2>2. rcv'.nxt = rcv.nxt + 1 /\ rcv'.ooo = {} /\ rcv'.held = 1 - rcv.held
    BY <1>2, <2>1 DEF Receivers
  <2>3. 0..rcv'.nxt-1 = 0..rcv.nxt-1 \cup {seg} /\ seg \in 0..rcv'.nxt-1
    BY <1>1, <1>2, <2>1, <2>2
  <2>4. rcv.held = 1 => rcv'.held = 0
    BY <2>2
  <2>5. acks' = acks \/ (SendAck({}) /\ rcv'.held = 0)
    BY <1>9, <2>4 DEF ReceiveInOrder
  <2> QED
    BY <1>3, <1>4, <2>1, <2>2, <2>3, <2>5 DEF seg
<1> QED
  BY <1>6, <1>7, <1>8, <1>9 DEF ReceivedData, seg

\* A segment is received.
LEMMA ReceivedDataPath ==
  ASSUME IInv, PathNew, PathAdds, ReceivedData
  PROVE  PathNew' /\ PathAdds'
<1> DEFINE seg == Head(data)
           R == Received
           Q == Received'
<1>1. /\ data \in Seq(Segments) /\ data # <<>> /\ data' = Tail(data) /\ s' = s
      /\ acks \in Seq(Acks) /\ rcv \in Receivers /\ s.buf \in Buffers
  BY DEF IInv, TypeOK, Senders, ReceivedData
<1>2. /\ NewTo(Tail(data), Has(R) \cup {seg}, s.buf.high) /\ seg \notin Has(R)
  BY <1>1, NewToTail DEF PathNew
<1>3. /\ Has(Q) = Has(R) \cup {seg}
      /\ \/ /\ \E q \in Acks : seg \in Has(q) /\ acks' = Append(acks, q)
            /\ rcv'.held = 0
         \/ acks' = acks /\ seg \in 0..rcv'.nxt-1
  BY <1>2, ReceivedHas
<1>4. Has(Board) \subseteq Has(R) /\ \A i \in 1..Len(acks) : Has(acks[i]) \subseteq Has(R)
  <2>1. \A a \in Acks : a.ack \in Int
    BY TxBufferAssumption DEF Acks
  <2>2. Board.ack \in Int /\ R.ack \in Int
    BY <1>1, TxBufferAssumption DEF Board, Received, Buffers, Receivers
  <2>3. DOMAIN acks = 1..Len(acks) /\ \A i \in 1..Len(acks) : acks[i] \in Acks
    BY <1>1
  <2>4. Behind(Board, R) /\ \A i \in 1..Len(acks) : Behind(acks[i], R)
    BY <2>3 DEF IInv, KnowledgeGrows
  <2> QED
    BY <2>1, <2>2, <2>3, <2>4, BehindHas
<1> HIDE DEF R, Q, seg
<1>5. \A S : seg \in S => Adds(S, Board, acks, Len(acks))
  BY <1>2, <1>4 DEF Adds
<1>6. EachAdds(Board, acks, rcv.held, 0..rcv.nxt-1)
  BY DEF PathAdds
<1>7. ASSUME acks' = acks, seg \in 0..rcv'.nxt-1
      PROVE  EachAdds(Board, acks', rcv'.held, 0..rcv'.nxt-1)
  <2>1. Adds(0..rcv'.nxt-1, Board, acks, Len(acks))
    BY <1>5, <1>7
  <2> QED
    BY <1>6, <1>7, <2>1 DEF EachAdds
<1>8. ASSUME NEW q \in Acks, seg \in Has(q), acks' = Append(acks, q), rcv'.held = 0
      PROVE  EachAdds(Board, acks', rcv'.held, 0..rcv'.nxt-1)
  <2>1. Adds(Has(q), Board, acks, Len(acks))
    BY <1>5, <1>8
  <2>2. EachAdds(Board, Append(acks, q), 0, 0..rcv'.nxt-1)
    BY <1>1, <1>6, <2>1, AddsTold
  <2> QED
    BY <1>8, <2>2
<1>9. EachAdds(Board, acks', rcv'.held, 0..rcv'.nxt-1)
  BY <1>3, <1>7, <1>8
<1>10. Board' = Board
  BY <1>1 DEF Board
<1>11. NewTo(data', Has(Q), s'.buf.high)
  BY <1>1, <1>2, <1>3
<1> QED
  BY <1>9, <1>10, <1>11 DEF PathNew, PathAdds, Q

\* The held ACK is sent.
LEMMA DelAckPath ==
  ASSUME IInv, PathNew, PathAdds, DelAckTimeout
  PROVE  PathNew' /\ PathAdds'
<1>1. /\ acks \in Seq(Acks) /\ rcv \in Receivers /\ rcv.held = 1
      /\ s' = s /\ data' = data /\ rcv' = [rcv EXCEPT !.held = 0] /\ SendAck({})
  BY DEF IInv, TypeOK, DelAckTimeout
<1>2. rcv'.nxt = rcv.nxt /\ rcv'.ooo = rcv.ooo /\ rcv'.listed = rcv.listed /\ rcv'.held = 0
  BY <1>1 DEF Receivers
<1>3. Received' = Received /\ Board' = Board
  BY <1>1, <1>2 DEF Received, Board
<1>4. PICK R \in SUBSET rcv'.listed :
             acks' = Append(acks, [ack |-> rcv'.nxt, sack |-> R])
  BY <1>1, SendAckIs
<1> DEFINE q == [ack |-> rcv'.nxt, sack |-> R]
<1>5. q \in Acks
  BY <1>1, <1>2, <1>4 DEF Receivers, Acks
<1>6. 0..rcv.nxt-1 \subseteq Has(q)
  BY <1>2 DEF Has
<1> HIDE DEF q
<1>7. Adds(Has(q), Board, acks, Len(acks))
  <2>1. Adds(0..rcv.nxt-1, Board, acks, Len(acks))
    BY <1>1 DEF PathAdds, EachAdds
  <2> QED
    BY <1>6, <2>1 DEF Adds
<1>8. EachAdds(Board, Append(acks, q), 0, 0..rcv.nxt-1)
  BY <1>1, <1>5, <1>7, AddsTold DEF PathAdds
<1>9. PathAdds'
  BY <1>2, <1>3, <1>4, <1>8 DEF PathAdds, q
<1>10. PathNew'
  BY <1>1, <1>3 DEF PathNew
<1> QED
  BY <1>9, <1>10

\* A packet is lost.
LEMMA DropPath ==
  ASSUME IInv, PathNew, PathAdds, Drop
  PROVE  PathNew' /\ PathAdds'
<1>1. /\ data \in Seq(Segments) /\ acks \in Seq(Acks) /\ s' = s /\ rcv' = rcv
      /\ \/ data # <<>> /\ data' = Tail(data) /\ acks' = acks
         \/ acks # <<>> /\ acks' = Tail(acks) /\ data' = data
  BY DEF IInv, TypeOK, Drop
<1>2. Received' = Received /\ Board' = Board
  BY <1>1 DEF Received, Board
<1>3. data # <<>> => NewTo(Tail(data), Has(Received), s.buf.high)
  BY <1>1, NewToTail DEF PathNew
<1>4. acks # <<>> => EachAdds(Board, Tail(acks), rcv.held, 0..rcv.nxt-1)
  BY <1>1, AddsTail DEF PathAdds
<1>5. NewTo(data', Has(Received), s.buf.high)
  BY <1>1, <1>3 DEF PathNew
<1>6. EachAdds(Board, acks', rcv.held, 0..rcv.nxt-1)
  BY <1>1, <1>4 DEF PathAdds
<1> QED
  BY <1>1, <1>2, <1>5, <1>6 DEF PathNew, PathAdds

-----------------------------------------------------------------------------
\* The flow.

\* An ACK that adds to what the sender knows reports something.
LEMMA NewlyAdds ==
  ASSUME IInv, PathNew, PathAdds, ReceivedAck
  PROVE  /\ NewlyDelivered(s.buf, Head(acks)) \in Nat \ {0}
         /\ Head(acks).ack <= s.buf.high
<1> DEFINE a == Head(acks)
           new == (Sent(s.buf) \cap (0..a.ack-1 \cup a.sack)) \ s.buf.sacked
<1>1. /\ acks \in Seq(Acks) /\ acks # <<>> /\ a = acks[1] /\ 1 \in DOMAIN acks /\ a \in Acks
      /\ s.buf \in Buffers /\ rcv \in Receivers /\ GoodSender(s)
  BY DEF IInv, TypeOK, Senders, ReceivedAck, GoodSender
<1>2. Behind(a, Received) /\ \E x \in Has(a) : x \notin Has(Board)
  BY <1>1, AddsTail DEF IInv, KnowledgeGrows, PathAdds
<1>3. /\ a.ack \in 0..N /\ rcv.nxt \in 0..N /\ N \in Nat /\ Received.ack = rcv.nxt
      /\ s.buf.una \in 0..N /\ s.buf.high \in 0..N
  BY <1>1, TxBufferAssumption DEF Acks, Receivers, Received, Buffers
<1> HIDE DEF a
<1>4. Has(a) \subseteq 0..s.buf.high-1
  <2>1. Has(a) \subseteq Has(Received)
    BY <1>2, <1>3, BehindHas
  <2> QED
    BY <2>1 DEF PathNew, NewTo
<1>5. a.ack <= s.buf.high
  <2> SUFFICES ASSUME ~(a.ack <= s.buf.high)
               PROVE  FALSE
    OBVIOUS
  <2>1. s.buf.high \in 0..a.ack-1
    BY <1>3
  <2>2. s.buf.high \in 0..s.buf.high-1
    BY <1>4, <2>1 DEF Has
  <2> QED
    BY <1>3, <2>2
<1>6. PICK x \in Has(a) : x \notin 0..s.buf.una-1 /\ x \notin s.buf.sacked
  BY <1>2 DEF Has, Board
<1>7. x \in new
  BY <1>3, <1>4, <1>6 DEF Has, Sent
<1>8. IsFiniteSet(new)
  <2>1. new \subseteq s.buf.una..s.buf.high-1
    BY DEF Sent
  <2>2. s.buf.una \in Int /\ s.buf.high-1 \in Int
    BY <1>3
  <2>3. IsFiniteSet(s.buf.una..s.buf.high-1)
    BY <2>2, FS_Interval
  <2> QED
    BY <2>1, <2>3, FS_Subset
<1>9. Cardinality(new) \in Nat /\ (Cardinality(new) = 0 <=> new = {})
  BY <1>8, FS_CardinalityType, FS_EmptySet
<1>10. NewlyDelivered(s.buf, a) = Cardinality(new)
  BY DEF NewlyDelivered
<1> QED
  BY <1>5, <1>7, <1>9, <1>10 DEF a

\* What is credited is delivered, and no more than all data is.
LEMMA CreditWithin ==
  ASSUME IInv, s.recover <= s.buf.high, [Next]_vars, NEW newly \in Nat,
         newly = IF ReceivedAck THEN NewlyDelivered(s.buf, Head(acks)) ELSE 0
  PROVE  LET K == MSS * Cardinality(Delivered(s.buf))
             L == MSS * Cardinality(Delivered(s'.buf))
         IN  /\ K \in Nat /\ L \in Nat /\ K + newly * MSS \in Nat
             /\ K <= K + newly * MSS /\ K + newly * MSS <= L /\ L <= End
<1> DEFINE D == Cardinality(Delivered(s.buf))
           E == Cardinality(Delivered(s'.buf))
<1>1. /\ s.buf \in Buffers /\ s'.buf \in Buffers /\ E >= D + newly
  BY DeliveredGrows
<1>2. D \in Nat /\ E \in Nat /\ MSS \in Nat /\ N \in Nat
  BY <1>1, DeliveredType, PccAssumption, TxBufferAssumption
<1>3. E <= N
  <2>1. Delivered(s'.buf) \subseteq 0..N-1
    BY <1>1, <1>2 DEF Delivered, Buffers
  <2>2. 0 \in Int /\ N-1 \in Int /\ (N-1) - 0 + 1 = N
    BY <1>2
  <2>3. IsFiniteSet(0..N-1)
        /\ Cardinality(0..N-1) = IF 0 > N-1 THEN 0 ELSE (N-1) - 0 + 1
    BY <2>2, FS_Interval
  <2>4. Cardinality(0..N-1) <= N
    BY <1>2, <2>2, <2>3
  <2>5. E <= Cardinality(0..N-1)
    BY <2>1, <2>3, FS_Subset
  <2>6. Cardinality(0..N-1) \in Nat
    BY <2>3, FS_CardinalityType
  <2> QED
    BY <1>2, <2>4, <2>5, <2>6
<1> HIDE DEF D, E
<1>4. \A x, y \in Nat : x * y \in Nat
  OBVIOUS
<1>5. PICK m \in Nat : E = (D + newly) + m
  <2>1. E - (D + newly) \in Nat /\ E = (D + newly) + (E - (D + newly))
    BY <1>1, <1>2
  <2> QED
    BY <2>1
<1>6. PICK n \in Nat : N = E + n
  <2>1. N - E \in Nat /\ N = E + (N - E)
    BY <1>2, <1>3
  <2> QED
    BY <2>1
<1>7. \A x, y, z, w \in Nat : x * ((y + z) + w) = (x * y + z * x) + x * w
  OBVIOUS
<1>8. \A x, y, z \in Nat : (x + y) * z = z * x + y * z
  OBVIOUS
<1>9. MSS * E = (MSS * D + newly * MSS) + MSS * m
  BY <1>2, <1>5, <1>7
<1>10. End = MSS * E + n * MSS
  BY <1>2, <1>6, <1>8 DEF End
<1>11. MSS * D \in Nat /\ newly * MSS \in Nat /\ MSS * E \in Nat /\ MSS * m \in Nat
       /\ n * MSS \in Nat
  BY <1>2, <1>4, <1>5, <1>6
<1> QED
  BY <1>9, <1>10, <1>11 DEF D, E

\* The invariant of the times: until a segment is sent a second time none was marked
\* retransmitted, the path carries what is new, and the intervals have the times that
\* go with what they were credited with.
FlowTimes ==
  /\ FlowInv
  /\ resent \/ /\ s.buf.retrans = {} /\ s.state # "CA_RECOVERY"
               /\ PathNew /\ PathAdds
               /\ \A i \in 1..Len(s.cc.queue) :
                    s.cc.queue[i] \in Timed(s.buf.high,
                                            MSS * Cardinality(Delivered(s.buf)))

\* What a handler begins with.
LEMMA BeginTimes ==
  ASSUME FlowTimes, ~resent
  PROVE  LET b == Begin(s)
         IN  /\ Idle(b) /\ b.buf = s.buf /\ b.state = s.state
             /\ TimedCC(b.cc, s.buf.high, MSS * Cardinality(Delivered(s.buf)))
             /\ Calm(b, s.buf.una, s.buf.high, MSS * Cardinality(Delivered(s.buf)))
<1> DEFINE b == Begin(s)
           h == s.buf.high
           k == MSS * Cardinality(Delivered(s.buf))
           q == s.cc.queue
           w == Aged(q)
<1>1. /\ GoodSender(s) /\ Waits(s) /\ s.recover <= s.buf.high /\ s \in Senders
      /\ q \in Seq(Intervals) /\ s.cc \in CongestionControls
  BY DEF FlowTimes, FlowInv, Reached, IInv, TypeOK, GoodSender, Senders, CongestionControls
<1>2. Idle(b) /\ b.buf = s.buf /\ b.recover = s.recover
  BY <1>1, BeginIdle
<1>3. b.state = s.state /\ b.cc.queue = w /\ b.cc.calls = <<>> /\ b.tx = <<>>
  BY <1>1 DEF Begin, Senders, CongestionControls
<1> HIDE DEF b
<1>4. \A i \in 1..Len(q) : q[i] \in Timed(h, k)
  BY DEF FlowTimes
<1>5. Len(w) = Len(q) /\ \A i \in 1..Len(q) : w[i] = [q[i] EXCEPT !.fresh = FALSE]
  <2>1. Len(w) = Len(q) /\ DOMAIN q = 1..Len(q)
    BY <1>1, AgedType
  <2> QED
    BY <2>1 DEF Aged
<1> HIDE DEF w, q, h, k
<1>6. \A i \in 1..Len(q) : w[i] \in Timed(h, k)
  <2> SUFFICES ASSUME NEW i \in 1..Len(q)
               PROVE  w[i] \in Timed(h, k)
    OBVIOUS
  <2>1. q[i] \in Timed(h, k) /\ w[i] = [q[i] EXCEPT !.fresh = FALSE]
    BY <1>4, <1>5
  <2>2. [q[i] EXCEPT !.fresh = FALSE] \in Timed(h, k)
    BY <2>1, SameTimed
  <2> QED
    BY <2>1, <2>2
<1>7. TimedCC(b.cc, h, k)
  BY <1>3, <1>5, <1>6 DEF TimedCC
<1>8. GoodSender(b) /\ Waits(b) /\ View(b) \in Views
  BY <1>2, ViewType DEF Idle
<1>9. /\ s.buf.una \in 0..N /\ s.buf.high \in 0..N /\ s.recover \in 0..N /\ N \in Nat
      /\ s.buf.lost \subseteq 0..s.buf.high-1
  BY <1>1, TxBufferAssumption DEF GoodSender, GoodBuffer, Buffers, Senders, Sent
<1>10. In(b, s.buf.una, h, Views)
  BY <1>1, <1>2, <1>3, <1>8, <1>9 DEF In, Ready, h
<1>11. Calm(b, s.buf.una, h, k)
  BY <1>2, <1>3, <1>7, <1>10 DEF Calm, FlowTimes, h
<1> QED
  BY <1>2, <1>3, <1>7, <1>11 DEF b, h, k

\* A handler's end, when an ACK is received.
LEMMA AckEnds ==
  ASSUME FlowTimes, ~resent, ReceivedAck, End < UintMod
  PROVE  LET k == MSS * Cardinality(Delivered(s'.buf))
         IN  /\ Ended(s', s'.buf.una, s.buf.high, k)
             /\ Has(Board') \subseteq Has(Board) \cup Has(Head(acks))
<1> DEFINE b == Begin(s)
           a == Head(acks)
           K == MSS * Cardinality(Delivered(s.buf))
           L == MSS * Cardinality(Delivered(s'.buf))
           newly == NewlyDelivered(s.buf, a)
<1>1. /\ IInv /\ s.recover <= s.buf.high /\ [Next]_vars /\ PathNew /\ PathAdds
      /\ s.buf.retrans = {} /\ s.state # "CA_RECOVERY"
  BY DEF FlowTimes, FlowInv, Reached, Next
<1>2. PICK r \in Rates, ece \in BOOLEAN : s' = AckProcessed(b, a, ece, r)
  BY SenderAssumption DEF ReceivedAck
<1>3. CanProcess(b, a) /\ a = acks[1] /\ 1 \in DOMAIN acks /\ a \in Acks
  BY <1>1, AckPresent DEF ReceivedAck, CanProcess
<1>4. /\ Idle(b) /\ b.buf = s.buf /\ b.state = s.state /\ TimedCC(b.cc, s.buf.high, K)
  BY BeginTimes
<1>5. newly \in Nat \ {0} /\ a.ack <= s.buf.high
  BY <1>1, NewlyAdds
<1>6. newly = IF ReceivedAck THEN NewlyDelivered(s.buf, Head(acks)) ELSE 0
  OBVIOUS
<1>7. /\ K \in Nat /\ L \in Nat /\ K + newly * MSS \in Nat
      /\ K + newly * MSS <= L /\ L <= End
  <2> HIDE DEF newly
  <2> QED
    BY <1>1, <1>5, <1>6, CreditWithin
<1>8. K + newly * MSS < UintMod
  <2> DEFINE x == K + newly * MSS
  <2>1. x \in Nat /\ L \in Nat /\ x <= L /\ L <= End
    BY <1>7
  <2>2. End \in Nat /\ UintMod \in Nat
    <3>1. \A x1, y \in Nat : x1 * y \in Nat
      OBVIOUS
    <3> QED
      BY <3>1, PccAssumption, TxBufferAssumption, UintModAssumption DEF End
  <2> HIDE DEF x, L
  <2>3. x < UintMod
    BY <2>1, <2>2
  <2> QED
    BY <2>3 DEF x
<1>9. newly = NewlyDelivered(b.buf, a)
  BY <1>4
<1>10. Armed(b)
  <2>1. GoodSender(s) /\ Waits(s) /\ Armed(s)
    BY <1>1 DEF IInv, TypeOK, GoodSender
  <2> QED
    BY <2>1, BeginKeeps DEF Keeps
<1> HIDE DEF b, a, K, L, newly
<1>11. Ended(s', a.ack, s.buf.high, K + newly * MSS)
  BY <1>1, <1>2, <1>3, <1>4, <1>5, <1>7, <1>8, <1>9, AckProcessedEnded
<1>12. /\ s'.buf.una = a.ack
       /\ s'.buf.sacked = (s.buf.sacked \cup (a.sack \cap Sent(s.buf))) \ 0..a.ack-1
  BY <1>2, <1>3, <1>4, <1>10, AckProcessedGood DEF Idle
<1>13. Ended(s', a.ack, s.buf.high, L)
  <2> DEFINE x == K + newly * MSS
  <2>1. x \in Nat /\ L \in Nat /\ x <= L
    BY <1>7
  <2>2. Ended(s', a.ack, s.buf.high, x)
    BY <1>11
  <2> HIDE DEF x
  <2> QED
    BY <2>1, <2>2, TimedGrows DEF Ended
<1>14. Has(Board') \subseteq Has(Board) \cup Has(a)
  <2>1. Board' = [ack |-> s'.buf.una, sack |-> s'.buf.sacked]
    BY DEF Board
  <2> QED
    BY <1>12, <2>1 DEF Has, Board
<1> QED
  BY <1>12, <1>13, <1>14 DEF L, a

\* A handler's end, otherwise.
LEMMA SendEnds ==
  ASSUME FlowTimes, ~resent, Start \/ ReTxTimeout \/ PacingTimerExpires, ~ReceivedAck,
         End < UintMod
  PROVE  LET k == MSS * Cardinality(Delivered(s'.buf))
         IN  /\ Ended(s', s'.buf.una, s.buf.high, k)
             /\ s'.buf.una = s.buf.una /\ s'.buf.sacked = s.buf.sacked
<1> DEFINE b == Begin(s)
           t == [b EXCEPT !.pacing = FALSE]
           una == s.buf.una
           h == s.buf.high
           K == MSS * Cardinality(Delivered(s.buf))
           L == MSS * Cardinality(Delivered(s'.buf))
<1>1. IInv /\ s.recover <= s.buf.high /\ [Next]_vars
  BY DEF FlowTimes, FlowInv, Reached, Next
<1>2. /\ Idle(b) /\ b.buf = s.buf /\ b.state = s.state /\ TimedCC(b.cc, h, K)
      /\ Calm(b, una, h, K) /\ b.buf.retrans = {} /\ b.state # "CA_RECOVERY"
  BY BeginTimes DEF FlowTimes
<1>3. K \in Nat /\ L \in Nat /\ K <= L
  <2>1. 0 \in Nat /\ 0 = IF ReceivedAck THEN NewlyDelivered(s.buf, Head(acks)) ELSE 0
    OBVIOUS
  <2>2. K \in Nat /\ L \in Nat /\ K + 0 * MSS <= L
    BY <1>1, <2>1, CreditWithin
  <2>3. \A x, y \in Nat : x + 0 * y = x
    OBVIOUS
  <2>4. MSS \in Nat
    BY PccAssumption
  <2>5. K + 0 * MSS = K
    BY <2>2, <2>3, <2>4
  <2> QED
    BY <2>2, <2>5
<1>4. Calm(t, una, h, K)
  <2>1. In(b, una, h, Views) /\ b \in Senders /\ Waits(b) /\ b.tx = <<>>
    BY <1>2 DEF Calm, In, Ready, GoodSender
  <2>2. /\ t \in Senders /\ t.buf = b.buf /\ t.state = b.state /\ t.cc = b.cc
        /\ t.tx = b.tx /\ t.recover = b.recover /\ t.ecn = b.ecn
    BY <2>1 DEF Senders
  <2> HIDE DEF t
  <2>3. Waits(t) /\ View(t) = View(b)
    BY <2>1, <2>2 DEF Waits, View
  <2>4. In(t, una, h, Views)
    BY <2>1, <2>2, <2>3 DEF In, Ready, GoodSender
  <2> QED
    BY <1>2, <2>2, <2>4, SameCalm
<1> HIDE DEF t
<1>5. \/ \E r \in Rates : s' = SendPendingData(b, r)
      \/ \E r \in Rates : s' = SendPendingData(t, r)
      \/ \E r \in Rates : s' = TimedOut(b, r)
  BY DEF Start, ReTxTimeout, PacingTimerExpires, t
<1> HIDE DEF b
<1>6. ASSUME NEW r \in Rates, NEW x \in {b, t}
      PROVE  LET u == SendPendingData(x, r)
             IN  /\ Ended(u, una, h, K)
                 /\ u.buf.una = una /\ u.buf.sacked = s.buf.sacked
  <2>1. Calm(x, una, h, K) /\ GoodSender(x) /\ x.buf.una = una
    BY <1>2, <1>4 DEF Calm, In, Ready
  <2>2. x.buf.sacked = s.buf.sacked
    <3>1. t.buf = b.buf
      BY <1>2 DEF t, Idle, GoodSender, Senders
    <3> QED
      BY <1>2, <3>1
  <2>3. Ended(SendPendingData(x, r), una, h, K)
    <3> HIDE DEF una, h, K
    <3> QED
      BY <1>3, <2>1, SendPendingDataEnded DEF Untold
  <2> QED
    BY <2>1, <2>2, <2>3, SendPendingDataKeeps DEF Keeps
<1>7. ASSUME NEW r \in Rates
      PROVE  LET u == TimedOut(b, r)
             IN  /\ Ended(u, una, h, K)
                 /\ u.buf.una = una /\ u.buf.sacked = s.buf.sacked
  <2>1. Ended(TimedOut(b, r), una, h, K)
    BY <1>2, <1>3, TimedOutEnded
  <2>2. GoodSender(b) /\ Waits(b)
    BY <1>2 DEF Idle
  <2> QED
    BY <1>2, <2>1, <2>2, TimedOutGood
<1>8. Ended(s', una, h, K) /\ s'.buf.una = una /\ s'.buf.sacked = s.buf.sacked
  BY <1>5, <1>6, <1>7
<1>9. Ended(s', una, h, L)
  <2> HIDE DEF K, L, una, h
  <2> QED
    BY <1>3, <1>8, TimedGrows DEF Ended
<1> QED
  BY <1>8, <1>9

-----------------------------------------------------------------------------
\* A handler and the path: it hands a new segment to IP at most.
LEMMA HandlerTimes ==
  ASSUME FlowTimes, ~resent', RateControllerHears, End < UintMod,
         Start \/ ReceivedAck \/ ReTxTimeout \/ PacingTimerExpires
  PROVE  /\ s'.buf.retrans = {} /\ s'.state # "CA_RECOVERY"
         /\ PathNew' /\ PathAdds'
         /\ TimedCC(s'.cc, s'.buf.high, MSS * Cardinality(Delivered(s'.buf)))
<1> DEFINE h == s.buf.high
           L == MSS * Cardinality(Delivered(s'.buf))
<1>1. /\ ~resent /\ ~(\E i \in DOMAIN s'.tx : s'.tx[i] < h)
  BY DEF RateControllerHears
<1>2. /\ IInv /\ PathNew /\ PathAdds /\ data \in Seq(Segments) /\ acks \in Seq(Acks)
  BY <1>1 DEF FlowTimes, FlowInv, Reached, IInv, TypeOK
<1>3. Ended(s', s'.buf.una, h, L)
  BY <1>1, AckEnds, SendEnds
<1> HIDE DEF h, L
<1>4. s'.tx \in Seq(Segments) /\ DOMAIN s'.tx = 1..Len(s'.tx)
  BY <1>3 DEF Ended, In, Ready, GoodSender, Senders
<1>5. /\ s'.buf.retrans = {} /\ s'.state # "CA_RECOVERY"
      /\ TimedCC(s'.cc, s'.buf.high, L)
      /\ \/ s'.tx = <<>> /\ s'.buf.high = h
         \/ s'.tx = <<h>> /\ s'.buf.high = h + 1 /\ h \in 0..N-1
  BY <1>1, <1>3, <1>4 DEF Ended
<1>6. data' = data \o s'.tx /\ rcv' = rcv
  BY DEF Start, ReceivedAck, ReTxTimeout, PacingTimerExpires, Transmit
<1>7. Received' = Received
  BY <1>6 DEF Received
<1>8. NewTo(data, Has(Received), h)
  BY <1>2 DEF PathNew, h
<1>9. NewTo(data \o s'.tx, Has(Received), s'.buf.high)
  <2>1. CASE s'.tx = <<>> /\ s'.buf.high = h
    <3>1. data \o <<>> = data
      BY <1>2
    <3> QED
      BY <1>8, <2>1, <3>1
  <2>2. CASE s'.tx = <<h>> /\ s'.buf.high = h + 1 /\ h \in 0..N-1
    BY <1>2, <1>8, <2>2, NewToSent
  <2> QED
    BY <1>5, <2>1, <2>2
<1>10. PathNew'
  BY <1>6, <1>7, <1>9 DEF PathNew
<1>11. EachAdds(Board', acks', rcv.held, 0..rcv.nxt-1)
  <2>1. CASE ReceivedAck
    <3>1. /\ Has(Board') \subseteq Has(Board) \cup Has(Head(acks))
          /\ acks # <<>> /\ acks' = Tail(acks)
      BY <1>1, <2>1, AckEnds DEF ReceivedAck
    <3> QED
      BY <1>2, <3>1, AddsTail DEF PathAdds
  <2>2. CASE ~ReceivedAck
    <3>1. s'.buf.una = s.buf.una /\ s'.buf.sacked = s.buf.sacked
      BY <1>1, <2>2, SendEnds
    <3>2. Board' = Board /\ acks' = acks
      BY <2>2, <3>1 DEF Board, Start, ReTxTimeout, PacingTimerExpires
    <3> QED
      BY <1>2, <3>2 DEF PathAdds
  <2> QED
    BY <2>1, <2>2
<1>12. PathAdds'
  BY <1>6, <1>7, <1>11 DEF PathAdds
<1> QED
  BY <1>5, <1>10, <1>12 DEF L

\* The end of an interval's duration.
LEMMA EndTimes ==
  ASSUME FlowTimes, ~resent, IntervalEnds
  PROVE  /\ s'.buf = s.buf /\ s'.state = s.state /\ PathNew' /\ PathAdds'
         /\ s'.cc.calls = <<>>
         /\ \A i \in 1..Len(s'.cc.queue) :
              s'.cc.queue[i] \in Timed(s.buf.high, MSS * Cardinality(Delivered(s.buf)))
<1> DEFINE q == s.cc.queue
           w == Aged(q)
           x == s'.cc.queue
           n == Len(q)
           T == Timed(s.buf.high, MSS * Cardinality(Delivered(s.buf)))
<1>1. /\ IInv /\ PathNew /\ PathAdds /\ \A i \in 1..n : q[i] \in T
  BY DEF FlowTimes, FlowInv, Reached
<1>2. /\ s'.buf = s.buf /\ q \in Seq(Intervals) /\ q # <<>> /\ s'.cc.calls = <<>>
      /\ x = [w EXCEPT ![Len(q)].ended = TRUE]
  BY <1>1, IntervalEndsView
<1>3. /\ Len(w) = n /\ n \in 1..n /\ w \in Seq(Intervals)
      /\ \A i \in 1..n : w[i] = [q[i] EXCEPT !.fresh = FALSE]
  <2>1. Len(w) = Len(q) /\ DOMAIN q = 1..Len(q) /\ w \in Seq(Intervals)
    BY <1>2, AgedType
  <2>2. n \in 1..n
    BY <1>2
  <2> QED
    BY <2>1, <2>2 DEF Aged
<1>4. \A i \in 1..n : w[i] \in T
  <2> SUFFICES ASSUME NEW i \in 1..n
               PROVE  w[i] \in T
    OBVIOUS
  <2>1. q[i] \in T
    BY <1>1
  <2>2. [q[i] EXCEPT !.fresh = FALSE] \in T
    BY <2>1, SameTimed
  <2> QED
    BY <1>3, <2>2
<1>5. [w[n] EXCEPT !.ended = TRUE] \in T
  <2>1. w[n] \in T
    BY <1>3, <1>4
  <2> QED
    BY <2>1, SameTimed
<1>6. x = [w EXCEPT ![n] = [w[n] EXCEPT !.ended = TRUE]]
  BY <1>2
<1> DEFINE m == [w[n] EXCEPT !.ended = TRUE]
<1>7. x = [w EXCEPT ![n] = m] /\ m \in T
  BY <1>5, <1>6
<1> HIDE DEF w, m, T, x, n
<1>8. \A i \in 1..Len(x) : x[i] \in T
  <2>1. /\ Len(x) = Len(w) /\ x[n] = m
        /\ \A i \in 1..Len(w) : i # n => x[i] = w[i]
    BY <1>3, <1>7, Replaced
  <2> QED
    BY <1>3, <1>4, <1>7, <2>1
<1>9. s'.state = s.state /\ data' = data /\ acks' = acks /\ rcv' = rcv
  <2>1. s \in Senders /\ s.cc \in CongestionControls
    BY <1>1 DEF IInv, TypeOK, Senders
  <2>2. Begin(s).state = s.state
    BY <2>1 DEF Begin, Senders
  <2>3. s'.state = Begin(s).state
    BY DEF IntervalEnds
  <2> QED
    BY <2>2, <2>3 DEF IntervalEnds
<1>10. PathNew' /\ PathAdds'
  BY <1>1, <1>2, <1>9 DEF PathNew, PathAdds, Received, Board
<1> QED
  BY <1>2, <1>8, <1>9, <1>10 DEF T, x

\* Every step of the flow keeps the invariant, and reports what is timely.
LEMMA NextFlowTimes ==
  ASSUME FlowTimes, [FlowNext]_flowVars, End < UintMod
  PROVE  /\ FlowTimes'
         /\ \A c \in Reports : resent' \/ Timely(c.mi)
<1>1. FlowInv' /\ IInv
  BY NextFlowInv DEF FlowTimes, FlowInv, Reached
<1>2. s'.cc.queue \in Seq(Intervals) /\ s'.cc.calls \in Seq(Calls)
  BY <1>1 DEF FlowInv, Reached, IInv, TypeOK, Senders, CongestionControls
<1>3. CASE resent'
  BY <1>1, <1>3 DEF FlowTimes
<1>4. ASSUME ~resent', RateControllerHears,
             Start \/ ReceivedAck \/ ReTxTimeout \/ PacingTimerExpires
      PROVE  /\ FlowTimes'
             /\ \A c \in Reports : Timely(c.mi)
  <2>1. /\ s'.buf.retrans = {} /\ s'.state # "CA_RECOVERY"
        /\ PathNew' /\ PathAdds'
        /\ TimedCC(s'.cc, s'.buf.high, MSS * Cardinality(Delivered(s'.buf)))
    BY <1>4, HandlerTimes
  <2>2. FlowTimes'
    BY <1>1, <2>1 DEF FlowTimes, TimedCC
  <2>3. \A c \in Reports : Timely(c.mi)
    <3> SUFFICES ASSUME NEW c \in Reports
                 PROVE  Timely(c.mi)
      OBVIOUS
    <3>1. c \in CallsNow /\ c # Asked
      BY DEF Reports
    <3>2. PICK i \in DOMAIN s'.cc.calls : c = s'.cc.calls[i]
      BY <3>1 DEF CallsNow
    <3>3. i \in 1..Len(s'.cc.calls)
      BY <1>2
    <3> QED
      BY <2>1, <3>1, <3>2, <3>3 DEF TimedCC
  <2> QED
    BY <2>2, <2>3
<1>5. ASSUME ~resent', RateControllerHears, IntervalEnds
      PROVE  /\ FlowTimes'
             /\ \A c \in Reports : Timely(c.mi)
  <2>1. ~resent
    BY <1>5 DEF RateControllerHears
  <2>2. /\ s'.buf = s.buf /\ s'.state = s.state /\ PathNew' /\ PathAdds'
        /\ s'.cc.calls = <<>>
        /\ \A i \in 1..Len(s'.cc.queue) :
             s'.cc.queue[i] \in Timed(s.buf.high, MSS * Cardinality(Delivered(s.buf)))
    BY <1>5, <2>1, EndTimes
  <2>3. FlowTimes'
    BY <1>1, <2>1, <2>2 DEF FlowTimes
  <2>4. Reports = {}
    BY <2>2 DEF Reports, CallsNow
  <2> QED
    BY <2>3, <2>4
<1>6. ASSUME ~resent', s' = s, resent' = resent, PathNew /\ PathAdds => PathNew' /\ PathAdds'
      PROVE  /\ FlowTimes'
             /\ \A c \in Reports : Timely(c.mi)
  <2>1. FlowTimes'
    BY <1>1, <1>6 DEF FlowTimes
  <2>2. Reports = {}
    BY <1>6 DEF Reports
  <2> QED
    BY <2>1, <2>2
<1>7. ASSUME ReceivedData \/ DelAckTimeout \/ Drop, PathNew, PathAdds
      PROVE  PathNew' /\ PathAdds'
  BY <1>1, <1>7, ReceivedDataPath, DelAckPath, DropPath
<1>8. UNCHANGED vars => (PathNew /\ PathAdds => PathNew' /\ PathAdds')
  BY DEF vars, PathNew, PathAdds, Board, Received
<1>9. ReceivedData \/ DelAckTimeout \/ Drop => s' = s
  BY DEF ReceivedData, DelAckTimeout, Drop
<1>10. \/ /\ RateControllerHears
          /\ Start \/ ReceivedAck \/ ReTxTimeout \/ PacingTimerExpires
       \/ RateControllerHears /\ IntervalEnds
       \/ (ReceivedData \/ DelAckTimeout \/ Drop) /\ resent' = resent
       \/ UNCHANGED vars /\ resent' = resent
  BY DEF FlowNext, flowVars
<1>11. UNCHANGED vars => s' = s
  BY DEF vars
<1> QED
  BY <1>3, <1>4, <1>5, <1>6, <1>7, <1>8, <1>9, <1>10, <1>11

\* The times of every report: as long as no segment is sent a second time, an interval
\* that is reported has both ends of the time its throughput is divided by, and the
\* throughput is not below zero; of data of fewer bytes than an unsigned number has
\* values.
THEOREM ThroughputIsSound ==
  ASSUME End < UintMod
  PROVE  FlowSpec => ThroughputSound
<1>1. FlowInit => FlowTimes
  <2> SUFFICES ASSUME FlowInit
               PROVE  FlowTimes
    OBVIOUS
  <2>1. FlowInv
    BY InitFlowInv
  <2>2. /\ s.buf.retrans = {} /\ s.state # "CA_RECOVERY" /\ s.cc.queue = <<>>
        /\ data = <<>> /\ acks = <<>> /\ rcv.nxt = 0 /\ rcv.ooo = {} /\ rcv.held = 0
        /\ s.buf.high = 0
    BY DEF FlowInit, Init, InitialCC, EmptyBuffer
  <2>3. PathNew
    <3>1. Has(Received) = {}
      BY <2>2 DEF Has, Received
    <3> QED
      BY <2>2, <3>1 DEF PathNew, NewTo
  <2>4. PathAdds
    BY <2>2 DEF PathAdds, EachAdds
  <2>5. Len(s.cc.queue) = 0
    BY <2>2
  <2> QED
    BY <2>1, <2>2, <2>3, <2>4, <2>5 DEF FlowTimes
<1>2. FlowTimes /\ [FlowNext]_flowVars
        => FlowTimes' /\ [\A c \in Reports : resent' \/ Timely(c.mi)]_flowVars
  BY NextFlowTimes
<1>3. [\A c \in Reports : resent' \/ Timely(c.mi)]_flowVars
        => [\A c \in Reports :
              resent' \/ (c.mi.firstAck /\ c.mi.lastAck
                            /\ RecvRate(c.mi) # "wrapped")]_flowVars
  BY DEF Timely
<1> QED
  BY <1>1, <1>2, <1>3, PTL DEF FlowSpec, ThroughputSound

=============================================================================
