-------------------------- MODULE TcpWriter_proofs --------------------------
(***************************************************************************)
(* What every handler of TcpConnection keeps of the writer, A.             *)
(*                                                                         *)
(* Sequence numbers know no bound here, so the first section gives the     *)
(* types of sockets and packets again without one.  The invariant of the   *)
(* writer, Writer(t, c, R, h), speaks of its socket t alone: c is the      *)
(* number of calls of Close so far, R the next number its peer expects,    *)
(* and h tells whether the handler began before the handshake was over.    *)
(* It says how m_txBuffer, the head of the stream and the next number hang *)
(* together (WriterData), that no wait is without a timer (WriterTimed),   *)
(* and what the packets are that the handler has sent (FromWriter).  Each  *)
(* operator of the module has a lemma: given the invariant and, where a    *)
(* packet is handled, that the packet is one the reader can have sent, the *)
(* socket it returns keeps it.  What the peer knows enters only as R.      *)
(* The last sections do the same for how high the numbers of a socket can  *)
(* get, of either end (Bounded), within limits a record L gives; the       *)
(* reader's handlers follow in TcpConnection_proofs.                       *)
(***************************************************************************)
EXTENDS TcpConnection, TcpTxBuffer_proofs, SequenceTheorems

\* The sets of values of the fields, under names that can stay unexpanded.
FlagSets == SUBSET {"SYN", "ACK", "FIN", "RST"}
SegmentSets == SUBSET (0..N-1)
Amounts == 0..N
Windows == {1, N}
CongStates == {"CA_OPEN", "CA_DISORDER", "CA_LOSS"}
MaybeNumber == Nat \cup {None}
SynCounts == 0..SynRetries
RetryCounts == 0..DataRetries
DelAckCounts == 0..DelAckMax
RetxEvents == {{}, {"RTO"}, {"SYN"}, {"SYN", "ACK"}, {"FIN", "ACK"}}

\* Packets and sockets with sequence numbers that know no bound.
NumberedPackets ==
  [flags: FlagSets, seq: Nat, ack: Nat, len: 0..1, sack: SegmentSets]

PacketSeqs == Seq(NumberedPackets)

NumberedSockets ==
  [state: States, ep: BOOLEAN, nxt: Nat, head: Nat, buf: Buffers,
   written: Amounts, cong: CongStates, cwnd: Windows, recover: Nat,
   rxNext: Nat, ooo: SegmentSets, fin: MaybeNumber, got: Amounts,
   synCount: SynCounts, retries: RetryCounts, retx: RetxEvents,
   lastAck: BOOLEAN, delAck: DelAckCounts, pend: BOOLEAN, onEmpty: BOOLEAN,
   shut: BOOLEAN, app: BOOLEAN, normal: BOOLEAN, error: BOOLEAN,
   failed: BOOLEAN, tx: PacketSeqs]

\* The fields that are about data are alike.
SameData(t, u) ==
  /\ u.buf = t.buf /\ u.written = t.written /\ u.nxt = t.nxt /\ u.head = t.head
  /\ u.rxNext = t.rxNext /\ u.ooo = t.ooo /\ u.fin = t.fin /\ u.got = t.got
  /\ u.onEmpty = t.onEmpty /\ u.shut = t.shut

Asked == {{"SYN"}, {"SYN", "ACK"}, {"FIN"}, {"FIN", "ACK"}, {"ACK"}, {"RST"}}

\* The values handlers assign are of their types.
LEMMA Values ==
  /\ 0 \in DelAckCounts /\ DelAckMax \in DelAckCounts
  /\ {} \in RetxEvents /\ {"RTO"} \in RetxEvents /\ {"FIN", "ACK"} \in RetxEvents
  /\ {"SYN"} \in RetxEvents /\ {"SYN", "ACK"} \in RetxEvents
  /\ Asked \subseteq FlagSets
  /\ 1 \in Windows /\ N \in Windows
  /\ SynRetries \in SynCounts /\ DataRetries \in RetryCounts
  /\ {} \in SegmentSets /\ {} \in FlagSets
  /\ {"RST", "ACK"} \in FlagSets
BY ConnectionAssumption
   DEF DelAckCounts, RetxEvents, Asked, FlagSets, Windows, SynCounts, RetryCounts,
       SegmentSets

\* The endpoint goes, and every timer with it.
LEMMA DeallocateIs ==
  ASSUME NEW t \in NumberedSockets
  PROVE  LET u == DeallocateEndPoint(t)
         IN  /\ u \in NumberedSockets /\ SameData(t, u) /\ u.state = t.state
             /\ ~u.ep /\ u.retx = {} /\ ~u.lastAck /\ u.delAck = 0 /\ u.tx = t.tx
             /\ ~u.pend /\ u.cwnd = t.cwnd
BY Values DEF DeallocateEndPoint, NumberedSockets, SameData

\* What SendEmptyPacket does to the socket.
LEMMA SendEmptyPacketIs ==
  ASSUME NEW t \in NumberedSockets, t.ep, NEW asked \in Asked,
         "SYN" \in asked => t.synCount # 0
  PROVE  LET u == SendEmptyPacket(t, asked)
             flags == IF "FIN" \in asked THEN {"FIN", "ACK"} ELSE asked
         IN  /\ u \in NumberedSockets /\ SameData(t, u) /\ u.state = t.state
             /\ u.ep /\ u.lastAck = t.lastAck /\ u.pend = t.pend
             /\ u.cwnd = t.cwnd
             /\ u.delAck = IF "ACK" \in flags THEN 0 ELSE t.delAck
             /\ u.retx = IF t.retx = {} /\ flags \notin {{"ACK"}, {"RST"}}
                         THEN flags ELSE t.retx
             /\ \E p \in NumberedPackets :
                  /\ u.tx = Append(t.tx, p)
                  /\ p.flags = flags /\ p.len = 0 /\ p.ack = t.rxNext
                  /\ ("FIN" \in asked
                        \/ t.state \notin {"FIN_WAIT_1", "LAST_ACK", "CLOSING"})
                       => p.seq = t.nxt
                  /\ p.sack = IF "ACK" \in flags THEN t.ooo ELSE {}
<1> DEFINE flags == IF "FIN" \in asked THEN {"FIN", "ACK"} ELSE asked
           past == "FIN" \notin asked /\ t.state \in {"FIN_WAIT_1", "LAST_ACK", "CLOSING"}
           p == [flags |-> flags, seq |-> IF past THEN t.nxt + 1 ELSE t.nxt,
                 ack |-> t.rxNext, len |-> 0,
                 sack |-> IF "ACK" \in flags THEN t.ooo ELSE {}]
           sc == IF "SYN" \in flags THEN t.synCount - 1 ELSE t.synCount
           da == IF "ACK" \in flags THEN 0 ELSE t.delAck
           rx == IF t.retx = {} /\ flags \cap {"SYN", "FIN"} # {} THEN flags
                 ELSE t.retx
           u == SendEmptyPacket(t, asked)
<1>1. flags \in Asked
  BY DEF Asked
<1>2. (IF "FIN" \in asked THEN asked \cup {"ACK"} ELSE asked) = flags
  BY DEF Asked
<1>3. p \in NumberedPackets
  <2>1. flags \in FlagSets
    BY <1>1, Values
  <2>2. t.nxt \in Nat /\ t.rxNext \in Nat /\ t.ooo \in SegmentSets
    BY DEF NumberedSockets
  <2>3. (IF past THEN t.nxt + 1 ELSE t.nxt) \in Nat
    BY <2>2
  <2>4. (IF "ACK" \in flags THEN t.ooo ELSE {}) \in SegmentSets
    BY <2>2, Values
  <2> HIDE DEF flags, past
  <2> QED
    BY <2>1, <2>2, <2>3, <2>4 DEF NumberedPackets
<1>4. sc \in SynCounts /\ da \in DelAckCounts /\ rx \in RetxEvents
  <2>1. sc \in SynCounts
    <3>1. t.synCount \in 0..SynRetries /\ SynRetries \in Nat
      BY ConnectionAssumption DEF NumberedSockets, SynCounts
    <3>2. "SYN" \in flags => t.synCount # 0
      BY DEF Asked
    <3> HIDE DEF flags
    <3> QED
      BY <3>1, <3>2 DEF SynCounts
  <2>2. da \in DelAckCounts
    BY Values DEF NumberedSockets
  <2>3. rx \in RetxEvents
    <3>1. t.retx \in RetxEvents
      BY DEF NumberedSockets
    <3>2. flags \cap {"SYN", "FIN"} # {} => flags \in RetxEvents
      BY DEF Asked, RetxEvents
    <3> QED
      BY <3>1, <3>2
  <2> QED
    BY <2>1, <2>2, <2>3
<1>5. Append(t.tx, p) \in PacketSeqs
  <2> HIDE DEF p
  <2> QED
    BY <1>3, AppendProperties DEF NumberedSockets, PacketSeqs
<1>6. u = [t EXCEPT !.synCount = sc, !.delAck = da, !.retx = rx,
                    !.tx = Append(@, p)]
  <2>1. ~("SYN" \in flags /\ t.synCount = 0)
    BY DEF Asked
  <2> QED
    BY <1>2, <2>1 DEF SendEmptyPacket, NumberedSockets
<1>7. rx = IF t.retx = {} /\ flags \notin {{"ACK"}, {"RST"}} THEN flags ELSE t.retx
  BY DEF Asked
<1>8. /\ p.flags = flags /\ p.len = 0 /\ p.ack = t.rxNext
      /\ ("FIN" \in asked \/ t.state \notin {"FIN_WAIT_1", "LAST_ACK", "CLOSING"})
           => p.seq = t.nxt
      /\ p.sack = IF "ACK" \in flags THEN t.ooo ELSE {}
  OBVIOUS
<1> HIDE DEF flags, p, sc, da, rx, u
<1>9. u \in NumberedSockets
  BY <1>4, <1>5, <1>6 DEF NumberedSockets
<1>10. /\ SameData(t, u) /\ u.state = t.state
       /\ u.ep /\ u.lastAck = t.lastAck /\ u.pend = t.pend
       /\ u.cwnd = t.cwnd /\ u.delAck = da /\ u.retx = rx
       /\ u.tx = Append(t.tx, p)
  BY <1>6 DEF NumberedSockets, SameData
<1> QED
  BY <1>3, <1>7, <1>8, <1>9, <1>10 DEF u, da, flags

-----------------------------------------------------------------------------
\* The writer's socket.

FinSent == {"FIN_WAIT_1", "FIN_WAIT_2", "CLOSING", "LAST_ACK", "TIME_WAIT"}

Harmless(p) == p.len = 0 /\ "FIN" \notin p.flags

\* What a packet of the writer says: data that was written, a FIN, of a writer
\* that has closed, behind all of it, a SYN only alone.
FromWriter(p, w, c, R) ==
  /\ p.len = 1 => p.seq \in 1 .. w /\ ("FIN" \in p.flags => p.seq = w)
  /\ p.len = 0 /\ "FIN" \in p.flags => w < p.seq /\ (p.seq = w + 1 \/ p.seq <= R)
  /\ "FIN" \in p.flags => c > 0
  /\ "SYN" \in p.flags => p.flags = {"SYN"} /\ p.seq = 0 /\ p.len = 0

WriterPackets(w, c, R) == {p \in NumberedPackets : FromWriter(p, w, c, R)}

\* What one handler sends: nothing that counts before the handshake, no SYN after.
Outgoing(w, c, R, h) ==
  Seq({p \in WriterPackets(w, c, R) :
         IF h = 0 THEN Harmless(p) ELSE "SYN" \notin p.flags})

WriterData(t, c, R, h) ==
  /\ t \in NumberedSockets
  /\ GoodBuffer(t.buf) /\ t.buf.high <= t.written
  /\ t.head = 0 => t.nxt = 0 /\ t.written = 0 /\ t.state \in {"CLOSED", "SYN_SENT"}
  /\ t.head > 0 =>
       /\ t.buf.una = IF t.head - 1 <= t.written THEN t.head - 1 ELSE t.written
       /\ t.buf.una = t.written => t.head <= t.nxt
       /\ t.nxt <= t.written + 1 \/ t.nxt <= R
       /\ t.nxt <= t.buf.high + 1 \/ t.buf.high = t.written
       /\ t.state \notin {"SYN_SENT", "SYN_RCVD"}
       /\ t.head <= R
  /\ t.onEmpty => c > 0
  /\ t.state \in FinSent => c > 0 /\ t.buf.high = t.written /\ t.head > 0
  /\ t.state = "FIN_WAIT_2" => t.written + 2 <= R
  /\ ~t.shut /\ ~t.lastAck
  /\ "SYN" \in t.retx => t.retx = {"SYN"} /\ t.state = "SYN_SENT"
  /\ "FIN" \in t.retx => c > 0 /\ t.buf.una = t.written /\ t.nxt > t.written
  /\ "RTO" \in t.retx => t.head > 0
  /\ t.ep => t.state \notin {"CLOSED", "SYN_RCVD"}
  /\ ~t.ep => t.retx = {} /\ ~DelAckRuns(t)
  /\ t.tx \in Outgoing(t.written, c, R, h)

\* Its timers: no wait without one, and ReTxTimeout while data is outstanding.
WriterTimed(t) ==
  t.ep =>
    /\ t.state \in {"SYN_SENT", "FIN_WAIT_1", "CLOSING", "LAST_ACK"} => t.retx # {}
    /\ t.buf.una < t.buf.high /\ t.state # "TIME_WAIT" => t.retx = {"RTO"}
    /\ t.retx = {"RTO"} /\ t.state \in {"ESTABLISHED", "CLOSE_WAIT", "LAST_ACK"}
         => t.buf.una < t.written

Writer(t, c, R, h) == WriterData(t, c, R, h) /\ WriterTimed(t)

\* One more packet of the right kind.
LEMMA OutgoingAppend ==
  ASSUME NEW w, NEW c, NEW R, NEW h, NEW s \in Outgoing(w, c, R, h),
         NEW p \in NumberedPackets, FromWriter(p, w, c, R),
         h = 0 => Harmless(p), h # 0 => "SYN" \notin p.flags
  PROVE  Append(s, p) \in Outgoing(w, c, R, h)
<1> DEFINE S == {q \in WriterPackets(w, c, R) :
                   IF h = 0 THEN Harmless(q) ELSE "SYN" \notin q.flags}
<1>1. p \in S /\ s \in Seq(S)
  BY DEF WriterPackets, Outgoing
<1> HIDE DEF S
<1>2. Append(s, p) \in Seq(S)
  BY <1>1, AppendProperties
<1> QED
  BY <1>2 DEF S, Outgoing

\* A socket loses its endpoint: what it may have left undone no longer counts.
LEMMA DeallocateWriter ==
  ASSUME NEW t, NEW c, NEW R, NEW h, WriterData(t, c, R, h)
  PROVE  LET u == DeallocateEndPoint(t)
         IN  /\ Writer(u, c, R, h) /\ SameData(t, u) /\ u.state = t.state
             /\ ~u.ep
<1> DEFINE u == DeallocateEndPoint(t)
<1>1. t \in NumberedSockets
  BY DEF WriterData
<1>2. /\ u \in NumberedSockets /\ SameData(t, u) /\ u.state = t.state
      /\ ~u.ep /\ u.retx = {} /\ ~u.lastAck /\ u.delAck = 0 /\ u.tx = t.tx
  BY <1>1, DeallocateIs
<1> HIDE DEF u
<1>3. WriterData(u, c, R, h)
  BY <1>2 DEF WriterData, SameData, DelAckRuns
<1> QED
  BY <1>2, <1>3 DEF Writer, WriterTimed, u

\* Drop and CloseAndNotify.
LEMMA DropWriter ==
  ASSUME NEW t, NEW c, NEW R, NEW h, WriterData(t, c, R, h)
  PROVE  LET u == Drop(t)
         IN  Writer(u, c, R, h) /\ SameData(t, u) /\ u.state = t.state /\ ~u.ep
<1> DEFINE d == DeallocateEndPoint(t)
           u == Drop(t)
<1>1. Writer(d, c, R, h) /\ SameData(t, d) /\ d.state = t.state /\ ~d.ep
  BY DeallocateWriter
<1>2. u = [d EXCEPT !.error = TRUE]
  BY DEF Drop
<1> HIDE DEF d, u
<1>3. d \in NumberedSockets
  BY <1>1 DEF Writer, WriterData
<1>4. /\ u \in NumberedSockets /\ SameData(d, u) /\ u.state = d.state /\ u.ep = d.ep
      /\ u.retx = d.retx /\ u.lastAck = d.lastAck /\ u.delAck = d.delAck /\ u.tx = d.tx
  <2>1. u \in NumberedSockets
    BY <1>2, <1>3 DEF NumberedSockets
  <2>2. SameData(d, u)
    BY <1>2, <1>3 DEF NumberedSockets, SameData
  <2> QED
    BY <1>2, <1>3, <2>1, <2>2 DEF NumberedSockets
<1>5. Writer(u, c, R, h)
  BY <1>1, <1>4 DEF Writer, WriterData, WriterTimed, SameData, DelAckRuns
<1> QED
  BY <1>1, <1>4, <1>5 DEF SameData, u

\* CloseAndNotify, at the writer: the endpoint goes, with its timers; the data stays.
LEMMA CloseAndNotifyWriter ==
  ASSUME NEW t, NEW c, NEW R, NEW h, WriterData(t, c, R, h)
  PROVE  LET u == CloseAndNotify(t)
         IN  Writer(u, c, R, h) /\ SameData(t, u) /\ ~u.ep
<1> DEFINE d == DeallocateEndPoint(t)
           u == CloseAndNotify(t)
<1>1. Writer(d, c, R, h) /\ SameData(t, d) /\ d.state = t.state /\ ~d.ep
  BY DeallocateWriter
<1>2. u = [d EXCEPT !.normal = TRUE, !.state = "CLOSED"]
  BY DEF CloseAndNotify
<1> HIDE DEF d, u
<1>3. d \in NumberedSockets
  BY <1>1 DEF Writer, WriterData
<1>4. /\ u \in NumberedSockets /\ SameData(d, u) /\ u.state = "CLOSED" /\ u.ep = d.ep
      /\ u.retx = d.retx /\ u.lastAck = d.lastAck /\ u.delAck = d.delAck /\ u.tx = d.tx
  <2>1. "CLOSED" \in States
    BY DEF States
  <2>2. u \in NumberedSockets
    BY <1>2, <1>3, <2>1 DEF NumberedSockets
  <2>3. SameData(d, u)
    BY <1>2, <1>3 DEF NumberedSockets, SameData
  <2> QED
    BY <1>2, <1>3, <2>2, <2>3 DEF NumberedSockets
<1>5. Writer(u, c, R, h)
  BY <1>1, <1>4 DEF Writer, WriterData, WriterTimed, SameData, DelAckRuns, FinSent
<1> QED
  BY <1>1, <1>4, <1>5 DEF SameData, u

\* An ACK or a RST carries nothing of the stream, and starts no timer.
LEMMA SendPlainWriter ==
  ASSUME NEW t, NEW c, NEW R, NEW h, WriterData(t, c, R, h),
         NEW asked \in {{"ACK"}, {"RST"}}
  PROVE  LET u == SendEmptyPacket(t, asked)
         IN  /\ WriterData(u, c, R, h) /\ SameData(t, u) /\ u.state = t.state
             /\ u.ep = t.ep /\ u.retx = t.retx /\ u.cwnd = t.cwnd
             /\ WriterTimed(t) => WriterTimed(u)
<1> DEFINE u == SendEmptyPacket(t, asked)
<1>1. t \in NumberedSockets
  BY DEF WriterData
<1>2. CASE ~t.ep
  <2>1. u = t
    BY <1>2 DEF SendEmptyPacket
  <2> HIDE DEF u
  <2> QED
    BY <2>1 DEF SameData, u
<1>3. CASE t.ep
  <2>1. asked \in Asked /\ "SYN" \notin asked /\ "FIN" \notin asked
    BY DEF Asked
  <2>2. PICK p \in NumberedPackets :
          /\ u.tx = Append(t.tx, p) /\ p.flags = asked /\ p.len = 0
    BY <1>1, <1>3, <2>1, SendEmptyPacketIs
  <2>3. /\ u \in NumberedSockets /\ SameData(t, u) /\ u.state = t.state
        /\ u.ep /\ u.lastAck = t.lastAck /\ u.retx = t.retx /\ u.cwnd = t.cwnd
        /\ u.delAck \in {0, t.delAck}
    BY <1>1, <1>3, <2>1, SendEmptyPacketIs
  <2> HIDE DEF u
  <2>4. u.tx \in Outgoing(u.written, c, R, h)
    BY <2>1, <2>2, <2>3, OutgoingAppend DEF WriterData, SameData, FromWriter, Harmless
  <2>5. WriterData(u, c, R, h)
    BY <1>3, <2>3, <2>4 DEF WriterData, SameData
  <2> QED
    BY <1>3, <2>3, <2>5 DEF WriterTimed, SameData, u
<1> QED
  BY <1>2, <1>3

\* A FIN is sent behind all data, by a writer that has closed.
LEMMA SendFinWriter ==
  ASSUME NEW t, NEW c, NEW R \in Nat, NEW h,
         WriterData(t, c, R, h), h # 0, c > 0, t.ep,
         t.head > 0, t.written < t.nxt, t.retx = {} => t.buf.una = t.written,
         NEW asked \in {{"FIN"}, {"FIN", "ACK"}}
  PROVE  LET u == SendEmptyPacket(t, asked)
         IN  /\ WriterData(u, c, R, h) /\ SameData(t, u) /\ u.state = t.state
             /\ u.ep /\ u.retx = IF t.retx = {} THEN {"FIN", "ACK"} ELSE t.retx
<1> DEFINE u == SendEmptyPacket(t, asked)
           flags == {"FIN", "ACK"}
<1>1. t \in NumberedSockets
  BY DEF WriterData
<1>2. asked \in Asked /\ "SYN" \notin asked /\ "FIN" \in asked
  BY DEF Asked
<1>3. flags \notin {{"ACK"}, {"RST"}} /\ "SYN" \notin flags /\ "RTO" \notin flags
  OBVIOUS
<1>4. PICK p \in NumberedPackets :
        /\ u.tx = Append(t.tx, p) /\ p.flags = flags /\ p.len = 0 /\ p.seq = t.nxt
  BY <1>1, <1>2, SendEmptyPacketIs
<1>5. /\ u \in NumberedSockets /\ SameData(t, u) /\ u.state = t.state
      /\ u.ep /\ u.lastAck = t.lastAck
      /\ u.retx = IF t.retx = {} THEN flags ELSE t.retx
  BY <1>1, <1>2, <1>3, SendEmptyPacketIs
<1> HIDE DEF u, flags
<1>6. FromWriter(p, t.written, c, R) /\ "SYN" \notin p.flags
  <2>1. t.nxt \in Nat /\ t.written \in Nat
    BY <1>1, TxBufferAssumption DEF NumberedSockets, Amounts
  <2>2. t.nxt = t.written + 1 \/ t.nxt <= R
    BY <2>1 DEF WriterData
  <2> QED
    BY <1>3, <1>4, <2>1, <2>2 DEF FromWriter
<1>7. u.tx \in Outgoing(t.written, c, R, h)
  <2>1. t.tx \in Outgoing(t.written, c, R, h)
    BY DEF WriterData
  <2> QED
    BY <1>4, <1>6, <2>1, OutgoingAppend, SMT
<1>8. WriterData(u, c, R, h)
  <2>1. "SYN" \in u.retx => "SYN" \in t.retx /\ u.retx = t.retx
    BY <1>3, <1>5
  <2>2. "FIN" \in u.retx => c > 0 /\ t.buf.una = t.written /\ t.nxt > t.written
    <3>1. t.nxt \in Nat /\ t.written \in Nat
      BY <1>1, TxBufferAssumption DEF NumberedSockets, Amounts
    <3> QED
      BY <1>5, <3>1 DEF WriterData
  <2>3. "RTO" \in u.retx => t.head > 0
    OBVIOUS
  <2> QED
    BY <1>5, <1>7, <2>1, <2>2, <2>3 DEF WriterData, SameData
<1> QED
  BY <1>5, <1>8 DEF u, flags

\* The application closes: at once, or when the last segment is sent.
LEMMA DoCloseWriter ==
  ASSUME NEW t, NEW c, NEW R \in Nat, NEW h, Writer(t, c, R, h), c > 0,
         h = 0 => t.head = 0, AllSent(t)
  PROVE  LET u == DoClose(t)
         IN  Writer(u, c, R, h) /\ SameData(t, u)
<1> DEFINE u == DoClose(t)
<1>1. t \in NumberedSockets /\ WriterData(t, c, R, h)
  BY DEF Writer, WriterData
<1>2. CASE t.state \in {"ESTABLISHED", "CLOSE_WAIT"}
  <2> DEFINE asked == IF t.state = "ESTABLISHED" THEN {"FIN"} ELSE {"FIN", "ACK"}
             s == SendEmptyPacket(t, asked)
             next == IF t.state = "ESTABLISHED" THEN "FIN_WAIT_1" ELSE "LAST_ACK"
  <2>1. u = [s EXCEPT !.state = next]
    BY <1>2 DEF DoClose
  <2>2. t.head \in Nat /\ t.nxt \in Nat /\ t.written \in Nat /\ t.buf.una \in Nat
        /\ t.buf.high \in Nat /\ t.buf.una <= t.buf.high
    BY <1>1, TxBufferAssumption
       DEF NumberedSockets, Amounts, Buffers, GoodBuffer, WriterData
  <2>3. t.head > 0 /\ h # 0
    BY <1>1, <1>2, <2>2 DEF WriterData
  <2>4. t.nxt > t.written /\ t.buf.high = t.written
    BY <1>1, <2>2, <2>3 DEF AllSent, WriterData
  <2>5. t.ep /\ t.retx = {} => t.buf.una = t.written
    BY <1>2, <2>2, <2>4 DEF Writer, WriterTimed
  <2>6. asked \in {{"FIN"}, {"FIN", "ACK"}}
    OBVIOUS
  <2>7. /\ WriterData(s, c, R, h) /\ SameData(t, s) /\ s.state = t.state
        /\ s.ep = t.ep
        /\ s.ep => s.retx = IF t.retx = {} THEN {"FIN", "ACK"} ELSE t.retx
    <3>1. CASE t.ep
      <4> HIDE DEF asked
      <4> QED
        BY <1>1, <2>3, <2>4, <2>5, <2>6, <3>1, SendFinWriter
    <3>2. CASE ~t.ep
      <4>1. s = t
        BY <3>2 DEF SendEmptyPacket
      <4> HIDE DEF s
      <4> QED
        BY <1>1, <3>2, <4>1 DEF SameData
    <3> QED
      BY <3>1, <3>2
  <2>8. next \in {"FIN_WAIT_1", "LAST_ACK"}
    OBVIOUS
  <2> HIDE DEF s, asked, next, u
  <2>9. s \in NumberedSockets
    BY <2>7 DEF WriterData
  <2>10. /\ u \in NumberedSockets /\ SameData(s, u) /\ u.state = next /\ u.ep = s.ep
         /\ u.retx = s.retx /\ u.lastAck = s.lastAck /\ u.delAck = s.delAck
         /\ u.tx = s.tx
    BY <2>1, <2>8, <2>9 DEF NumberedSockets, SameData, States
  <2>11. WriterData(u, c, R, h)
    <3>1. "SYN" \notin s.retx
      BY <1>2, <2>7 DEF WriterData
    <3> QED
      BY <2>3, <2>4, <2>7, <2>8, <2>10, <3>1 DEF WriterData, SameData, DelAckRuns, FinSent
  <2>12. WriterTimed(u)
    <3>1. {"FIN", "ACK"} # {"RTO"} /\ {"FIN", "ACK"} # {}
      OBVIOUS
    <3>2. u.ep => t.ep /\ u.retx # {} /\ (u.retx = {"RTO"} => t.retx = {"RTO"})
      BY <2>7, <2>10, <3>1
    <3> QED
      BY <1>2, <2>2, <2>4, <2>7, <2>10, <3>2 DEF Writer, WriterTimed, SameData, next
  <2> QED
    BY <2>7, <2>10, <2>11, <2>12 DEF Writer, SameData, u
<1>3. CASE t.state \in {"SYN_SENT", "CLOSING"}
  <2> DEFINE s == SendEmptyPacket(t, {"RST"})
             d == Drop(s)
  <2>1. u = CloseAndNotify(d)
    BY <1>3 DEF DoClose, SendRST
  <2>2. WriterData(s, c, R, h) /\ SameData(t, s)
    BY <1>1, SendPlainWriter
  <2> HIDE DEF s
  <2>3. Writer(d, c, R, h) /\ SameData(s, d)
    BY <2>2, DropWriter
  <2> HIDE DEF d
  <2>4. Writer(u, c, R, h) /\ SameData(d, u)
    BY <2>1, <2>3, CloseAndNotifyWriter DEF Writer
  <2> QED
    BY <2>2, <2>3, <2>4 DEF SameData
<1>4. CASE t.state \notin {"ESTABLISHED", "CLOSE_WAIT", "SYN_SENT", "CLOSING"}
  <2>1. u = t
    BY <1>4 DEF DoClose
  <2> HIDE DEF u
  <2> QED
    BY <2>1 DEF SameData, u
<1> QED
  BY <1>2, <1>3, <1>4

\* The fields the writer's invariant reads are alike.
Alike(t, u) ==
  /\ u.buf = t.buf /\ u.written = t.written /\ u.nxt = t.nxt /\ u.head = t.head
  /\ u.onEmpty = t.onEmpty /\ u.shut = t.shut /\ u.state = t.state /\ u.ep = t.ep
  /\ u.retx = t.retx /\ u.lastAck = t.lastAck /\ u.tx = t.tx
  /\ ~u.ep => u.delAck = t.delAck

\* A socket alike in what the invariant speaks of has the invariant.
LEMMA AlikeWriter ==
  ASSUME NEW t, NEW u \in NumberedSockets, Alike(t, u), NEW c, NEW R, NEW h,
         WriterData(t, c, R, h)
  PROVE  WriterData(u, c, R, h) /\ (WriterTimed(t) => WriterTimed(u))
<1>1. WriterData(u, c, R, h)
  BY DEF WriterData, Alike, DelAckRuns
<1>2. WriterTimed(t) => WriterTimed(u)
  BY DEF WriterTimed, Alike
<1> QED
  BY <1>1, <1>2

\* Close: a reset, a FIN now, or the FIN with the last segment.
LEMMA CloseWriter ==
  ASSUME NEW t, NEW c, NEW R \in Nat, NEW h, Writer(t, c, R, h), c > 0,
         h = 0 => t.head = 0
  PROVE  LET u == Close(t)
         IN  /\ Writer(u, c, R, h)
             /\ u.buf = t.buf /\ u.head = t.head /\ u.written = t.written
<1> DEFINE u == Close(t)
<1>1. t \in NumberedSockets /\ WriterData(t, c, R, h)
  BY DEF Writer, WriterData
<1>2. CASE t.ooo # {}
  <2> DEFINE s == SendEmptyPacket(t, {"RST"})
  <2>1. u = Drop(s)
    BY <1>2 DEF Close, SendRST
  <2>2. WriterData(s, c, R, h) /\ SameData(t, s)
    BY <1>1, SendPlainWriter
  <2> HIDE DEF s, u
  <2>3. Writer(u, c, R, h) /\ SameData(s, u)
    BY <2>1, <2>2, DropWriter
  <2> QED
    BY <2>2, <2>3 DEF SameData, u
<1>3. CASE t.ooo = {} /\ ~AllSent(t)
  <2>1. u = [t EXCEPT !.onEmpty = TRUE]
    BY <1>3 DEF Close
  <2> HIDE DEF u
  <2>2. /\ u \in NumberedSockets /\ u.buf = t.buf /\ u.written = t.written
        /\ u.nxt = t.nxt /\ u.head = t.head /\ u.shut = t.shut
        /\ u.state = t.state /\ u.ep = t.ep /\ u.retx = t.retx
        /\ u.lastAck = t.lastAck /\ u.tx = t.tx /\ u.delAck = t.delAck
    BY <1>1, <2>1 DEF NumberedSockets
  <2>3. WriterData(u, c, R, h)
    BY <1>1, <2>2 DEF WriterData, DelAckRuns
  <2>4. WriterTimed(u)
    BY <2>2 DEF Writer, WriterTimed
  <2> QED
    BY <2>2, <2>3, <2>4 DEF Writer, u
<1>4. CASE t.ooo = {} /\ AllSent(t)
  <2>1. u = DoClose(t)
    BY <1>4 DEF Close
  <2> HIDE DEF u
  <2> QED
    BY <1>4, <2>1, DoCloseWriter DEF SameData, u
<1> QED
  BY <1>2, <1>3, <1>4

\* The reader's end is the first to close: the writer goes on, in CLOSE_WAIT.
LEMMA DoPeerCloseWriter ==
  ASSUME NEW t, NEW c, NEW R \in Nat, NEW h, Writer(t, c, R, h),
         t.state = "ESTABLISHED"
  PROVE  LET u == DoPeerClose(t)
         IN  Writer(u, c, R, h) /\ SameData(t, u)
<1> DEFINE u == DoPeerClose(t)
           told == [t EXCEPT !.state = "CLOSE_WAIT", !.normal = TRUE]
           s == SendEmptyPacket(told, {"ACK"})
<1>1. t \in NumberedSockets /\ WriterData(t, c, R, h) /\ ~t.shut
  BY DEF Writer, WriterData
<1>2. /\ told \in NumberedSockets /\ SameData(t, told) /\ told.state = "CLOSE_WAIT"
      /\ told.ep = t.ep /\ told.retx = t.retx /\ told.lastAck = t.lastAck
      /\ told.delAck = t.delAck /\ told.tx = t.tx
  BY <1>1 DEF NumberedSockets, SameData, States
<1>3. u = IF s.state = "LAST_ACK"
          THEN [s EXCEPT !.retries = DataRetries, !.lastAck = TRUE] ELSE s
  BY <1>1, <1>2 DEF DoPeerClose, SameData
<1> HIDE DEF told
<1>4. WriterData(told, c, R, h)
  BY <1>1, <1>2 DEF WriterData, SameData, DelAckRuns, FinSent
<1>5. WriterTimed(told)
  BY <1>2 DEF Writer, WriterTimed, SameData
<1>6. /\ WriterData(s, c, R, h) /\ SameData(told, s) /\ s.state = "CLOSE_WAIT"
      /\ WriterTimed(s)
  BY <1>2, <1>4, <1>5, SendPlainWriter
<1> HIDE DEF s, u
<1>7. u = s
  BY <1>3, <1>6
<1> QED
  BY <1>2, <1>6, <1>7 DEF Writer, SameData, u

\* PeerClose, for a FIN without data.
LEMMA PeerCloseWriter ==
  ASSUME NEW t, NEW c, NEW R \in Nat, NEW h, Writer(t, c, R, h),
         t.state = "ESTABLISHED", NEW p \in NumberedPackets, p.len = 0
  PROVE  LET u == PeerClose(t, p)
         IN  /\ Writer(u, c, R, h)
             /\ u.buf = t.buf /\ u.head = t.head /\ u.written = t.written
<1> DEFINE u == PeerClose(t, p)
           s == SetFinSequence(t, p.seq + p.len)
<1>1. t \in NumberedSockets /\ WriterData(t, c, R, h)
  BY DEF Writer, WriterData
<1>2. p.seq + p.len \in MaybeNumber
  BY DEF NumberedPackets, MaybeNumber
<1>3. s = [t EXCEPT !.fin = p.seq + p.len,
                    !.rxNext = IF @ = p.seq + p.len THEN @ + 1 ELSE @]
  BY DEF SetFinSequence
<1>4. u = t \/ u = s \/ u = DoPeerClose(s)
  BY DEF PeerClose
<1> HIDE DEF s
<1>5. s \in NumberedSockets /\ Alike(t, s)
  <2>1. (IF t.rxNext = p.seq + p.len THEN t.rxNext + 1 ELSE t.rxNext) \in Nat
    BY <1>1 DEF NumberedSockets
  <2>2. s \in NumberedSockets
    BY <1>1, <1>2, <1>3, <2>1, ZenonT(60) DEF NumberedSockets
  <2> QED
    BY <1>1, <1>3, <2>2 DEF NumberedSockets, Alike
<1>6. Writer(s, c, R, h) /\ s.state = "ESTABLISHED"
  BY <1>1, <1>5, AlikeWriter DEF Writer, Alike
<1>7. LET v == DoPeerClose(s) IN Writer(v, c, R, h) /\ SameData(s, v)
  BY <1>6, DoPeerCloseWriter
<1> HIDE DEF u
<1> QED
  BY <1>4, <1>5, <1>6, <1>7 DEF Alike, SameData, u

\* One segment is sent: after it ReTxTimeout is scheduled, whatever was before.
LEMMA SendDataWriter ==
  ASSUME NEW t, NEW c \in Nat, NEW R \in Nat, NEW h, WriterData(t, c, R, h), h # 0,
         t.ep, t.buf.una < t.written, NEW seg, CanCopy(t.buf, seg), seg < t.written
  PROVE  LET u == SendDataPacket(t, seg)
         IN  /\ Writer(u, c, R, h) /\ u.buf = Copy(t.buf, seg)
             /\ u.head = t.head /\ u.written = t.written
<1> DEFINE last == t.onEmpty /\ seg + 1 = t.written
           flags == IF last THEN {"ACK", "FIN"} ELSE {"ACK"}
           p == [flags |-> flags, seq |-> seg + 1, ack |-> t.rxNext,
                 len |-> 1, sack |-> {}]
           b == Copy(t.buf, seg)
           rx == IF t.retx = {} THEN {"RTO"} ELSE t.retx
           st == CASE last /\ t.state = "ESTABLISHED" -> "FIN_WAIT_1"
                   [] last /\ t.state = "CLOSE_WAIT" -> "LAST_ACK"
                   [] OTHER -> t.state
           u == SendDataPacket(t, seg)
<1>1. t \in NumberedSockets /\ GoodBuffer(t.buf)
  BY DEF WriterData
<1>2. /\ t.written \in 0..N /\ N \in Nat /\ t.nxt \in Nat /\ t.head \in Nat
      /\ t.rxNext \in Nat
  BY <1>1, TxBufferAssumption DEF NumberedSockets, Amounts
<1>3. GoodBuffer(b) /\ b.una = t.buf.una /\ b.sacked = t.buf.sacked /\ seg \in 0..N-1
  BY <1>1, CopyGood
<1>4. /\ t.buf.high \in Nat /\ t.buf.una \in Nat
      /\ b.high \in Nat /\ t.buf.high <= b.high /\ seg + 1 <= b.high
      /\ b.high <= t.written
  BY <1>1, <1>2, <1>3, TxBufferAssumption
     DEF GoodBuffer, Buffers, Sent, CanCopy, Copy, WriterData
<1>5. t.head > 0
  BY <1>2, <1>3 DEF WriterData
<1>6. p \in NumberedPackets
  <2>1. flags \in FlagSets
    BY DEF FlagSets
  <2>2. seg + 1 \in Nat /\ {} \in SegmentSets
    BY <1>3, Values, TxBufferAssumption
  <2> HIDE DEF flags
  <2> QED
    BY <1>2, <2>1, <2>2 DEF NumberedPackets
<1>7. FromWriter(p, t.written, c, R) /\ "SYN" \notin p.flags
  <2>1. last => c > 0
    BY DEF WriterData
  <2>2. "SYN" \notin flags /\ ("FIN" \in flags <=> last)
    OBVIOUS
  <2> HIDE DEF flags
  <2> QED
    BY <1>2, <1>3, <2>1, <2>2 DEF FromWriter
<1>8. rx = {"RTO"}
  <2>1. t.retx \in RetxEvents
    BY <1>1 DEF NumberedSockets
  <2>2. "FIN" \notin t.retx
    BY <1>2, <1>4 DEF WriterData
  <2>3. "SYN" \notin t.retx
    BY <1>5 DEF WriterData
  <2> QED
    BY <2>1, <2>2, <2>3 DEF RetxEvents
<1>9. u = [t EXCEPT !.buf = b, !.nxt = seg + 2, !.delAck = 0, !.retx = rx,
                    !.state = st, !.tx = Append(@, p)]
  BY <1>1 DEF SendDataPacket, NumberedSockets
<1>10. st \in States /\ b \in Buffers /\ rx \in RetxEvents /\ 0 \in DelAckCounts
       /\ Append(t.tx, p) \in PacketSeqs /\ seg + 2 \in Nat
  <2>1. t.state \in States
    BY <1>1 DEF NumberedSockets
  <2>2. st \in States
    BY <2>1 DEF States
  <2>3. Append(t.tx, p) \in PacketSeqs
    <3> HIDE DEF p
    <3> QED
      BY <1>1, <1>6, AppendProperties DEF NumberedSockets, PacketSeqs
  <2>4. b \in Buffers
    BY <1>3 DEF GoodBuffer
  <2>5. seg + 2 \in Nat
    BY <1>2, <1>3
  <2>6. rx \in RetxEvents /\ 0 \in DelAckCounts
    BY <1>8, Values
  <2> HIDE DEF st, rx, b, p
  <2> QED
    BY <2>2, <2>3, <2>4, <2>5, <2>6
<1>11. st = t.state \/ (t.onEmpty /\ seg + 1 = t.written /\ st \in {"FIN_WAIT_1", "LAST_ACK"})
  OBVIOUS
<1> HIDE DEF b, rx, st, p, u, flags, last
<1>12. u \in NumberedSockets
  BY <1>1, <1>9, <1>10 DEF NumberedSockets
<1>13. /\ u.buf = b /\ u.nxt = seg + 2 /\ u.delAck = 0 /\ u.retx = {"RTO"}
       /\ u.state = st /\ u.tx = Append(t.tx, p)
       /\ u.written = t.written /\ u.head = t.head /\ u.onEmpty = t.onEmpty
       /\ u.ep /\ u.shut = t.shut /\ u.lastAck = t.lastAck
  <2>1. /\ u.buf = b /\ u.nxt = seg + 2 /\ u.delAck = 0 /\ u.retx = rx
        /\ u.state = st /\ u.tx = Append(t.tx, p)
    BY <1>1, <1>9 DEF NumberedSockets
  <2>2. /\ u.written = t.written /\ u.head = t.head /\ u.onEmpty = t.onEmpty
        /\ u.ep = t.ep /\ u.shut = t.shut /\ u.lastAck = t.lastAck
    BY <1>1, <1>9 DEF NumberedSockets
  <2> QED
    BY <1>8, <2>1, <2>2
<1>14. u.tx \in Outgoing(t.written, c, R, h)
  <2>1. t.tx \in Outgoing(t.written, c, R, h)
    BY DEF WriterData
  <2> QED
    BY <1>6, <1>7, <1>13, <2>1, OutgoingAppend
<1>15. WriterData(u, c, R, h)
  <2>1. /\ u.nxt <= u.written + 1 /\ u.nxt <= u.buf.high + 1
        /\ u.buf.una = IF u.head - 1 <= u.written THEN u.head - 1 ELSE u.written
        /\ u.buf.una < u.written /\ u.head <= R
    BY <1>2, <1>3, <1>4, <1>5, <1>13, SMTT(30) DEF WriterData
  <2>2. u.state \in FinSent => c > 0 /\ u.buf.high = u.written
    <3>1. CASE st = t.state
      BY <1>2, <1>4, <1>13, <3>1 DEF WriterData
    <3>2. CASE t.onEmpty /\ seg + 1 = t.written
      BY <1>2, <1>3, <1>4, <1>13, <3>2 DEF WriterData
    <3> QED
      BY <1>11, <3>1, <3>2
  <2>3. /\ u.state \notin {"SYN_SENT", "SYN_RCVD", "CLOSED"}
        /\ u.state = "FIN_WAIT_2" => u.written + 2 <= R
    BY <1>5, <1>11, <1>13 DEF WriterData
  <2> QED
    BY <1>3, <1>4, <1>5, <1>12, <1>13, <1>14, <2>1, <2>2, <2>3 DEF WriterData
<1>16. WriterTimed(u)
  BY <1>3, <1>13 DEF WriterTimed
<1> QED
  BY <1>13, <1>15, <1>16 DEF Writer, u, b

\* A round of the loop: it stops, or sends a segment that was written.
LEMMA SendNextIs ==
  ASSUME NEW t, t \in NumberedSockets, GoodBuffer(t.buf)
  PROVE  \/ SendNext(t) = t
         \/ /\ t.ep /\ t.buf.una < t.written
            /\ \E seg : /\ CanCopy(t.buf, seg) /\ seg < t.written
                        /\ SendNext(t) = SendDataPacket(t, seg)
<1> DEFINE seg == NextSeg(t.buf, FALSE)
           goes == /\ t.ep /\ Size(t) > 0
                   /\ InFlight(t.buf) < t.cwnd
                   /\ ~(t.cong = "CA_OPEN" /\ t.state = "FIN_WAIT_1")
                   /\ seg # None /\ seg < t.written
<1>1. CASE goes
  <2>1. t.buf.una \in Nat /\ t.written \in Nat
    BY TxBufferAssumption DEF GoodBuffer, Buffers, NumberedSockets, Amounts
  <2>2. CanCopy(t.buf, seg)
    <3> HIDE DEF seg
    <3>1. NextSeg(t.buf, FALSE) # None
      BY <1>1 DEF seg
    <3> QED
      BY <3>1, NextSegCanCopy DEF seg
  <2>3. SendNext(t) = SendDataPacket(t, seg)
    BY <1>1 DEF SendNext
  <2> HIDE DEF seg
  <2> QED
    BY <1>1, <2>1, <2>2, <2>3 DEF Size
<1>2. CASE ~goes
  BY <1>2 DEF SendNext
<1> QED
  BY <1>1, <1>2

\* The loop of SendPendingData stays in a set that its rounds do not leave.
LEMMA SendPendingDataStays ==
  ASSUME NEW t, NEW S, \A u \in S : SendNext(u) \in S,
         t \in S \/ (N >= 1 /\ SendNext(t) \in S)
  PROVE  SendPendingData(t) \in S
<1> DEFINE Rounds(g, n) == [k \in 0..n |-> IF k = 0 THEN t ELSE SendNext(g[k - 1])]
<1>1. \E g : g = Rounds(g, N)
  <2> DEFINE Bad == {n \in 0..N : ~ \E g : g = Rounds(g, n)}
  <2> HIDE DEF Rounds
  <2>1. SUFFICES Bad = {}
    BY TxBufferAssumption
  <2> USE DEF Rounds
  <2>2. SUFFICES ASSUME Bad # {}
                 PROVE  FALSE
    OBVIOUS
  <2> DEFINE m == Min(Bad)
  <2>3. m \in Bad /\ \A n \in Bad : m <= n
    <3>1. Bad \subseteq Nat
      OBVIOUS
    <3> HIDE DEF Bad
    <3> QED
      BY <2>2, <3>1, MinInSet
  <2> HIDE DEF m
  <2>4. CASE m = 0
    <3> DEFINE g == [k \in 0..0 |-> t]
    <3>1. g = Rounds(g, 0)
      OBVIOUS
    <3> QED
      BY <2>3, <2>4, <3>1
  <2>5. CASE m # 0
    <3>1. m \in 1..N /\ m - 1 \in 0..N /\ ~(m <= m - 1)
      BY <2>3, <2>5, TxBufferAssumption
    <3>2. PICK g : g = Rounds(g, m - 1)
      BY <2>3, <3>1
    <3> DEFINE f == [k \in 0..m |-> IF k = m THEN SendNext(g[m - 1]) ELSE g[k]]
    <3>3. \A k \in 0..m : f[k] = IF k = 0 THEN t ELSE SendNext(f[k - 1])
      <4> TAKE k \in 0..m
      <4>1. CASE k = m
        BY <3>1, <4>1
      <4>2. CASE k # m
        <5>1. k \in 0..m-1 /\ f[k] = g[k]
          BY <3>1, <4>2
        <5>2. g[k] = IF k = 0 THEN t ELSE SendNext(g[k - 1])
          BY <3>2, <5>1
        <5>3. k # 0 => f[k - 1] = g[k - 1]
          BY <3>1, <4>2, <5>1
        <5> QED
          BY <5>1, <5>2, <5>3
      <4> QED
        BY <4>1, <4>2
    <3>4. f = Rounds(f, m)
      BY <3>3
    <3> QED
      BY <2>3, <3>4
  <2> QED
    BY <2>4, <2>5
<1> DEFINE after == CHOOSE g : g = Rounds(g, N)
<1>2. after = Rounds(after, N)
  BY <1>1
<1>3. SendPendingData(t) = after[N]
  BY DEF SendPendingData
<1> HIDE DEF after
<1>4. after[0] = t /\ \A k \in 1..N : after[k] = SendNext(after[k - 1])
  BY <1>2, TxBufferAssumption
<1> HIDE DEF Rounds
<1>5. CASE t \in S
  <2> DEFINE Bad == {k \in 0..N : after[k] \notin S}
  <2>1. CASE Bad = {}
    BY <1>3, <2>1, TxBufferAssumption
  <2>2. CASE Bad # {}
    <3> DEFINE m == Min(Bad)
    <3>1. m \in Bad /\ \A k \in Bad : m <= k
      <4>1. Bad \subseteq Nat
        OBVIOUS
      <4> HIDE DEF Bad
      <4> QED
        BY <2>2, <4>1, MinInSet
    <3> HIDE DEF m
    <3>2. m \in 1..N /\ m - 1 \in 0..N /\ ~(m <= m - 1)
      BY <1>4, <1>5, <3>1, TxBufferAssumption
    <3>3. after[m - 1] \in S
      BY <3>1, <3>2
    <3> QED
      BY <1>4, <3>1, <3>2, <3>3
  <2> QED
    BY <2>1, <2>2
<1>6. CASE N >= 1 /\ SendNext(t) \in S
  <2> DEFINE Bad == {k \in 1..N : after[k] \notin S}
  <2>1. CASE Bad = {}
    BY <1>3, <1>6, <2>1, TxBufferAssumption
  <2>2. CASE Bad # {}
    <3> DEFINE m == Min(Bad)
    <3>1. m \in Bad /\ \A k \in Bad : m <= k
      <4>1. Bad \subseteq Nat
        OBVIOUS
      <4> HIDE DEF Bad
      <4> QED
        BY <2>2, <4>1, MinInSet
    <3> HIDE DEF m
    <3>2. m # 1
      <4>1. after[1] = SendNext(t)
        BY <1>4, <1>6, TxBufferAssumption
      <4> QED
        BY <1>6, <3>1, <4>1
    <3>3. m \in 1..N /\ m - 1 \in 1..N /\ ~(m <= m - 1)
      BY <3>1, <3>2, TxBufferAssumption
    <3>4. after[m - 1] \in S
      BY <3>1, <3>3
    <3> QED
      BY <1>4, <3>1, <3>3, <3>4
  <2> QED
    BY <2>1, <2>2
<1> QED
  BY <1>5, <1>6

\* What sending leaves alone.
SameAcked(t, u) ==
  /\ u.head = t.head /\ u.written = t.written
  /\ u.buf.una = t.buf.una /\ u.buf.sacked = t.buf.sacked

\* One round of SendPendingData's loop: nothing, or a segment that may be sent and
\* with it the retransmission timer.
LEMMA SendNextWriter ==
  ASSUME NEW t, NEW c \in Nat, NEW R \in Nat, NEW h, WriterData(t, c, R, h), h # 0
  PROVE  LET u == SendNext(t)
         IN  u = t \/ (Writer(u, c, R, h) /\ SameAcked(t, u))
<1>1. t \in NumberedSockets /\ GoodBuffer(t.buf)
  BY DEF WriterData
<1>2. CASE SendNext(t) = t
  BY <1>2
<1>3. CASE SendNext(t) # t
  <2>1. PICK seg : /\ t.ep /\ t.buf.una < t.written
                   /\ CanCopy(t.buf, seg) /\ seg < t.written
                   /\ SendNext(t) = SendDataPacket(t, seg)
    BY <1>1, <1>3, SendNextIs
  <2>2. LET u == SendDataPacket(t, seg)
        IN  /\ Writer(u, c, R, h) /\ u.buf = Copy(t.buf, seg)
            /\ u.head = t.head /\ u.written = t.written
    BY <2>1, SendDataWriter
  <2>3. Copy(t.buf, seg).una = t.buf.una /\ Copy(t.buf, seg).sacked = t.buf.sacked
    BY <1>1, <2>1, CopyGood
  <2> QED
    BY <2>1, <2>2, <2>3 DEF SameAcked
<1> QED
  BY <1>2, <1>3

\* SendPendingData: the rounds of its loop, as many as there are segments at most.  A
\* socket without its timer gets it with the first.
LEMMA SendPendingDataWriter ==
  ASSUME NEW t, NEW c \in Nat, NEW R \in Nat, NEW h, WriterData(t, c, R, h), h # 0,
         WriterTimed(t) \/ (N >= 1 /\ SendNext(t) # t)
  PROVE  LET u == SendPendingData(t)
         IN  Writer(u, c, R, h) /\ SameAcked(t, u)
<1> DEFINE S == {u \in NumberedSockets : Writer(u, c, R, h) /\ SameAcked(t, u)}
<1>1. \A u \in S : SendNext(u) \in S
  <2> TAKE u \in S
  <2>1. WriterData(u, c, R, h)
    BY DEF Writer
  <2>2. LET v == SendNext(u) IN v = u \/ (Writer(v, c, R, h) /\ SameAcked(u, v))
    BY <2>1, SendNextWriter
  <2> QED
    BY <2>2 DEF SameAcked, Writer, WriterData
<1>2. t \in S \/ (N >= 1 /\ SendNext(t) \in S)
  <2>1. CASE WriterTimed(t)
    BY <2>1 DEF Writer, WriterData, SameAcked
  <2>2. CASE N >= 1 /\ SendNext(t) # t
    <3>1. LET v == SendNext(t) IN v = t \/ (Writer(v, c, R, h) /\ SameAcked(t, v))
      BY SendNextWriter
    <3> QED
      BY <2>2, <3>1 DEF Writer, WriterData
  <2> QED
    BY <2>1, <2>2
<1> HIDE DEF S
<1>3. SendPendingData(t) \in S
  BY <1>1, <1>2, SendPendingDataStays
<1> QED
  BY <1>3 DEF S

\* Nothing to send, nothing done.
LEMMA SendPendingDataIdle ==
  ASSUME NEW t, ~(Size(t) > 0)
  PROVE  SendPendingData(t) = t
<1>1. SendNext(t) = t
  BY DEF SendNext
<1>2. SendPendingData(t) \in {t}
  BY <1>1, SendPendingDataStays
<1> QED
  BY <1>2

\* A packet that reports what the reader has: the number it waits for, and what
\* it holds beyond.
Acks(p) == p.flags \in {{"ACK"}, {"FIN", "ACK"}}

Honest(p, R) == 1 <= p.ack /\ p.ack <= R /\ \A k \in p.sack : p.ack <= k

\* The writer knows no more than the packet says.
Below(t, p) == t.head <= p.ack /\ t.buf.sacked \subseteq p.sack \cup 0 .. p.ack - 2

\* Update and Discard: the scoreboard after an acknowledgment.
LEMMA DiscardWriter ==
  ASSUME NEW t, NEW c \in Nat, NEW R \in Nat, NEW h, WriterData(t, c, R, h),
         t.head > 0, NEW p \in NumberedPackets, Honest(p, R), Below(t, p)
  PROVE  LET board == [t EXCEPT !.buf = Update(@, p.sack)]
             d == Discard(board, p.ack)
         IN  /\ d = [t EXCEPT !.buf = d.buf, !.head = p.ack]
             /\ GoodBuffer(d.buf) /\ d.buf.high <= t.written
             /\ t.buf.una <= d.buf.una /\ t.buf.high <= d.buf.high
             /\ d.buf.high = t.buf.high \/ d.buf.high = d.buf.una
             /\ d.buf.una = IF p.ack - 1 <= t.written THEN p.ack - 1 ELSE t.written
             /\ d.buf.sacked \subseteq p.sack \cup 0 .. p.ack - 2
             /\ board.buf.sacked # t.buf.sacked =>
                  t.buf.una < t.buf.high /\ d.buf.una < t.written
<1> DEFINE b == Update(t.buf, p.sack)
           board == [t EXCEPT !.buf = Update(@, p.sack)]
           d == Discard(board, p.ack)
<1>1. t \in NumberedSockets /\ GoodBuffer(t.buf)
  BY DEF WriterData
<1>2. /\ t.written \in 0..N /\ N \in Nat /\ t.head \in Nat /\ t.head > 0
      /\ p.ack \in Nat /\ p.sack \subseteq 0..N-1
  BY <1>1, TxBufferAssumption DEF NumberedSockets, Amounts, NumberedPackets, SegmentSets
<1>3. /\ t.buf.una \in 0..N /\ t.buf.high \in 0..N /\ t.buf.una <= t.buf.high
      /\ t.buf.high <= t.written
      /\ t.buf.sacked \subseteq t.buf.una .. t.buf.high - 1
      /\ t.buf.una = IF t.head - 1 <= t.written THEN t.head - 1 ELSE t.written
  BY <1>1, <1>2 DEF GoodBuffer, Buffers, Sent, WriterData
<1>4. t.buf.una \notin p.sack
  BY <1>2, <1>3 DEF Honest, Below
<1>5. /\ GoodBuffer(b) /\ b.una = t.buf.una /\ b.high = t.buf.high
      /\ b.sacked = t.buf.sacked \cup (p.sack \cap Sent(t.buf))
  BY <1>1, <1>4, UpdateGood
<1> HIDE DEF b
<1>6. board = [t EXCEPT !.buf = b] /\ board.buf = b /\ board.written = t.written
      /\ board.head = t.head /\ board.buf.una = t.buf.una
  BY <1>1, <1>5 DEF b, NumberedSockets
<1>7. \A k \in b.sacked : k >= p.ack \/ k <= p.ack - 2
  BY <1>2, <1>3, <1>5 DEF Honest, Below
<1>8. b.sacked # t.buf.sacked =>
        t.buf.una < t.buf.high /\ p.ack - 1 < t.written /\ t.buf.una < t.written
  <2> SUFFICES ASSUME b.sacked # t.buf.sacked
               PROVE  t.buf.una < t.buf.high /\ p.ack - 1 < t.written
                      /\ t.buf.una < t.written
    OBVIOUS
  <2>1. PICK k \in p.sack \cap Sent(t.buf) : TRUE
    BY <1>5
  <2> QED
    BY <1>2, <1>3, <2>1 DEF Sent, Honest
<1> DEFINE Good(bb) ==
             /\ GoodBuffer(bb) /\ bb.high <= t.written
             /\ t.buf.una <= bb.una /\ t.buf.high <= bb.high
             /\ bb.high = t.buf.high \/ bb.high = bb.una
             /\ bb.una = IF p.ack - 1 <= t.written THEN p.ack - 1 ELSE t.written
             /\ bb.sacked \subseteq p.sack \cup 0 .. p.ack - 2
             /\ b.sacked # t.buf.sacked =>
                  t.buf.una < t.buf.high /\ bb.una < t.written
<1>9. ASSUME p.ack = t.head
      PROVE  d = [t EXCEPT !.buf = d.buf, !.head = p.ack] /\ Good(d.buf)
  <2>1. d = board /\ d.buf = b
    BY <1>2, <1>6, <1>9 DEF Discard
  <2>2. b.sacked \subseteq p.sack \cup 0 .. p.ack - 2
    BY <1>5 DEF Below
  <2>3. d = [t EXCEPT !.buf = d.buf, !.head = p.ack]
    BY <1>1, <1>6, <1>9, <2>1 DEF NumberedSockets
  <2>4. Good(b)
    BY <1>2, <1>3, <1>5, <1>8, <1>9, <2>2
  <2> HIDE DEF d, board, Good
  <2> QED
    BY <2>1, <2>3, <2>4
<1>10. ASSUME p.ack > t.head, t.buf.una = t.written
       PROVE  d = [t EXCEPT !.buf = d.buf, !.head = p.ack] /\ Good(d.buf)
  <2>1. Size(board) = 0
    BY <1>2, <1>6, <1>10 DEF Size
  <2>2. d = [board EXCEPT !.head = p.ack, !.buf = b]
    <3>1. d = [board EXCEPT !.head = p.ack, !.buf = @]
      BY <1>2, <1>6, <1>10, <2>1 DEF Discard
    <3> HIDE DEF d, board
    <3> QED
      BY <1>6, <3>1
  <2>3. d = [t EXCEPT !.buf = b, !.head = p.ack] /\ d.buf = b
    BY <1>1, <1>6, <2>2 DEF NumberedSockets
  <2>4. b.sacked \subseteq p.sack \cup 0 .. p.ack - 2
    BY <1>5 DEF Below
  <2>5. Good(b)
    BY <1>2, <1>3, <1>5, <1>8, <1>10, <2>4
  <2> HIDE DEF d, board, Good
  <2> QED
    BY <1>10, <2>3, <2>5
<1>11. ASSUME p.ack > t.head, t.buf.una < t.written
       PROVE  d = [t EXCEPT !.buf = d.buf, !.head = p.ack] /\ Good(d.buf)
  <2> DEFINE a == IF p.ack - 1 <= t.written THEN p.ack - 1 ELSE t.written
             bb == DiscardUpTo(b, a)
  <2>1. Min({p.ack - 1, t.written}) = a
    <3>1. {p.ack - 1, t.written} \subseteq Nat /\ {p.ack - 1, t.written} # {}
      BY <1>2, <1>11
    <3>2. /\ Min({p.ack - 1, t.written}) \in {p.ack - 1, t.written}
          /\ \A y \in {p.ack - 1, t.written} : Min({p.ack - 1, t.written}) <= y
      BY <3>1, MinInSet
    <3> QED
      BY <1>2, <3>2
  <2>2. a \in 0..N /\ b.una <= a /\ a \notin b.sacked
    <3>1. a \in 0..N /\ b.una <= a
      BY <1>2, <1>3, <1>5, <1>11
    <3>2. CASE p.ack - 1 <= t.written
      BY <1>2, <1>7, <3>1, <3>2
    <3>3. CASE ~(p.ack - 1 <= t.written)
      BY <1>2, <1>3, <1>5, <3>1, <3>3 DEF Sent
    <3> QED
      BY <3>1, <3>2, <3>3
  <2>3. /\ GoodBuffer(bb) /\ bb.una = a
        /\ bb.high = IF a > b.high THEN a ELSE b.high
        /\ bb.sacked = b.sacked \ 0 .. a - 1
    <3> HIDE DEF a
    <3> QED
      BY <1>5, <2>2, DiscardUpToGood
  <2>4. d = [board EXCEPT !.head = p.ack, !.buf = bb]
    <3>1. Size(board) # 0 /\ ~(p.ack <= board.head)
      BY <1>2, <1>3, <1>6, <1>11 DEF Size
    <3>2. d = [board EXCEPT !.head = p.ack,
                            !.buf = DiscardUpTo(@, Min({p.ack - 1, board.written}))]
      BY <3>1 DEF Discard
    <3> HIDE DEF d, a, board
    <3> QED
      BY <1>6, <2>1, <3>2
  <2>5. d = [t EXCEPT !.buf = bb, !.head = p.ack] /\ d.buf = bb
    <3> HIDE DEF bb, d
    <3> QED
      BY <1>1, <1>6, <2>4 DEF NumberedSockets
  <2>6. bb.sacked \subseteq p.sack \cup 0 .. p.ack - 2
    BY <1>5, <2>3 DEF Below
  <2>7. /\ bb.high <= t.written /\ t.buf.una <= bb.una /\ t.buf.high <= bb.high
        /\ bb.high = t.buf.high \/ bb.high = bb.una
        /\ p.ack - 1 < t.written => bb.una < t.written
    BY <1>2, <1>3, <1>5, <2>2, <2>3
  <2>8. Good(bb)
    <3> HIDE DEF bb
    <3> QED
      BY <1>8, <2>3, <2>6, <2>7
  <2> HIDE DEF d, board, bb, Good
  <2> QED
    BY <2>5, <2>8
<1>12. p.ack = t.head \/ p.ack > t.head
  BY <1>2 DEF Below
<1>13. d = [t EXCEPT !.buf = d.buf, !.head = p.ack] /\ Good(d.buf)
  BY <1>2, <1>3, <1>9, <1>10, <1>11, <1>12
<1> QED
  BY <1>6, <1>13

\* What NewAck does to the socket.
LEMMA NewAckIs ==
  ASSUME NEW t \in NumberedSockets, NEW ack \in Nat
  PROVE  LET u == NewAck(t, ack)
         IN  /\ u \in NumberedSockets
             /\ u.nxt = IF ack > t.nxt THEN ack ELSE t.nxt
             /\ u.retx = IF Size(t) = 0 /\ t.state \notin {"FIN_WAIT_1", "CLOSING"}
                         THEN {} ELSE {"RTO"}
             /\ u = [t EXCEPT !.retries = DataRetries, !.nxt = u.nxt, !.retx = u.retx]
<1> DEFINE n == IF ack > t.nxt THEN ack ELSE t.nxt
           rx == IF Size(t) = 0 /\ t.state \notin {"FIN_WAIT_1", "CLOSING"}
                 THEN {} ELSE {"RTO"}
           u == NewAck(t, ack)
<1>1. n \in Nat /\ rx \in RetxEvents
  BY Values DEF NumberedSockets
<1>2. u = [t EXCEPT !.retries = DataRetries, !.nxt = n, !.retx = rx]
  BY DEF NewAck, NumberedSockets
<1> HIDE DEF n, rx, u
<1>3. u \in NumberedSockets /\ u.nxt = n /\ u.retx = rx
  BY <1>1, <1>2, Values DEF NumberedSockets
<1> QED
  BY <1>2, <1>3 DEF n, rx, u

\* The socket u after ProcessAck of the socket d: three outcomes.
AckOutcome(d, u, ack, old, dup) ==
  /\ u \in NumberedSockets
  /\ u = [d EXCEPT !.cong = u.cong, !.cwnd = u.cwnd, !.retries = u.retries,
                   !.nxt = u.nxt, !.retx = u.retx]
  /\ \/ /\ u.nxt = d.nxt /\ u.retx = d.retx
        /\ ack = old \/ dup
     \/ /\ ack = old /\ ack > HighTx(d)
        /\ u.nxt = ack /\ u.retx = d.retx
     \/ /\ ack # old
        /\ u.nxt = IF ack > d.nxt THEN ack ELSE d.nxt
        /\ u.retx = IF Size(d) = 0 /\ d.state \notin {"FIN_WAIT_1", "CLOSING"}
                    THEN {} ELSE {"RTO"}

\* ProcessAck has no outcome but those.
LEMMA ProcessAckIs ==
  ASSUME NEW d \in NumberedSockets, NEW ack \in Nat, NEW old \in Nat, NEW dup \in BOOLEAN
  PROVE  AckOutcome(d, ProcessAck(d, ack, old, dup), ack, old, dup)
<1> DEFINE e == IF dup /\ d.cong = "CA_OPEN" THEN [d EXCEPT !.cong = "CA_DISORDER"] ELSE d
           open == \/ e.cong = "CA_OPEN"
                   \/ e.cong = "CA_DISORDER" /\ ~dup
                   \/ e.cong = "CA_LOSS" /\ ack >= e.recover
           w == IF e.cong = "CA_OPEN" THEN e.cwnd ELSE N
           f == [e EXCEPT !.cong = "CA_OPEN", !.cwnd = w]
           u == ProcessAck(d, ack, old, dup)
<1>1. /\ e \in NumberedSockets /\ HighTx(e) = HighTx(d) /\ Size(e) = Size(d)
      /\ e.nxt = d.nxt /\ e.retx = d.retx /\ e.state = d.state
      /\ e = [d EXCEPT !.cong = e.cong]
      /\ dup => e.cong # "CA_OPEN"
  BY DEF NumberedSockets, CongStates, HighTx, Size
<1>2. u = IF ack = old
            THEN IF ack > HighTx(e) THEN [e EXCEPT !.nxt = ack] ELSE e
          ELSE IF open THEN NewAck(f, ack)
          ELSE IF e.cong = "CA_LOSS" THEN NewAck(e, ack)
          ELSE e
  BY <1>1 DEF ProcessAck, NumberedSockets
<1> HIDE DEF e, u
<1>3. w \in Windows /\ "CA_OPEN" \in CongStates
  BY <1>1, Values DEF NumberedSockets, CongStates
<1> HIDE DEF w
<1>4. /\ f \in NumberedSockets /\ Size(f) = Size(e) /\ f.nxt = e.nxt /\ f.state = e.state
      /\ f = [d EXCEPT !.cong = f.cong, !.cwnd = f.cwnd]
  BY <1>1, <1>3 DEF NumberedSockets, Size
<1> HIDE DEF f
<1>5. ASSUME ack = old, ack > HighTx(e)
      PROVE  AckOutcome(d, u, ack, old, dup)
  <2>1. u = [e EXCEPT !.nxt = ack]
    BY <1>2, <1>5
  <2>2. u \in NumberedSockets /\ u.nxt = ack /\ u.retx = d.retx
        /\ u = [d EXCEPT !.cong = u.cong, !.cwnd = u.cwnd, !.retries = u.retries,
                         !.nxt = u.nxt, !.retx = u.retx]
    <3>1. u \in NumberedSockets /\ u.nxt = ack /\ u.retx = d.retx
      BY <1>1, <2>1 DEF NumberedSockets
    <3> QED
      BY <1>1, <2>1, <3>1 DEF NumberedSockets
  <2> QED
    BY <1>1, <1>5, <2>2 DEF AckOutcome
<1>6. ASSUME u = e, ack = old \/ dup
      PROVE  AckOutcome(d, u, ack, old, dup)
  <2>1. u = [d EXCEPT !.cong = u.cong, !.cwnd = u.cwnd, !.retries = u.retries,
                      !.nxt = u.nxt, !.retx = u.retx]
    BY <1>1, <1>6 DEF NumberedSockets
  <2> QED
    BY <1>1, <1>6, <2>1 DEF AckOutcome
<1>7. ASSUME NEW x \in {e, f}, u = NewAck(x, ack), ack # old
      PROVE  AckOutcome(d, u, ack, old, dup)
  <2>1. /\ x \in NumberedSockets /\ Size(x) = Size(d) /\ x.nxt = d.nxt
        /\ x.state = d.state
        /\ x = [d EXCEPT !.cong = x.cong, !.cwnd = x.cwnd]
    <3>1. CASE x = e
      <4>1. e = [d EXCEPT !.cong = e.cong, !.cwnd = e.cwnd]
        BY <1>1 DEF NumberedSockets
      <4> QED
        BY <1>1, <3>1, <4>1
    <3>2. CASE x = f
      BY <1>1, <1>4, <3>2
    <3> QED
      BY <3>1, <3>2
  <2>2. /\ u \in NumberedSockets
        /\ u.nxt = IF ack > x.nxt THEN ack ELSE x.nxt
        /\ u.retx = IF Size(x) = 0 /\ x.state \notin {"FIN_WAIT_1", "CLOSING"}
                    THEN {} ELSE {"RTO"}
        /\ u = [x EXCEPT !.retries = DataRetries, !.nxt = u.nxt, !.retx = u.retx]
    BY <1>7, <2>1, NewAckIs
  <2>3. u = [d EXCEPT !.cong = u.cong, !.cwnd = u.cwnd, !.retries = u.retries,
                      !.nxt = u.nxt, !.retx = u.retx]
    BY <2>1, <2>2 DEF NumberedSockets
  <2> QED
    BY <1>7, <2>1, <2>2, <2>3 DEF AckOutcome
<1>8. ack # old /\ ~open /\ e.cong # "CA_LOSS" => dup
  BY <1>1 DEF NumberedSockets, CongStates
<1> HIDE DEF open
<1> QED
  BY <1>2, <1>5, <1>6, <1>7, <1>8 DEF u

\* The fields ProcessAck does not assign.
SameButAck(d, u) ==
  /\ u.buf = d.buf /\ u.head = d.head /\ u.written = d.written
  /\ u.state = d.state /\ u.ep = d.ep /\ u.onEmpty = d.onEmpty
  /\ u.shut = d.shut /\ u.lastAck = d.lastAck /\ u.delAck = d.delAck
  /\ u.tx = d.tx /\ u.rxNext = d.rxNext /\ u.ooo = d.ooo /\ u.fin = d.fin
  /\ u.got = d.got

\* and leaves the rest of the socket alone.
LEMMA AckFields ==
  ASSUME NEW d \in NumberedSockets, NEW u, NEW ack, NEW old, NEW dup,
         AckOutcome(d, u, ack, old, dup)
  PROVE  SameButAck(d, u)
<1>1. u = [d EXCEPT !.cong = u.cong, !.cwnd = u.cwnd, !.retries = u.retries,
                    !.nxt = u.nxt, !.retx = u.retx]
  BY DEF AckOutcome
<1> QED
  BY <1>1 DEF NumberedSockets, SameButAck

\* ReceivedAck, of a packet without data: the acknowledged data is released, and no
\* more; what it opens is sent.
LEMMA ReceivedAckWriter ==
  ASSUME NEW t, NEW c \in Nat, NEW R \in Nat, NEW h, Writer(t, c, R, h), h # 0,
         t.ep, t.head > 0, t.state \in {"ESTABLISHED", "FIN_WAIT_1", "FIN_WAIT_2", "CLOSE_WAIT"},
         NEW p \in NumberedPackets, p.len = 0, Honest(p, R), Below(t, p)
  PROVE  LET u == ReceivedAck(t, p)
         IN  /\ Writer(u, c, R, h) /\ Below(u, p)
             /\ u.head = p.ack /\ u.written = t.written /\ t.buf.una <= u.buf.una
<1> DEFINE board == [t EXCEPT !.buf = Update(@, p.sack)]
           dup == board.buf.sacked # t.buf.sacked
           d == Discard(board, p.ack)
           a == ProcessAck(d, p.ack, t.head, dup)
           u == ReceivedAck(t, p)
<1>1. t \in NumberedSockets /\ WriterData(t, c, R, h) /\ WriterTimed(t)
  BY DEF Writer, WriterData
<1>2. /\ t.head \in Nat /\ p.ack \in Nat /\ t.nxt \in Nat /\ t.written \in Nat
      /\ t.buf.una \in Nat /\ t.buf.high \in Nat
  BY <1>1, TxBufferAssumption
     DEF NumberedSockets, NumberedPackets, Amounts, WriterData, GoodBuffer, Buffers
<1>3. u = SendPendingData(a)
  BY <1>2 DEF ReceivedAck, Below
<1>4. /\ d = [t EXCEPT !.buf = d.buf, !.head = p.ack]
      /\ GoodBuffer(d.buf) /\ d.buf.high <= t.written
      /\ t.buf.una <= d.buf.una /\ t.buf.high <= d.buf.high
      /\ d.buf.high = t.buf.high \/ d.buf.high = d.buf.una
      /\ d.buf.una = IF p.ack - 1 <= t.written THEN p.ack - 1 ELSE t.written
      /\ d.buf.sacked \subseteq p.sack \cup 0 .. p.ack - 2
      /\ dup => t.buf.una < t.buf.high /\ d.buf.una < t.written
  BY <1>1, DiscardWriter
<1> HIDE DEF d
<1>5. d.buf \in Buffers /\ d.buf.una \in Nat /\ d.buf.high \in Nat /\ d.buf.una <= d.buf.high
  BY <1>4, TxBufferAssumption DEF GoodBuffer, Buffers
<1>6. /\ d \in NumberedSockets
      /\ d.head = p.ack /\ d.nxt = t.nxt /\ d.retx = t.retx /\ d.state = t.state
      /\ d.written = t.written
  <2>1. d = [t EXCEPT !.buf = d.buf, !.head = p.ack] /\ d.buf \in Buffers /\ p.ack \in Nat
        /\ t \in NumberedSockets
    BY <1>1, <1>2, <1>4, <1>5
  <2>2. d \in NumberedSockets
    BY <2>1, ZenonT(60) DEF NumberedSockets
  <2> QED
    BY <2>1, <2>2 DEF NumberedSockets
<1>7. dup \in BOOLEAN
  OBVIOUS
<1> HIDE DEF dup
<1>8. AckOutcome(d, a, p.ack, t.head, dup)
  BY <1>2, <1>6, <1>7, ProcessAckIs
<1> HIDE DEF a
<1>9. /\ a.buf = d.buf /\ a.head = p.ack /\ a.written = t.written /\ a.state = t.state
      /\ a.ep /\ a.onEmpty = t.onEmpty /\ a.shut = t.shut /\ a.lastAck = t.lastAck
      /\ a.delAck = t.delAck /\ a.tx = t.tx
  <2>1. SameButAck(d, a)
    BY <1>6, <1>8, AckFields
  <2>2. /\ d.ep = t.ep /\ d.onEmpty = t.onEmpty /\ d.shut = t.shut /\ d.lastAck = t.lastAck
        /\ d.delAck = t.delAck /\ d.tx = t.tx
    BY <1>1, <1>4 DEF NumberedSockets
  <2> QED
    BY <1>6, <2>1, <2>2 DEF SameButAck
<1>10. p.ack <= R /\ t.head <= p.ack /\ 1 <= p.ack
  BY DEF Honest, Below
<1>11. dup => t.retx = {"RTO"}
  BY <1>1, <1>4 DEF WriterTimed
<1>12. a.nxt \in Nat
  BY <1>8 DEF NumberedSockets, AckOutcome
<1>13. /\ a.buf.una = a.written => a.head <= a.nxt
       /\ a.nxt <= a.written + 1 \/ a.nxt <= R
       /\ a.nxt <= a.buf.high + 1 \/ a.buf.high = a.written
       /\ t.buf.una = t.written /\ t.nxt > t.written
            => a.buf.una = t.written /\ a.nxt > t.written
  <2>1. /\ t.buf.una = IF t.head - 1 <= t.written THEN t.head - 1 ELSE t.written
        /\ t.buf.una = t.written => t.head <= t.nxt
        /\ t.nxt <= t.written + 1 \/ t.nxt <= R
        /\ t.nxt <= t.buf.high + 1 \/ t.buf.high = t.written
    BY <1>1 DEF WriterData
  <2>2. CASE a.nxt = t.nxt /\ p.ack = t.head
    BY <1>2, <1>4, <1>5, <1>9, <2>1, <2>2
  <2>3. CASE a.nxt = t.nxt /\ dup
    BY <1>2, <1>4, <1>5, <1>9, <2>1, <2>3
  <2>4. CASE a.nxt = p.ack /\ p.ack = t.head /\ p.ack > HighTx(d)
    BY <1>2, <1>4, <1>5, <1>9, <1>10, <2>1, <2>4 DEF HighTx
  <2>5. CASE a.nxt = IF p.ack > t.nxt THEN p.ack ELSE t.nxt
    BY <1>2, <1>4, <1>5, <1>9, <1>10, <2>1, <2>5
  <2> QED
    BY <1>6, <1>8, <2>2, <2>3, <2>4, <2>5 DEF AckOutcome
<1>14. /\ "SYN" \notin a.retx
       /\ "FIN" \in a.retx => c > 0 /\ a.buf.una = a.written /\ a.nxt > a.written
  <2>1. CASE a.retx = d.retx
    BY <1>1, <1>2, <1>6, <1>9, <1>12, <1>13, <2>1 DEF WriterData
  <2>2. CASE a.retx \in {{}, {"RTO"}}
    BY <2>2
  <2> QED
    BY <1>8, <2>1, <2>2 DEF AckOutcome
<1>15. WriterData(a, c, R, h)
  <2>1. a \in NumberedSockets
    BY <1>8 DEF AckOutcome
  <2> QED
    BY <1>1, <1>2, <1>4, <1>5, <2>1, <1>9, <1>10, <1>13, <1>14 DEF WriterData, FinSent
<1>16. WriterTimed(a)
  <2>1. CASE a.retx = d.retx /\ p.ack = t.head
    <3>1. a.buf.una = t.buf.una
      BY <1>1, <1>4, <1>9, <2>1 DEF WriterData
    <3> QED
      BY <1>1, <1>2, <1>4, <1>5, <1>6, <1>9, <2>1, <3>1 DEF WriterTimed, WriterData
  <2>2. CASE a.retx = d.retx /\ dup
    BY <1>4, <1>6, <1>9, <1>11, <2>2 DEF WriterTimed
  <2>3. CASE a.retx = IF Size(d) = 0 /\ d.state \notin {"FIN_WAIT_1", "CLOSING"}
                      THEN {} ELSE {"RTO"}
    <3>1. CASE Size(d) = 0
      BY <1>4, <1>5, <1>2, <1>6, <1>9, <2>3, <3>1 DEF WriterTimed, Size
    <3>2. CASE Size(d) # 0
      BY <1>4, <1>5, <1>2, <1>6, <1>9, <2>3, <3>2 DEF WriterTimed, Size
    <3> QED
      BY <3>1, <3>2
  <2> QED
    BY <1>8, <2>1, <2>2, <2>3 DEF AckOutcome
<1>17. LET v == SendPendingData(a) IN Writer(v, c, R, h) /\ SameAcked(a, v)
  BY <1>15, <1>16, SendPendingDataWriter
<1> HIDE DEF u
<1> QED
  BY <1>2, <1>3, <1>4, <1>9, <1>17 DEF SameAcked, Below, u

\* TimeWait stops the timers, and keeps the endpoint.
LEMMA TimeWaitIs ==
  ASSUME NEW t \in NumberedSockets
  PROVE  LET u == TimeWait(t)
         IN  /\ u \in NumberedSockets /\ SameData(t, u) /\ u.state = "TIME_WAIT"
             /\ u.retx = {} /\ ~u.lastAck /\ u.delAck = 0 /\ u.tx = t.tx /\ u.ep = t.ep
<1> DEFINE u == TimeWait(t)
<1>1. /\ u = [t EXCEPT !.state = "TIME_WAIT", !.normal = TRUE, !.retx = {},
                       !.lastAck = FALSE, !.pend = FALSE, !.delAck = 0]
      /\ "TIME_WAIT" \in States /\ {} \in RetxEvents /\ 0 \in DelAckCounts
  BY Values DEF TimeWait, States
<1> HIDE DEF u
<1>2. u \in NumberedSockets
  BY <1>1 DEF NumberedSockets
<1>3. /\ u.state = "TIME_WAIT" /\ u.retx = {} /\ ~u.lastAck /\ u.delAck = 0
      /\ u.tx = t.tx /\ u.ep = t.ep
  BY <1>1 DEF NumberedSockets
<1>4. SameData(t, u)
  BY <1>1 DEF NumberedSockets, SameData
<1> QED
  BY <1>2, <1>3, <1>4 DEF u

\* TIME_WAIT waits for nothing.
LEMMA TimeWaitWriter ==
  ASSUME NEW t, NEW c \in Nat, NEW R \in Nat, NEW h, WriterData(t, c, R, h),
         t.state \in {"FIN_WAIT_1", "FIN_WAIT_2", "CLOSING"}
  PROVE  LET u == TimeWait(t)
         IN  /\ Writer(u, c, R, h) /\ SameData(t, u)
<1> DEFINE u == TimeWait(t)
<1>1. t \in NumberedSockets
  BY DEF WriterData
<1>2. /\ u \in NumberedSockets /\ SameData(t, u) /\ u.state = "TIME_WAIT"
      /\ u.retx = {} /\ ~u.lastAck /\ u.delAck = 0 /\ u.tx = t.tx /\ u.ep = t.ep
  BY <1>1, TimeWaitIs
<1> HIDE DEF u
<1>3. WriterData(u, c, R, h)
  BY <1>2, ConnectionAssumption DEF WriterData, SameData, FinSent, DelAckRuns
<1>4. WriterTimed(u)
  BY <1>2 DEF WriterTimed
<1> QED
  BY <1>2, <1>3, <1>4 DEF Writer, u

\* The end of ProcessWait, at the writer.
LEMMA WaitFinishedWriter ==
  ASSUME NEW t, NEW c \in Nat, NEW R \in Nat, NEW h, Writer(t, c, R, h), NEW p
  PROVE  LET u == WaitFinished(t, p)
         IN  Writer(u, c, R, h) /\ SameData(t, u)
<1> DEFINE u == WaitFinished(t, p)
           closing == [t EXCEPT !.state = "CLOSING"]
<1>1. t \in NumberedSockets /\ WriterData(t, c, R, h)
  BY DEF Writer, WriterData
<1>2. CASE u = t
  BY <1>2 DEF SameData
<1>3. ASSUME NEW m, u = SendEmptyPacket(m, {"ACK"}), Writer(m, c, R, h), SameData(t, m)
      PROVE  Writer(u, c, R, h) /\ SameData(t, u)
  <2>1. LET s == SendEmptyPacket(m, {"ACK"})
        IN  /\ WriterData(s, c, R, h) /\ SameData(m, s) /\ WriterTimed(s)
    BY <1>3, SendPlainWriter DEF Writer
  <2> HIDE DEF u
  <2> QED
    BY <1>3, <2>1 DEF SameData, Writer
<1>4. CASE u # t
  <2>1. t.state \in {"FIN_WAIT_1", "FIN_WAIT_2"}
    BY <1>4 DEF WaitFinished
  <2>2. \/ u = SendEmptyPacket(TimeWait(t), {"ACK"})
        \/ t.state = "FIN_WAIT_1" /\ u = SendEmptyPacket(closing, {"ACK"})
    BY <1>4, <2>1 DEF WaitFinished
  <2>3. LET m == TimeWait(t) IN Writer(m, c, R, h) /\ SameData(t, m)
    BY <1>1, <2>1, TimeWaitWriter
  <2>4. t.state = "FIN_WAIT_1" => Writer(closing, c, R, h) /\ SameData(t, closing)
    <3> SUFFICES ASSUME t.state = "FIN_WAIT_1"
                 PROVE  Writer(closing, c, R, h) /\ SameData(t, closing)
      OBVIOUS
    <3>1. /\ closing \in NumberedSockets /\ SameData(t, closing)
          /\ closing.state = "CLOSING" /\ closing.ep = t.ep /\ closing.retx = t.retx
          /\ closing.lastAck = t.lastAck /\ closing.delAck = t.delAck
          /\ closing.tx = t.tx
      BY <1>1 DEF NumberedSockets, SameData, States
    <3> HIDE DEF closing
    <3>2. WriterData(closing, c, R, h)
      BY <1>1, <3>1 DEF WriterData, SameData, FinSent, DelAckRuns
    <3>3. WriterTimed(closing)
      BY <3>1 DEF Writer, WriterTimed, SameData
    <3> QED
      BY <3>1, <3>2, <3>3 DEF Writer
  <2> HIDE DEF u, closing
  <2>5. Writer(u, c, R, h) /\ SameData(t, u)
    BY <1>3, <2>2, <2>3, <2>4
  <2> QED
    BY <2>5 DEF u
<1> QED
  BY <1>2, <1>4

\* What the writer knows after the packet p, and what it keeps.
Heard(t, u, p) ==
  /\ u.written = t.written /\ t.buf.una <= u.buf.una /\ t.head <= u.head
  /\ Acks(p) => Below(u, p)
  /\ ~Acks(p) => \/ u.head = t.head /\ u.buf.sacked = t.buf.sacked
                 \/ u.head = 1 /\ u.buf.sacked = {}

\* A handler that leaves buffer and head alone has heard nothing it did not know.
LEMMA HeardNothing ==
  ASSUME NEW t \in NumberedSockets, GoodBuffer(t.buf), NEW u, NEW p,
         u.buf = t.buf, u.head = t.head, u.written = t.written, Acks(p) => Below(t, p)
  PROVE  Heard(t, u, p)
<1>1. t.buf.una \in Nat /\ t.head \in Nat
  BY TxBufferAssumption DEF GoodBuffer, Buffers, NumberedSockets
<1> QED
  BY <1>1 DEF Heard, Below

\* ProcessWait, at the writer: only the acknowledgment of the FIN, which the reader
\* has had, leads to FIN_WAIT_2.
LEMMA ProcessWaitWriter ==
  ASSUME NEW t, NEW c \in Nat, NEW R \in Nat, NEW h, Writer(t, c, R, h), h # 0,
         t.ep, t.state \in {"FIN_WAIT_1", "FIN_WAIT_2", "CLOSE_WAIT"},
         NEW p \in NumberedPackets, p.len = 0,
         Acks(p) => Honest(p, R) /\ Below(t, p)
  PROVE  LET u == ProcessWait(t, p)
         IN  Writer(u, c, R, h) /\ Heard(t, u, p)
<1> DEFINE acked == ReceivedAck(t, p)
           finAcked == acked.state = "FIN_WAIT_1" /\ Size(acked) = 0
                         /\ p.ack = HighTx(acked) + 1
           half == [acked EXCEPT !.state = "FIN_WAIT_2"]
           noted == SetFinSequence(acked, p.seq)
           u == ProcessWait(t, p)
<1>1. t \in NumberedSockets /\ WriterData(t, c, R, h) /\ GoodBuffer(t.buf)
  BY DEF Writer, WriterData
<1>2. t.head > 0
  <2>1. t.head \in Nat
    BY <1>1 DEF NumberedSockets
  <2> QED
    BY <1>1, <2>1 DEF WriterData
<1>3. CASE Acks(p)
  <2>1. /\ Writer(acked, c, R, h) /\ Below(acked, p)
        /\ acked.head = p.ack /\ acked.written = t.written
        /\ t.buf.una <= acked.buf.una
    BY <1>1, <1>2, <1>3, ReceivedAckWriter
  <2>2. /\ p.flags = {"ACK"} =>
             u = WaitFinished(IF finAcked THEN half ELSE acked, p)
        /\ p.flags = {"FIN", "ACK"} => u = WaitFinished(noted, p)
    <3>1. {"FIN", "ACK"} # {"ACK"}
      OBVIOUS
    <3> HIDE DEF acked
    <3>2. ProcessWait(t, p) =
            CASE p.flags = {"ACK"} ->
                   WaitFinished(IF finAcked THEN half ELSE acked, p)
              [] p.flags = {"FIN", "ACK"} -> WaitFinished(noted, p)
              [] "SYN" \in p.flags -> t
              [] OTHER -> CloseAndNotify(t)
      BY DEF ProcessWait, acked
    <3> HIDE DEF finAcked, half, noted
    <3> QED
      BY <3>1, <3>2
  <2> HIDE DEF acked
  <2>3. acked \in NumberedSockets /\ WriterData(acked, c, R, h) /\ WriterTimed(acked)
    BY <2>1 DEF Writer, WriterData
  <2>4. finAcked => Writer(half, c, R, h) /\ SameData(acked, half)
    <3> SUFFICES ASSUME finAcked
                 PROVE  Writer(half, c, R, h) /\ SameData(acked, half)
      OBVIOUS
    <3>1. /\ half \in NumberedSockets /\ SameData(acked, half)
          /\ half.state = "FIN_WAIT_2" /\ half.ep = acked.ep /\ half.retx = acked.retx
          /\ half.lastAck = acked.lastAck /\ half.delAck = acked.delAck
          /\ half.tx = acked.tx
      BY <2>3 DEF NumberedSockets, SameData, States
    <3>2. /\ acked.buf.una \in Nat /\ acked.buf.high \in Nat /\ acked.written \in Nat
          /\ acked.buf.una <= acked.buf.high /\ p.ack <= R
      BY <1>3, <2>3, TxBufferAssumption
         DEF WriterData, GoodBuffer, Buffers, NumberedSockets, Amounts, Honest
    <3>3. acked.buf.high = acked.written /\ acked.written + 2 <= R
          /\ acked.buf.una = acked.written
      BY <2>3, <3>2 DEF WriterData, FinSent, HighTx, Size
    <3> HIDE DEF half
    <3>4. WriterData(half, c, R, h)
      BY <2>3, <3>1, <3>2, <3>3 DEF WriterData, SameData, FinSent, DelAckRuns
    <3>5. WriterTimed(half)
      BY <3>1, <3>2, <3>3 DEF WriterTimed, SameData
    <3> QED
      BY <3>1, <3>4, <3>5 DEF Writer
  <2>5. Writer(noted, c, R, h) /\ noted.buf = acked.buf /\ noted.head = acked.head
        /\ noted.written = acked.written
    <3>1. p.seq \in MaybeNumber /\ p.seq \in Nat
      BY DEF NumberedPackets, MaybeNumber
    <3>2. noted = [acked EXCEPT !.fin = p.seq,
                                !.rxNext = IF @ = p.seq THEN @ + 1 ELSE @]
      BY DEF SetFinSequence
    <3>3. noted \in NumberedSockets /\ Alike(acked, noted)
      <4>1. (IF acked.rxNext = p.seq THEN acked.rxNext + 1 ELSE acked.rxNext) \in Nat
        BY <2>3 DEF NumberedSockets
      <4> HIDE DEF noted, acked
      <4>2. noted \in NumberedSockets
        BY <2>3, <3>1, <3>2, <4>1, ZenonT(60) DEF NumberedSockets
      <4> QED
        BY <2>3, <3>2, <4>2 DEF NumberedSockets, Alike
    <3> HIDE DEF noted
    <3> QED
      BY <2>1, <3>3, AlikeWriter DEF Writer, Alike
  <2> HIDE DEF finAcked, half, noted
  <2>6. \E m : /\ u = WaitFinished(m, p) /\ Writer(m, c, R, h)
               /\ m.buf = acked.buf /\ m.head = acked.head
               /\ m.written = acked.written
    <3>1. CASE p.flags = {"ACK"} /\ finAcked
      BY <2>2, <2>4, <3>1 DEF SameData
    <3>2. CASE p.flags = {"ACK"} /\ ~finAcked
      BY <2>1, <2>2, <3>2
    <3>3. CASE p.flags = {"FIN", "ACK"}
      BY <2>2, <2>5, <3>3
    <3> QED
      BY <1>3, <3>1, <3>2, <3>3 DEF Acks
  <2>7. PICK m : /\ u = WaitFinished(m, p) /\ Writer(m, c, R, h)
                 /\ m.buf = acked.buf /\ m.head = acked.head
                 /\ m.written = acked.written
    BY <2>6
  <2>8. LET v == WaitFinished(m, p) IN Writer(v, c, R, h) /\ SameData(m, v)
    BY <2>7, WaitFinishedWriter
  <2> HIDE DEF u
  <2>9. /\ Writer(u, c, R, h) /\ u.buf = acked.buf /\ u.head = acked.head
        /\ u.written = acked.written
    BY <2>7, <2>8 DEF SameData
  <2>10. t.head <= p.ack
    BY <1>3 DEF Below
  <2> QED
    BY <1>3, <2>1, <2>9, <2>10 DEF Heard, Below, u
<1>4. CASE ~Acks(p)
  <2>1. u = t \/ u = CloseAndNotify(t)
    BY <1>4 DEF ProcessWait, Acks
  <2>2. LET v == CloseAndNotify(t) IN Writer(v, c, R, h) /\ SameData(t, v)
    BY <1>1, CloseAndNotifyWriter
  <2> HIDE DEF u
  <2>3. Writer(u, c, R, h) /\ u.buf = t.buf /\ u.head = t.head /\ u.written = t.written
    BY <2>1, <2>2 DEF SameData
  <2> QED
    BY <1>1, <1>4, <2>3, HeardNothing DEF u
<1> QED
  BY <1>3, <1>4

\* ProcessEstablished, at the writer.
LEMMA ProcessEstablishedWriter ==
  ASSUME NEW t, NEW c \in Nat, NEW R \in Nat, NEW h, Writer(t, c, R, h), h # 0,
         t.ep, t.state = "ESTABLISHED",
         NEW p \in NumberedPackets, p.len = 0,
         Acks(p) => Honest(p, R) /\ Below(t, p)
  PROVE  LET u == ProcessEstablished(t, p)
         IN  Writer(u, c, R, h) /\ Heard(t, u, p)
<1> DEFINE u == ProcessEstablished(t, p)
           sent == SendEmptyPacket(t, {"ACK"})
           told == PeerClose(t, p)
           gone == CloseAndNotify(t)
           acked == ReceivedAck(t, p)
<1>1. t \in NumberedSockets /\ WriterData(t, c, R, h) /\ GoodBuffer(t.buf) /\ WriterTimed(t)
  BY DEF Writer, WriterData
<1>2. t.head > 0
  <2>1. t.head \in Nat
    BY <1>1 DEF NumberedSockets
  <2> QED
    BY <1>1, <2>1 DEF WriterData
<1>3. u \in {t, sent, told, gone} \/ (u = acked /\ p.flags = {"ACK"})
  BY DEF ProcessEstablished
<1>4. /\ Writer(sent, c, R, h) /\ sent.buf = t.buf /\ sent.head = t.head
      /\ sent.written = t.written
  <2>1. WriterData(sent, c, R, h) /\ SameData(t, sent) /\ WriterTimed(sent)
    BY <1>1, SendPlainWriter
  <2> QED
    BY <2>1 DEF Writer, SameData
<1>5. /\ Writer(told, c, R, h) /\ told.buf = t.buf /\ told.head = t.head
      /\ told.written = t.written
  BY PeerCloseWriter
<1>6. /\ Writer(gone, c, R, h) /\ gone.buf = t.buf /\ gone.head = t.head
      /\ gone.written = t.written
  <2>1. Writer(gone, c, R, h) /\ SameData(t, gone)
    BY <1>1, CloseAndNotifyWriter
  <2> QED
    BY <2>1 DEF SameData
<1>7. CASE u \in {t, sent, told, gone}
  <2> HIDE DEF u, sent, told, gone
  <2>1. Writer(u, c, R, h) /\ u.buf = t.buf /\ u.head = t.head /\ u.written = t.written
    BY <1>4, <1>5, <1>6, <1>7
  <2> QED
    BY <1>1, <2>1, HeardNothing DEF u
<1>8. CASE u = acked /\ p.flags = {"ACK"}
  <2>1. Acks(p) /\ t.head <= p.ack
    BY <1>8 DEF Acks, Below
  <2>2. /\ Writer(acked, c, R, h) /\ Below(acked, p)
        /\ acked.head = p.ack /\ acked.written = t.written
        /\ t.buf.una <= acked.buf.una
    BY <1>1, <1>2, <2>1, ReceivedAckWriter
  <2> HIDE DEF u, acked
  <2> QED
    BY <1>8, <2>1, <2>2 DEF Heard, u
<1> QED
  BY <1>3, <1>7, <1>8

\* The handshake ends: what was not sent before it may be sent from here on.
LEMMA ProcessSynSentWriter ==
  ASSUME NEW t, NEW c \in Nat, NEW R \in Nat, NEW h, Writer(t, c, R, h),
         t.ep, t.state = "SYN_SENT",
         NEW p \in NumberedPackets, "SYN" \in p.flags => 1 <= R,
         Acks(p) => Below(t, p)
  PROVE  LET u == ProcessSynSent(t, p)
         IN  Writer(u, c, R, h) /\ Heard(t, u, p)
<1> DEFINE u == ProcessSynSent(t, p)
           up == [Established(t) EXCEPT !.state = "ESTABLISHED", !.rxNext = p.seq + 1]
           s == SendEmptyPacket(up, {"ACK"})
           v == [SendPendingData(s) EXCEPT !.delAck = DelAckMax]
           gone == CloseAndNotify(t)
<1>1. t \in NumberedSockets /\ WriterData(t, c, R, h) /\ GoodBuffer(t.buf) /\ WriterTimed(t)
  BY DEF Writer, WriterData
<1>2. t.head = 0 /\ t.nxt = 0 /\ t.written = 0
  <2>1. t.head \in Nat
    BY <1>1 DEF NumberedSockets
  <2> QED
    BY <1>1, <2>1 DEF WriterData
<1>3. t.buf.una = 0 /\ t.buf.high = 0 /\ t.buf.sacked = {}
  BY <1>1, <1>2, TxBufferAssumption DEF GoodBuffer, Buffers, WriterData, Sent
<1>4. CASE p.flags = {"SYN", "ACK"}
  <2>1. ~Acks(p) /\ 1 <= R
    BY <1>4 DEF Acks
  <2>2. u = v
    BY <1>4 DEF ProcessSynSent
  <2>3. /\ up \in NumberedSockets /\ up.buf = t.buf /\ up.written = 0 /\ up.nxt = 1
        /\ up.head = 1 /\ up.onEmpty = t.onEmpty /\ up.shut = t.shut
        /\ up.state = "ESTABLISHED" /\ up.ep /\ up.retx = {} /\ up.lastAck = t.lastAck
        /\ up.delAck = t.delAck /\ up.tx = t.tx
    <3>1. p.seq + 1 \in Nat
      BY DEF NumberedPackets
    <3>2. up = [t EXCEPT !.app = TRUE, !.retx = {}, !.nxt = 1, !.head = 1,
                         !.state = "ESTABLISHED", !.rxNext = p.seq + 1]
      BY <1>1, <1>2 DEF Established, NumberedSockets
    <3> HIDE DEF up
    <3>3. up \in NumberedSockets
      <4>1. "ESTABLISHED" \in States /\ {} \in RetxEvents
        BY Values DEF States
      <4> QED
        BY <1>1, <3>1, <3>2, <4>1 DEF NumberedSockets
    <3> QED
      BY <1>1, <1>2, <3>2, <3>3 DEF NumberedSockets
  <2> HIDE DEF up
  <2>4. WriterData(up, c, R, h) /\ WriterTimed(up)
    BY <1>1, <1>2, <1>3, <2>1, <2>3 DEF WriterData, WriterTimed, FinSent
  <2>5. /\ WriterData(s, c, R, h) /\ SameData(up, s) /\ s.state = up.state
        /\ s.ep = up.ep /\ WriterTimed(s)
    BY <2>4, SendPlainWriter
  <2> HIDE DEF s
  <2>6. SendPendingData(s) = s
    <3>1. ~(Size(s) > 0)
      BY <1>3, <2>3, <2>5 DEF SameData, Size
    <3> QED
      BY <3>1, SendPendingDataIdle
  <2>7. v = [s EXCEPT !.delAck = DelAckMax]
    BY <2>6
  <2>8. v \in NumberedSockets /\ Alike(s, v)
    <3>1. s \in NumberedSockets /\ s.ep
      BY <2>3, <2>5 DEF WriterData
    <3> HIDE DEF v
    <3> QED
      BY <2>7, <3>1, Values DEF NumberedSockets, Alike
  <2> HIDE DEF v
  <2>9. Writer(v, c, R, h)
    BY <2>5, <2>8, AlikeWriter DEF Writer
  <2>10. v.buf = t.buf /\ v.head = 1 /\ v.written = t.written
    BY <1>2, <2>3, <2>5, <2>8 DEF Alike, SameData
  <2>11. Heard(t, v, p)
    BY <1>2, <1>3, <2>1, <2>10 DEF Heard
  <2> QED
    BY <2>2, <2>9, <2>11
<1>5. CASE p.flags # {"SYN", "ACK"}
  <2>1. u \in {t, gone}
    BY <1>5 DEF ProcessSynSent
  <2>2. /\ Writer(gone, c, R, h) /\ gone.buf = t.buf /\ gone.head = t.head
        /\ gone.written = t.written
    <3>1. Writer(gone, c, R, h) /\ SameData(t, gone)
      BY <1>1, CloseAndNotifyWriter
    <3> QED
      BY <3>1 DEF SameData
  <2> HIDE DEF u, gone
  <2>3. Writer(u, c, R, h) /\ u.buf = t.buf /\ u.head = t.head /\ u.written = t.written
    BY <2>1, <2>2
  <2> QED
    BY <1>1, <2>3, HeardNothing DEF u
<1> QED
  BY <1>4, <1>5

\* What a handler does that sends a packet without data at most, and may close.
Plain(t, u) == u.buf = t.buf /\ u.head = t.head /\ u.written = t.written

\* SendRST, and the endings after it.
LEMMA SendRSTWriter ==
  ASSUME NEW t, NEW c \in Nat, NEW R \in Nat, NEW h, WriterData(t, c, R, h)
  PROVE  LET u == SendRST(t)
         IN  Writer(u, c, R, h) /\ SameData(t, u)
<1> DEFINE s == SendEmptyPacket(t, {"RST"})
<1>1. WriterData(s, c, R, h) /\ SameData(t, s)
  BY SendPlainWriter
<1> HIDE DEF s
<1>2. LET u == Drop(s) IN Writer(u, c, R, h) /\ SameData(s, u)
  BY <1>1, DropWriter
<1>3. SendRST(t) = Drop(s)
  BY DEF SendRST, s
<1> QED
  BY <1>1, <1>2, <1>3 DEF SameData

\* ProcessClosing and ProcessLastAck, at the writer.
LEMMA ProcessLastWriter ==
  ASSUME NEW t, NEW c \in Nat, NEW R \in Nat, NEW h, Writer(t, c, R, h),
         NEW p \in NumberedPackets, NEW u,
         \/ t.state = "CLOSING" /\ u = ProcessClosing(t, p)
         \/ u = ProcessLastAck(t, p)
  PROVE  Writer(u, c, R, h) /\ Plain(t, u)
<1> DEFINE s == SendEmptyPacket(t, {"ACK"})
           r == SendRST(t)
<1>1. t \in NumberedSockets /\ WriterData(t, c, R, h)
  BY DEF Writer, WriterData
<1>2. \/ u = t
      \/ t.state = "CLOSING" /\ u = TimeWait(t)
      \/ u = CloseAndNotify(t) \/ u = CloseAndNotify(s) \/ u = CloseAndNotify(r)
  BY DEF ProcessClosing, ProcessLastAck
<1>3. CASE u = t
  BY <1>3 DEF Plain
<1>4. CASE t.state = "CLOSING" /\ u = TimeWait(t)
  <2>1. LET v == TimeWait(t) IN Writer(v, c, R, h) /\ SameData(t, v)
    BY <1>1, <1>4, TimeWaitWriter
  <2> QED
    BY <1>4, <2>1 DEF SameData, Plain
<1>5. WriterData(s, c, R, h) /\ SameData(t, s)
  BY <1>1, SendPlainWriter
<1>6. WriterData(r, c, R, h) /\ SameData(t, r)
  BY <1>1, SendRSTWriter DEF Writer
<1>7. ASSUME NEW x \in {t, s, r}, u = CloseAndNotify(x)
      PROVE  Writer(u, c, R, h) /\ Plain(t, u)
  <2>1. WriterData(x, c, R, h) /\ Plain(t, x)
    BY <1>1, <1>5, <1>6 DEF SameData, Plain
  <2>2. LET v == CloseAndNotify(x) IN Writer(v, c, R, h) /\ SameData(x, v)
    BY <2>1, CloseAndNotifyWriter
  <2> QED
    BY <1>7, <2>1, <2>2 DEF SameData, Plain
<1> HIDE DEF s, r
<1> QED
  BY <1>2, <1>3, <1>4, <1>7

\* DoForwardUp, at the writer.
LEMMA DoForwardUpWriter ==
  ASSUME NEW t, NEW c \in Nat, NEW R \in Nat, NEW h, Writer(t, c, R, h),
         h = 0 => t.head = 0, t.ep,
         NEW p \in NumberedPackets, p.len = 0,
         Acks(p) => Honest(p, R) /\ Below(t, p), "SYN" \in p.flags => 1 <= R
  PROVE  LET u == DoForwardUp(t, p)
         IN  Writer(u, c, R, h) /\ Heard(t, u, p)
<1> DEFINE v == IF "SYN" \in p.flags THEN [t EXCEPT !.cwnd = N] ELSE t
           u == DoForwardUp(t, p)
<1> SUFFICES Writer(u, c, R, h) /\ Heard(t, u, p)
  OBVIOUS
<1>1. t \in NumberedSockets /\ WriterData(t, c, R, h) /\ GoodBuffer(t.buf) /\ WriterTimed(t)
  BY DEF Writer, WriterData
<1>2. v \in NumberedSockets /\ Alike(t, v)
  <2>1. CASE "SYN" \in p.flags
    <3>1. v = [t EXCEPT !.cwnd = N] /\ N \in Windows
      BY <2>1, Values
    <3> HIDE DEF v
    <3>2. v \in NumberedSockets
      BY <1>1, <3>1 DEF NumberedSockets
    <3> QED
      BY <1>1, <3>1, <3>2, ZenonT(60) DEF NumberedSockets, Alike
  <2>2. CASE "SYN" \notin p.flags
    BY <1>1, <2>2 DEF Alike
  <2> QED
    BY <2>1, <2>2
<1>3. t.state \in States /\ t.state \notin {"CLOSED", "SYN_RCVD"}
  BY <1>1 DEF WriterData, NumberedSockets
<1>4. t.state # "SYN_SENT" => h # 0
  <2>1. t.head \in Nat
    BY <1>1 DEF NumberedSockets
  <2> QED
    BY <1>1, <1>3, <2>1 DEF WriterData
<1>5. \/ u = t
      \/ t.state = "ESTABLISHED" /\ u = ProcessEstablished(v, p)
      \/ t.state = "SYN_SENT" /\ u = ProcessSynSent(v, p)
      \/ /\ t.state \in {"FIN_WAIT_1", "FIN_WAIT_2", "CLOSE_WAIT"}
         /\ u = ProcessWait(v, p)
      \/ t.state = "CLOSING" /\ u = ProcessClosing(v, p)
      \/ t.state = "LAST_ACK" /\ u = ProcessLastAck(v, p)
      \/ u = v
  <2> HIDE DEF v
  <2> DEFINE out == p.len > 0 /\ OutOfRange(t, p)
             odd == p.flags = {"RST", "ACK"}
             handled ==
               CASE t.state = "ESTABLISHED" -> ProcessEstablished(v, p)
                 [] t.state = "SYN_SENT" -> ProcessSynSent(v, p)
                 [] t.state = "SYN_RCVD" -> ProcessSynRcvd(v, p)
                 [] t.state \in {"FIN_WAIT_1", "FIN_WAIT_2", "CLOSE_WAIT"} -> ProcessWait(v, p)
                 [] t.state = "CLOSING" -> ProcessClosing(v, p)
                 [] t.state = "LAST_ACK" -> ProcessLastAck(v, p)
                 [] t.state = "TIME_WAIT" -> v
  <2>1. u = IF out THEN SendEmptyPacket(t, {"ACK"}) ELSE IF odd THEN t ELSE handled
    BY DEF DoForwardUp, v
  <2>2. ~out
    OBVIOUS
  <2> HIDE DEF out, odd
  <2> HIDE DEF u
  <2> QED
    BY <1>3, <2>1, <2>2 DEF States
<1> HIDE DEF u, v
<1>6. Writer(v, c, R, h) /\ v.state = t.state /\ v.ep /\ Plain(t, v)
  BY <1>1, <1>2, AlikeWriter DEF Writer, Alike, Plain
<1>7. Acks(p) => Below(v, p)
  BY <1>6 DEF Below, Plain
<1>8. ASSUME Writer(u, c, R, h), Plain(t, u)
      PROVE  Writer(u, c, R, h) /\ Heard(t, u, p)
  BY <1>1, <1>8, HeardNothing DEF Plain
<1>9. ASSUME Heard(v, u, p)
      PROVE  Heard(t, u, p)
  BY <1>6, <1>9 DEF Heard, Plain
<1>10. CASE u = t \/ u = v
  BY <1>6, <1>8, <1>10 DEF Plain
<1>11. CASE t.state = "ESTABLISHED" /\ u = ProcessEstablished(v, p)
  <2>1. LET w == ProcessEstablished(v, p) IN Writer(w, c, R, h) /\ Heard(v, w, p)
    BY <1>4, <1>6, <1>7, <1>11, ProcessEstablishedWriter
  <2> QED
    BY <1>9, <1>11, <2>1
<1>12. CASE t.state = "SYN_SENT" /\ u = ProcessSynSent(v, p)
  <2>1. LET w == ProcessSynSent(v, p) IN Writer(w, c, R, h) /\ Heard(v, w, p)
    BY <1>6, <1>7, <1>12, ProcessSynSentWriter
  <2> QED
    BY <1>9, <1>12, <2>1
<1>13. CASE /\ t.state \in {"FIN_WAIT_1", "FIN_WAIT_2", "CLOSE_WAIT"}
            /\ u = ProcessWait(v, p)
  <2>1. LET w == ProcessWait(v, p) IN Writer(w, c, R, h) /\ Heard(v, w, p)
    BY <1>4, <1>6, <1>7, <1>13, ProcessWaitWriter
  <2> QED
    BY <1>9, <1>13, <2>1
<1>14. CASE \/ t.state = "CLOSING" /\ u = ProcessClosing(v, p)
            \/ t.state = "LAST_ACK" /\ u = ProcessLastAck(v, p)
  <2>1. Writer(u, c, R, h) /\ Plain(v, u)
    BY <1>6, <1>14, ProcessLastWriter
  <2> QED
    BY <1>6, <1>8, <2>1 DEF Plain
<1> QED
  BY <1>5, <1>10, <1>11, <1>12, <1>13, <1>14

\* ReTxTimeout: what was sent and not SACKed is lost, and the first of it goes out
\* again at once.
LEMMA ReTxTimeoutWriter ==
  ASSUME NEW t, NEW c \in Nat, NEW R \in Nat, NEW h, WriterData(t, c, R, h), h # 0,
         t.ep, t.head > 0, t.retx = {},
         t.state \in {"ESTABLISHED", "CLOSE_WAIT", "LAST_ACK"} => t.buf.una < t.written
  PROVE  LET u == ReTxTimeout(t)
         IN  Writer(u, c, R, h) /\ SameAcked(t, u)
<1> DEFINE lost == [t EXCEPT !.retries = @ - 1, !.buf = SetSentListLost(@),
                             !.recover = HighTx(t), !.cong = "CA_LOSS", !.cwnd = 1]
           u == ReTxTimeout(t)
<1> SUFFICES Writer(u, c, R, h) /\ SameAcked(t, u)
  OBVIOUS
<1>1. t \in NumberedSockets /\ GoodBuffer(t.buf)
  BY DEF WriterData
<1>2. /\ t.head \in Nat /\ t.nxt \in Nat /\ t.written \in 0..N /\ N \in Nat
      /\ t.buf.una \in Nat /\ t.buf.high \in Nat /\ t.buf.una <= t.buf.high
      /\ t.buf.high <= t.written /\ t.buf.high <= N
  BY <1>1, TxBufferAssumption DEF NumberedSockets, Amounts, GoodBuffer, Buffers, WriterData
<1>3. CASE Size(t) = 0
  <2>1. t.buf.una = t.written /\ t.buf.high = t.written /\ t.written < t.nxt
    BY <1>2, <1>3 DEF Size, WriterData
  <2>2. CASE t.state \in {"FIN_WAIT_1", "CLOSING"}
    <3> DEFINE s == SendEmptyPacket(t, {"FIN"})
    <3>1. u = s
      BY <1>3, <2>2 DEF ReTxTimeout
    <3>2. c > 0
      BY <2>2 DEF WriterData, FinSent
    <3>3. /\ WriterData(s, c, R, h) /\ SameData(t, s) /\ s.state = t.state
          /\ s.ep /\ s.retx = {"FIN", "ACK"}
      BY <2>1, <3>2, SendFinWriter
    <3> HIDE DEF s
    <3>4. WriterTimed(s)
      <4>1. {"FIN", "ACK"} # {}
        OBVIOUS
      <4> QED
        BY <1>2, <2>1, <2>2, <3>3, <4>1 DEF WriterTimed, SameData
    <3> HIDE DEF u
    <3> QED
      BY <3>1, <3>3, <3>4 DEF Writer, SameData, SameAcked
  <2>3. CASE t.state \notin {"FIN_WAIT_1", "CLOSING"}
    <3>1. u = t
      BY <1>3, <2>3 DEF ReTxTimeout
    <3>2. WriterTimed(t)
      BY <1>2, <2>1, <2>3 DEF WriterTimed, WriterData
    <3> HIDE DEF u
    <3> QED
      BY <3>1, <3>2 DEF Writer, SameAcked
  <2> QED
    BY <2>2, <2>3
<1>4. CASE Size(t) # 0 /\ t.retries = 0
  <2>1. u = Drop(t)
    BY <1>4 DEF ReTxTimeout
  <2>2. LET v == Drop(t) IN Writer(v, c, R, h) /\ SameData(t, v)
    BY DropWriter
  <2> HIDE DEF u
  <2> QED
    BY <2>1, <2>2 DEF SameData, SameAcked
<1>5. CASE Size(t) # 0 /\ t.retries # 0
  <2> DEFINE b == SetSentListLost(t.buf)
  <2>1. u = SendPendingData(lost)
    BY <1>5 DEF ReTxTimeout
  <2>2. /\ GoodBuffer(b) /\ b.una = t.buf.una /\ b.high = t.buf.high
        /\ b.sacked = t.buf.sacked /\ InFlight(b) = 0
        /\ t.buf.una < t.buf.high => NextSeg(b, FALSE) # None
    BY <1>1, SetSentListLostGood, TimeoutHasSegment
  <2> HIDE DEF b
  <2>3. /\ lost \in NumberedSockets /\ lost.buf = b /\ lost.written = t.written
        /\ lost.nxt = t.nxt /\ lost.head = t.head /\ lost.onEmpty = t.onEmpty
        /\ lost.shut = t.shut /\ lost.state = t.state /\ lost.ep /\ lost.retx = {}
        /\ lost.lastAck = t.lastAck /\ lost.delAck = t.delAck /\ lost.tx = t.tx
        /\ lost.cong = "CA_LOSS" /\ lost.cwnd = 1
    <3>1. t.retries - 1 \in RetryCounts
      BY <1>1, <1>5, ConnectionAssumption DEF NumberedSockets, RetryCounts
    <3>2. HighTx(t) \in Nat
      BY <1>2 DEF HighTx
    <3>3. lost = [t EXCEPT !.retries = t.retries - 1, !.buf = b,
                           !.recover = HighTx(t), !.cong = "CA_LOSS", !.cwnd = 1]
      BY DEF b
    <3>4. b \in Buffers /\ "CA_LOSS" \in CongStates
      BY <2>2 DEF GoodBuffer, CongStates
    <3> HIDE DEF lost
    <3> QED
      BY <1>1, <3>1, <3>2, <3>3, <3>4, Values DEF NumberedSockets
  <2> HIDE DEF lost, u
  <2>4. WriterData(lost, c, R, h)
    BY <2>2, <2>3 DEF WriterData, DelAckRuns
  <2>5. WriterTimed(lost) \/ (N >= 1 /\ SendNext(lost) # lost)
    <3>1. CASE t.buf.una < t.buf.high
      <4> DEFINE seg == NextSeg(b, FALSE)
                 next == SendDataPacket(lost, seg)
      <4>1. seg # None /\ seg < t.written /\ CanCopy(b, seg)
        <5>1. seg # None
          BY <2>2, <3>1
        <5>2. CanCopy(b, seg)
          BY <2>2, <5>1, NextSegCanCopy
        <5>3. seg \in Sent(b)
          <6> DEFINE again == {i \in Sent(b) : i \notin b.retrans \cup b.sacked} \cap b.lost
          <6>1. again \subseteq Sent(b) /\ again \subseteq Nat
            BY <1>2, <2>2 DEF Sent
          <6>2. b.lost = Sent(t.buf) \ t.buf.sacked /\ b.retrans = {}
            BY <1>1, SetSentListLostGood DEF b
          <6>3. t.buf.una \in again
            BY <1>1, <1>2, <2>2, <3>1, <6>2 DEF Sent, GoodBuffer
          <6>4. seg = Min(again)
            BY <6>3 DEF NextSeg
          <6> HIDE DEF again, seg
          <6> QED
            BY <6>1, <6>3, <6>4, MinInSet
        <5> HIDE DEF seg
        <5> QED
          BY <1>2, <2>2, <5>1, <5>2, <5>3 DEF Sent
      <4> HIDE DEF seg
      <4>2. Size(lost) > 0 /\ InFlight(lost.buf) < lost.cwnd
        BY <1>2, <2>2, <2>3, <3>1 DEF Size
      <4>3. SendNext(lost) = next
        BY <2>3, <4>1, <4>2 DEF SendNext, seg
      <4>4. next.retx = {"RTO"}
        BY <2>3 DEF SendDataPacket, NumberedSockets
      <4> QED
        BY <1>2, <2>3, <3>1, <4>3, <4>4
    <3>2. CASE t.buf.una = t.buf.high
      <4>1. t.state \notin {"SYN_SENT", "FIN_WAIT_1", "CLOSING", "LAST_ACK"}
        BY <1>2, <1>5, <3>2 DEF WriterData, FinSent, Size
      <4> QED
        BY <1>2, <2>2, <2>3, <3>2, <4>1 DEF WriterTimed
    <3> QED
      BY <1>2, <3>1, <3>2
  <2>6. LET v == SendPendingData(lost) IN Writer(v, c, R, h) /\ SameAcked(lost, v)
    BY <2>4, <2>5, SendPendingDataWriter
  <2> QED
    BY <2>1, <2>2, <2>3, <2>6 DEF SameAcked
<1> QED
  BY <1>3, <1>4, <1>5

\* The retransmission event of a writer whose handshake is over.
LEMMA RetxWriter ==
  ASSUME NEW s, NEW c \in Nat, NEW R \in Nat, NEW h, Writer(s, c, R, h),
         h = 0 => s.head = 0, s.retx # {}, s.retx # {"SYN"}
  PROVE  LET t == [s EXCEPT !.retx = {}]
             u == IF s.retx = {"RTO"} THEN ReTxTimeout(t) ELSE SendEmptyPacket(t, s.retx)
         IN  Writer(u, c, R, h) /\ SameAcked(s, u)
<1> DEFINE t == [s EXCEPT !.retx = {}]
           fin == SendEmptyPacket(t, s.retx)
           u == IF s.retx = {"RTO"} THEN ReTxTimeout(t) ELSE fin
<1> SUFFICES Writer(u, c, R, h) /\ SameAcked(s, u)
  OBVIOUS
<1>1. /\ s \in NumberedSockets /\ GoodBuffer(s.buf) /\ WriterData(s, c, R, h)
      /\ WriterTimed(s)
  BY DEF Writer, WriterData
<1>2. /\ s.head \in Nat /\ s.nxt \in Nat /\ s.written \in Nat
      /\ s.buf.una \in Nat /\ s.buf.high \in Nat /\ s.buf.una <= s.buf.high
      /\ s.buf.high <= s.written
  BY <1>1, TxBufferAssumption DEF NumberedSockets, Amounts, GoodBuffer, Buffers, WriterData
<1>3. s.ep
  BY <1>1 DEF WriterData
<1>4. s.retx = {"RTO"} \/ s.retx = {"FIN", "ACK"}
  <2>1. s.retx # {"SYN", "ACK"}
    <3>1. {"SYN", "ACK"} # {"SYN"}
      OBVIOUS
    <3> QED
      BY <1>1, <3>1 DEF WriterData
  <2> QED
    BY <1>1, <2>1 DEF NumberedSockets, RetxEvents
<1>5. s.head > 0 /\ h # 0
  <2>1. s.retx = {"FIN", "ACK"} => s.nxt > 0
    BY <1>1, <1>2 DEF WriterData
  <2> QED
    BY <1>1, <1>2, <1>4, <2>1 DEF WriterData
<1>6. /\ t \in NumberedSockets /\ SameData(s, t) /\ t.state = s.state /\ t.ep
      /\ t.retx = {} /\ t.lastAck = s.lastAck /\ t.delAck = s.delAck /\ t.tx = s.tx
  BY <1>1, <1>3, Values DEF NumberedSockets, SameData
<1> HIDE DEF t
<1>7. WriterData(t, c, R, h)
  BY <1>1, <1>3, <1>6 DEF WriterData, SameData
<1>8. CASE s.retx = {"RTO"}
  <2>1. t.state \in {"ESTABLISHED", "CLOSE_WAIT", "LAST_ACK"} => t.buf.una < t.written
    BY <1>1, <1>3, <1>6, <1>8 DEF WriterTimed, SameData
  <2>2. LET v == ReTxTimeout(t) IN Writer(v, c, R, h) /\ SameAcked(t, v)
    BY <1>5, <1>6, <1>7, <2>1, ReTxTimeoutWriter DEF SameData
  <2> QED
    BY <1>6, <1>8, <2>2 DEF SameAcked, SameData
<1>9. CASE s.retx = {"FIN", "ACK"}
  <2>1. c > 0 /\ t.buf.una = t.written /\ t.nxt > t.written
    BY <1>1, <1>6, <1>9 DEF WriterData, SameData
  <2>2. s.retx \in {{"FIN"}, {"FIN", "ACK"}} /\ s.retx # {"RTO"}
    BY <1>9
  <2>3. /\ WriterData(fin, c, R, h) /\ SameData(t, fin) /\ fin.state = t.state
        /\ fin.ep /\ fin.retx = {"FIN", "ACK"}
    <3>1. t.head > 0 /\ t.written < t.nxt
      BY <1>2, <1>5, <1>6, <2>1 DEF SameData
    <3> DEFINE asked == s.retx
    <3>2. asked \in {{"FIN"}, {"FIN", "ACK"}}
      BY <2>2
    <3> HIDE DEF asked
    <3>3. LET v == SendEmptyPacket(t, asked)
          IN  /\ WriterData(v, c, R, h) /\ SameData(t, v) /\ v.state = t.state
              /\ v.ep /\ v.retx = IF t.retx = {} THEN {"FIN", "ACK"} ELSE t.retx
      BY <1>5, <1>6, <1>7, <2>1, <3>1, <3>2, SendFinWriter
    <3> QED
      BY <1>6, <3>3 DEF asked
  <2>4. u = fin
    BY <2>2
  <2> HIDE DEF fin, u
  <2>5. WriterTimed(fin)
    <3>1. {"FIN", "ACK"} # {} /\ {"FIN", "ACK"} # {"RTO"}
      OBVIOUS
    <3> QED
      BY <1>2, <1>6, <2>1, <2>3, <3>1 DEF WriterTimed, SameData
  <2> QED
    BY <1>6, <2>3, <2>4, <2>5 DEF Writer, SameData, SameAcked
<1> QED
  BY <1>4, <1>8, <1>9

\* The SYN: sent once more, or the connection has failed.
LEMMA SendSynWriter ==
  ASSUME NEW t \in NumberedSockets, NEW c \in Nat, NEW R \in Nat, NEW h,
         t.ep, t.retx = {}, t.head = 0, t.nxt = 0, t.written = 0,
         GoodBuffer(t.buf), t.buf.high <= t.written, t.state \in {"CLOSED", "SYN_SENT"},
         ~t.shut, ~t.lastAck, t.onEmpty => c > 0, t.tx = <<>>
  PROVE  LET s == SendEmptyPacket(t, {"SYN"})
             u == [s EXCEPT !.state = IF s.ep THEN "SYN_SENT" ELSE @, !.tx = <<>>]
         IN  /\ Writer(u, c, R, h) /\ SameAcked(t, u) /\ s \in NumberedSockets
             /\ t.synCount # 0 => s.ep
             /\ s.ep => s.state = t.state
             /\ \/ s.tx = <<>>
                \/ \E p \in NumberedPackets :
                     s.tx = <<p>> /\ p.flags = {"SYN"} /\ p.seq = 0 /\ p.len = 0
<1> DEFINE s == SendEmptyPacket(t, {"SYN"})
           u == [s EXCEPT !.state = IF s.ep THEN "SYN_SENT" ELSE @, !.tx = <<>>]
<1>1. <<>> \in Outgoing(0, c, R, h) /\ <<>> \in PacketSeqs
  BY DEF Outgoing, PacketSeqs
<1>2. CASE t.synCount = 0
  <2> DEFINE d == DeallocateEndPoint(t)
  <2>1. s = [d EXCEPT !.failed = TRUE, !.state = "CLOSED"]
    BY <1>2 DEF SendEmptyPacket
  <2>2. /\ d \in NumberedSockets /\ SameData(t, d) /\ d.state = t.state
        /\ ~d.ep /\ d.retx = {} /\ ~d.lastAck /\ d.delAck = 0 /\ d.tx = t.tx
    BY DeallocateIs
  <2> HIDE DEF d, s, u
  <2>3. /\ s \in NumberedSockets /\ SameData(d, s) /\ s.state = "CLOSED" /\ ~s.ep
        /\ s.retx = {} /\ ~s.lastAck /\ s.delAck = 0 /\ s.tx = <<>>
    <3>1. s \in NumberedSockets
      <4>1. "CLOSED" \in States
        BY DEF States
      <4> QED
        BY <2>1, <2>2, <4>1 DEF NumberedSockets
    <3>2. SameData(d, s)
      BY <2>1, <2>2 DEF NumberedSockets, SameData
    <3> QED
      BY <2>1, <2>2, <3>1, <3>2 DEF NumberedSockets
  <2>4. /\ u \in NumberedSockets /\ SameData(s, u) /\ u.state = "CLOSED" /\ ~u.ep
        /\ u.retx = {} /\ ~u.lastAck /\ u.delAck = 0 /\ u.tx = <<>>
    BY <1>1, <2>3 DEF NumberedSockets, SameData, u
  <2>5. /\ u.buf = t.buf /\ u.written = 0 /\ u.nxt = 0 /\ u.head = 0
        /\ u.onEmpty = t.onEmpty /\ ~u.shut
    BY <2>2, <2>3, <2>4 DEF SameData
  <2>6. WriterData(u, c, R, h)
    BY <1>1, <2>4, <2>5 DEF WriterData, DelAckRuns, FinSent
  <2>7. WriterTimed(u)
    BY <2>4 DEF WriterTimed
  <2> QED
    BY <1>2, <2>3, <2>5, <2>6, <2>7 DEF Writer, SameAcked, u, s
<1>3. CASE t.synCount # 0
  <2>1. {"SYN"} \in Asked /\ {"SYN"} \notin {{"ACK"}, {"RST"}} /\ "FIN" \notin {"SYN"}
        /\ {"SYN"} # {} /\ {"SYN"} # {"RTO"}
    BY DEF Asked
  <2>2. /\ s \in NumberedSockets /\ SameData(t, s) /\ s.state = t.state
        /\ s.ep /\ s.lastAck = t.lastAck
        /\ s.retx = {"SYN"}
    BY <1>3, <2>1, SendEmptyPacketIs
  <2>3. PICK p \in NumberedPackets :
          s.tx = Append(t.tx, p) /\ p.flags = {"SYN"} /\ p.len = 0
          /\ p.seq = t.nxt
    BY <1>3, <2>1, SendEmptyPacketIs
  <2>4. p.seq = 0
    BY <2>3
  <2>5. s.tx = <<p>>
    BY <2>3
  <2> HIDE DEF s
  <2>6. /\ u \in NumberedSockets /\ SameData(s, u) /\ u.state = "SYN_SENT" /\ u.ep
        /\ u.retx = {"SYN"} /\ ~u.lastAck /\ u.tx = <<>>
    BY <1>1, <2>2 DEF NumberedSockets, SameData, States
  <2> HIDE DEF u
  <2>7. /\ u.buf = t.buf /\ u.written = 0 /\ u.nxt = 0 /\ u.head = 0
        /\ u.onEmpty = t.onEmpty /\ ~u.shut
    BY <2>2, <2>6 DEF SameData
  <2>8. WriterData(u, c, R, h)
    BY <1>1, <2>1, <2>6, <2>7 DEF WriterData, FinSent
  <2>9. WriterTimed(u)
    <3>1. ~(u.buf.una < u.buf.high)
      BY <2>7, TxBufferAssumption DEF GoodBuffer, Buffers
    <3> QED
      BY <2>1, <2>6, <3>1 DEF WriterTimed
  <2> QED
    BY <1>3, <2>2, <2>3, <2>4, <2>5, <2>7, <2>8, <2>9 DEF Writer, SameAcked, u, s
<1> QED
  BY <1>2, <1>3

-----------------------------------------------------------------------------
\* The numbers of either end.

\* No FIN has been sent in these states; no FIN has been received in sequence in those.
FinUnsent == {"SYN_SENT", "SYN_RCVD", "ESTABLISHED", "CLOSE_WAIT"}
PeerOpen == {"SYN_SENT", "SYN_RCVD", "ESTABLISHED", "FIN_WAIT_1", "FIN_WAIT_2"}
Handshake == {"SYN_SENT", "SYN_RCVD"}
FinWait == {"FIN_WAIT_1", "FIN_WAIT_2"}

\* What a handler is held to: the highest next number, the lowest and the highest
\* number expected, the highest while the peer has not ended (early), the highest
\* FIN noted; the highest number of a FIN of its own before it has noted the peer's
\* (sent), and the states in which the next may be higher all the same (acked);
\* whether it may be yet to send one (open), may send none before it has noted the
\* peer's (quiet), may have noted none (none).
Limits ==
  [nxt: Nat, low: Nat, rx: Nat, early: Nat, fin: MaybeNumber, sent: Nat,
   acked: SUBSET FinWait, open: BOOLEAN, quiet: BOOLEAN, none: BOOLEAN]

NoFin(s) == \A i \in DOMAIN s : "FIN" \notin s[i].flags

PacketNumbers(p, t, L) ==
  /\ p.seq <= L.nxt + 1 /\ p.ack <= t.rxNext
  /\ "SYN" \in p.flags => p.seq = 0
  /\ "FIN" \in p.flags => p.seq <= L.nxt /\ (p.seq > L.sent => t.fin # None)

Numbers(t, L) ==
  /\ t \in NumberedSockets
  /\ t.nxt <= L.nxt /\ t.head <= L.nxt /\ t.recover <= N + 1
  /\ t.head > L.sent => t.nxt > L.sent
  /\ L.low <= t.rxNext /\ t.rxNext <= L.rx /\ t.fin <= L.fin
  /\ t.fin = None => L.none
  /\ L.quiet /\ t.fin = None => NoFin(t.tx)
  /\ \A i \in DOMAIN t.tx : PacketNumbers(t.tx[i], t, L)

\* What they say of the state: which numbers can still come.
Phase(t, L) ==
  /\ "SYN" \in t.retx => t.state \in Handshake
  /\ t.lastAck => t.state = "LAST_ACK" /\ t.fin # None
  /\ t.ep =>
       /\ t.state \in PeerOpen => t.rxNext <= L.early
       /\ t.state \in FinUnsent => L.open /\ "FIN" \notin t.retx /\ NoFin(t.tx)
       /\ L.quiet /\ t.fin = None => t.state \in FinUnsent
       /\ t.nxt > L.sent /\ t.fin = None =>
            t.state \in L.acked /\ "FIN" \notin t.retx
       /\ t.state \in Handshake => t.nxt = 0

Bounded(t, L) == Numbers(t, L) /\ Phase(t, L)

\* A socket that goes on, having sent nothing more, keeps its numbers if the new ones
\* are within the limits.
LEMMA MovedNumbers ==
  ASSUME NEW L \in Limits, NEW t, Numbers(t, L), NEW u \in NumberedSockets, u.tx = t.tx,
         u.nxt <= L.nxt, u.head <= L.nxt, u.recover <= N + 1,
         u.head > L.sent => u.nxt > L.sent,
         t.rxNext <= u.rxNext, u.rxNext <= L.rx, u.fin <= L.fin,
         u.fin = None => t.fin = None
  PROVE  Numbers(u, L)
<1>1. t \in NumberedSockets /\ t.rxNext \in Nat /\ u.rxNext \in Nat /\ L.low \in Nat
  BY DEF Numbers, NumberedSockets, Limits
<1>2. \A p \in NumberedPackets : PacketNumbers(p, t, L) => PacketNumbers(p, u, L)
  BY <1>1 DEF PacketNumbers, NumberedPackets
<1>3. \A i \in DOMAIN t.tx : t.tx[i] \in NumberedPackets
  BY <1>1 DEF NumberedSockets, PacketSeqs
<1>4. \A i \in DOMAIN u.tx : PacketNumbers(u.tx[i], u, L)
  BY <1>2, <1>3 DEF Numbers
<1>5. L.low <= u.rxNext
  BY <1>1 DEF Numbers
<1> QED
  BY <1>4, <1>5 DEF Numbers

SameNumbers(t, u) ==
  /\ u.nxt = t.nxt /\ u.head = t.head /\ u.recover = t.recover
  /\ u.rxNext = t.rxNext /\ u.fin = t.fin /\ u.tx = t.tx

SamePhase(t, u) ==
  u.state = t.state /\ u.ep = t.ep /\ u.retx = t.retx /\ u.lastAck = t.lastAck

\* A socket alike in its numbers keeps them.
LEMMA AlikeNumbers ==
  ASSUME NEW L, NEW t, Numbers(t, L), NEW u \in NumberedSockets, SameNumbers(t, u)
  PROVE  Numbers(u, L)
BY DEF Numbers, SameNumbers, PacketNumbers

\* and one alike in its state as well keeps what they say of it.
LEMMA AlikeBounded ==
  ASSUME NEW L, NEW t, Bounded(t, L), NEW u \in NumberedSockets, SameNumbers(t, u),
         SamePhase(t, u)
  PROVE  Bounded(u, L)
<1>1. Numbers(u, L)
  BY AlikeNumbers DEF Bounded
<1>2. Phase(u, L)
  BY DEF Bounded, Phase, SameNumbers, SamePhase
<1> QED
  BY <1>1, <1>2 DEF Bounded

\* A socket whose endpoint is gone is held to its numbers only.
LEMMA GoneBounded ==
  ASSUME NEW L, NEW t, Numbers(t, L), NEW u \in NumberedSockets, SameNumbers(t, u),
         ~u.ep, u.retx = {}, ~u.lastAck
  PROVE  Bounded(u, L)
<1>1. Numbers(u, L)
  BY AlikeNumbers
<1> QED
  BY <1>1 DEF Bounded, Phase

\* DeallocateEndPoint, Drop and CloseAndNotify.
LEMMA DeallocateBounded ==
  ASSUME NEW L, NEW t, Numbers(t, L),
         NEW u \in {DeallocateEndPoint(t), Drop(t), CloseAndNotify(t)}
  PROVE  Bounded(u, L) /\ ~u.ep /\ u.rxNext = t.rxNext /\ u.fin = t.fin
<1> DEFINE d == DeallocateEndPoint(t)
<1>1. t \in NumberedSockets
  BY DEF Numbers
<1>2. d \in NumberedSockets /\ ~d.ep /\ d.retx = {} /\ ~d.lastAck
  BY <1>1, DeallocateIs
<1>3. SameNumbers(t, d)
  BY <1>1 DEF DeallocateEndPoint, NumberedSockets, SameNumbers
<1>4. \/ u = d \/ u = [d EXCEPT !.error = TRUE]
      \/ u = [d EXCEPT !.normal = TRUE, !.state = "CLOSED"]
  BY DEF Drop, CloseAndNotify
<1> HIDE DEF d
<1>5. "CLOSED" \in States
  BY DEF States
<1>6. u \in NumberedSockets
  <2>1. CASE u = d
    BY <1>2, <2>1
  <2>2. CASE u = [d EXCEPT !.error = TRUE]
    BY <1>2, <2>2, Zenon DEF NumberedSockets
  <2>3. CASE u = [d EXCEPT !.normal = TRUE, !.state = "CLOSED"]
    BY <1>2, <1>5, <2>3, Zenon DEF NumberedSockets
  <2> QED
    BY <1>4, <2>1, <2>2, <2>3
<1>7. SameNumbers(t, u) /\ ~u.ep /\ u.retx = {} /\ ~u.lastAck
  BY <1>2, <1>3, <1>4 DEF NumberedSockets, SameNumbers
<1> QED
  BY <1>6, <1>7, GoneBounded DEF SameNumbers

\* What sending a packet without data leaves alone.
Sending(t, u) ==
  /\ SameData(t, u) /\ u.recover = t.recover
  /\ u.state = t.state /\ u.ep = t.ep /\ u.lastAck = t.lastAck

\* The event that SendEmptyPacket leaves scheduled.
LEMMA SendRetx ==
  ASSUME NEW t \in NumberedSockets, t.ep, NEW asked \in Asked,
         "SYN" \in asked => t.synCount # 0
  PROVE  LET flags == IF "FIN" \in asked THEN {"FIN", "ACK"} ELSE asked
         IN  SendEmptyPacket(t, asked).retx =
               IF t.retx = {} /\ flags \notin {{"ACK"}, {"RST"}} THEN flags ELSE t.retx
<1> DEFINE flags == IF "FIN" \in asked THEN {"FIN", "ACK"} ELSE asked
           u == SendEmptyPacket(t, asked)
<1>1. u.retx = IF t.retx = {} /\ flags \notin {{"ACK"}, {"RST"}}
               THEN flags ELSE t.retx
  BY SendEmptyPacketIs, ZenonT(30)
<1> QED
  BY <1>1

\* SendEmptyPacket: the number of the packet is the next, or the one after it.
LEMMA SendNumbers ==
  ASSUME NEW L \in Limits, NEW t, Numbers(t, L), NEW asked \in Asked,
         t.ep /\ "SYN" \in asked =>
           t.nxt = 0 /\ t.synCount # 0 /\ t.state \in Handshake \cup {"CLOSED"},
         t.ep /\ "FIN" \in asked => /\ t.nxt <= L.sent \/ t.fin # None
                                    /\ L.quiet => t.fin # None
  PROVE  LET u == SendEmptyPacket(t, asked)
             flags == IF "FIN" \in asked THEN {"FIN", "ACK"} ELSE asked
         IN  /\ Numbers(u, L) /\ Sending(t, u)
             /\ u.retx = IF t.ep /\ t.retx = {} /\ flags \notin {{"ACK"}, {"RST"}}
                         THEN flags ELSE t.retx
             /\ "FIN" \notin asked /\ NoFin(t.tx) => NoFin(u.tx)
<1> DEFINE flags == IF "FIN" \in asked THEN {"FIN", "ACK"} ELSE asked
           u == SendEmptyPacket(t, asked)
<1>1. t \in NumberedSockets
  BY DEF Numbers
<1>2. CASE ~t.ep
  <2>1. u = t
    BY <1>2 DEF SendEmptyPacket
  <2> HIDE DEF u
  <2> QED
    BY <1>2, <2>1 DEF Sending, SameData, u
<1>3. CASE t.ep
  <2>4. "SYN" \in asked => t.synCount # 0
    BY <1>3
  <2>5. /\ u \in NumberedSockets /\ SameData(t, u) /\ u.state = t.state
        /\ u.ep /\ u.lastAck = t.lastAck
    BY <1>1, <1>3, <2>4, SendEmptyPacketIs, SMTT(30)
  <2>15. u.retx = IF t.retx = {} /\ flags \notin {{"ACK"}, {"RST"}}
                  THEN flags ELSE t.retx
    BY <1>1, <1>3, <2>4, SendRetx
  <2> DEFINE past == "FIN" \notin asked
                       /\ t.state \in {"FIN_WAIT_1", "LAST_ACK", "CLOSING"}
             packet == [flags |-> IF "FIN" \in asked THEN asked \cup {"ACK"} ELSE asked,
                        seq |-> IF past THEN t.nxt + 1 ELSE t.nxt,
                        ack |-> t.rxNext, len |-> 0,
                        sack |-> IF "ACK" \in (IF "FIN" \in asked THEN asked \cup {"ACK"}
                                               ELSE asked) THEN t.ooo ELSE {}]
  <2>1. (IF "FIN" \in asked THEN asked \cup {"ACK"} ELSE asked) = flags
    BY DEF Asked
  <2>2. ~("SYN" \in flags /\ t.synCount = 0)
    BY <1>3 DEF Asked
  <2>3. u.recover = t.recover /\ u.tx = Append(t.tx, packet)
    BY <1>1, <1>3, <2>1, <2>2 DEF SendEmptyPacket, NumberedSockets
  <2>6. /\ packet.flags = flags /\ packet.ack = t.rxNext
        /\ packet.seq = IF past THEN t.nxt + 1 ELSE t.nxt
    BY <2>1
  <2> HIDE DEF u, packet
  <2>7. /\ Len(t.tx) \in Nat /\ DOMAIN t.tx = 1 .. Len(t.tx)
        /\ DOMAIN u.tx = 1 .. Len(t.tx) + 1
        /\ \A i \in 1 .. Len(t.tx) : u.tx[i] = t.tx[i]
        /\ u.tx[Len(t.tx) + 1] = packet
    BY <1>1, <2>3 DEF NumberedSockets, PacketSeqs
  <2>8. t.nxt \in Nat /\ L.nxt \in Nat /\ L.sent \in Nat /\ t.rxNext \in Nat
    BY <1>1 DEF NumberedSockets, Limits
  <2>9. "FIN" \in flags <=> "FIN" \in asked
    BY DEF Asked
  <2>10. "SYN" \in flags => "SYN" \in asked
    BY DEF Asked
  <2> HIDE DEF flags
  <2>11. PacketNumbers(packet, t, L)
    <3>1. packet.seq <= L.nxt + 1 /\ packet.ack <= t.rxNext
      BY <2>6, <2>8 DEF Numbers
    <3>2. "SYN" \in packet.flags => packet.seq = 0
      BY <1>3, <2>6, <2>10 DEF Handshake
    <3>3. "FIN" \in packet.flags =>
            packet.seq <= L.nxt /\ (packet.seq > L.sent => t.fin # None)
      BY <1>3, <2>6, <2>8, <2>9 DEF Numbers
    <3> QED
      BY <3>1, <3>2, <3>3 DEF PacketNumbers
  <2>12. \A i \in DOMAIN u.tx : PacketNumbers(u.tx[i], u, L)
    <3>1. \A q : PacketNumbers(q, t, L) => PacketNumbers(q, u, L)
      BY <2>5 DEF PacketNumbers, SameData
    <3>2. \A i \in 1 .. Len(t.tx) : PacketNumbers(t.tx[i], t, L)
      BY <2>7 DEF Numbers
    <3> QED
      BY <2>7, <2>8, <2>11, <3>1, <3>2
  <2>13. "FIN" \notin asked /\ NoFin(t.tx) => NoFin(u.tx)
    BY <2>6, <2>7, <2>9 DEF NoFin
  <2>14. Numbers(u, L)
    BY <1>3, <2>3, <2>5, <2>12, <2>13 DEF Numbers, SameData
  <2> QED
    BY <1>3, <2>3, <2>5, <2>13, <2>14, <2>15 DEF Sending, u, flags
<1> QED
  BY <1>2, <1>3

\* Of what a handler leaves: what was received, and what is noted, of the stream.
SameIn(t, u) == u.rxNext = t.rxNext /\ u.fin = t.fin

\* An ACK or a RST.
LEMMA SendPlainBounded ==
  ASSUME NEW L \in Limits, NEW t, Bounded(t, L), NEW asked \in {{"ACK"}, {"RST"}}
  PROVE  LET u == SendEmptyPacket(t, asked)
         IN  Bounded(u, L) /\ Sending(t, u) /\ u.retx = t.retx
<1> DEFINE u == SendEmptyPacket(t, asked)
<1>1. asked \in Asked /\ "SYN" \notin asked /\ "FIN" \notin asked
  BY DEF Asked
<1>2. Numbers(t, L) /\ Phase(t, L)
  BY DEF Bounded
<1>3. /\ Numbers(u, L) /\ Sending(t, u) /\ u.retx = t.retx
      /\ NoFin(t.tx) => NoFin(u.tx)
  BY <1>1, <1>2, SendNumbers
<1> HIDE DEF u
<1>4. Phase(u, L)
  BY <1>2, <1>3 DEF Phase, Sending, SameData
<1> QED
  BY <1>3, <1>4 DEF Bounded, u

\* SendRST ends the socket.
LEMMA SendRSTBounded ==
  ASSUME NEW L \in Limits, NEW t, Numbers(t, L)
  PROVE  LET u == SendRST(t)
         IN  Bounded(u, L) /\ ~u.ep /\ SameIn(t, u)
<1> DEFINE s == SendEmptyPacket(t, {"RST"})
<1>1. {"RST"} \in Asked /\ "SYN" \notin {"RST"} /\ "FIN" \notin {"RST"}
  BY DEF Asked
<1>2. Numbers(s, L) /\ Sending(t, s)
  BY <1>1, SendNumbers
<1> HIDE DEF s
<1>3. LET u == Drop(s) IN Bounded(u, L) /\ ~u.ep /\ SameIn(s, u)
  BY <1>2, DeallocateBounded DEF SameIn
<1> QED
  BY <1>2, <1>3 DEF SendRST, s, SameIn, Sending, SameData

\* The state that comes with a FIN.
LEMMA FinBounded ==
  ASSUME NEW L \in Limits, NEW t, Numbers(t, L),
         "SYN" \notin t.retx, ~t.lastAck,
         t.ep => (t.nxt <= L.sent \/ t.fin # None) /\ (L.quiet => t.fin # None),
         NEW asked \in {{"FIN"}, {"FIN", "ACK"}},
         NEW state \in {"FIN_WAIT_1", "LAST_ACK"},
         t.ep /\ state = "FIN_WAIT_1" => t.rxNext <= L.early
  PROVE  LET u == [SendEmptyPacket(t, asked) EXCEPT !.state = state]
         IN  /\ Bounded(u, L) /\ SameIn(t, u) /\ u.state = state /\ ~u.lastAck
             /\ "SYN" \notin u.retx
<1> DEFINE s == SendEmptyPacket(t, asked)
           u == [s EXCEPT !.state = state]
<1>1. asked \in Asked /\ "SYN" \notin asked
  BY DEF Asked
<1>2. /\ Numbers(s, L) /\ Sending(t, s)
      /\ s.retx = IF t.ep /\ t.retx = {} /\ {"FIN", "ACK"} \notin {{"ACK"}, {"RST"}}
                  THEN {"FIN", "ACK"} ELSE t.retx
  BY <1>1, SendNumbers
<1>3. s \in NumberedSockets /\ "SYN" \notin s.retx /\ ~s.lastAck
  BY <1>2 DEF Numbers, Sending
<1> HIDE DEF s
<1>4. state \in States
  BY DEF States
<1>5. u \in NumberedSockets
  BY <1>3, <1>4 DEF NumberedSockets
<1>6. SameNumbers(s, u) /\ u.ep = s.ep /\ u.retx = s.retx /\ ~u.lastAck /\ u.state = state
  BY <1>3 DEF NumberedSockets, SameNumbers
<1> HIDE DEF u
<1>7. Numbers(u, L)
  BY <1>2, <1>5, <1>6, AlikeNumbers
<1>8. /\ u.ep = t.ep /\ u.rxNext = t.rxNext /\ u.fin = t.fin /\ u.nxt = t.nxt
      /\ "SYN" \notin u.retx
  BY <1>2, <1>3, <1>6 DEF Sending, SameData, SameNumbers
<1>10. t.nxt \in Nat /\ L.sent \in Nat
  BY DEF Numbers, NumberedSockets, Limits
<1>9. Phase(u, L)
  BY <1>6, <1>8, <1>10 DEF Phase, FinUnsent, PeerOpen, Handshake
<1> QED
  BY <1>6, <1>7, <1>8, <1>9 DEF Bounded, SameIn, u, s

\* DoClose.
LEMMA DoCloseBounded ==
  ASSUME NEW L \in Limits, NEW t, Bounded(t, L),
         t.ep => (L.quiet => t.fin # None)
  PROVE  LET u == DoClose(t)
         IN  Bounded(u, L) /\ SameIn(t, u)
<1> DEFINE u == DoClose(t)
<1>1. Numbers(t, L) /\ Phase(t, L)
  BY DEF Bounded
<1>2. t.nxt \in Nat /\ L.sent \in Nat /\ L.acked \subseteq FinWait
  BY <1>1 DEF Numbers, NumberedSockets, Limits
<1>3. CASE t.state \in {"ESTABLISHED", "CLOSE_WAIT"}
  <2>1. "SYN" \notin t.retx /\ ~t.lastAck
    BY <1>1, <1>3 DEF Phase, Handshake
  <2>2. t.ep => t.nxt <= L.sent \/ t.fin # None
    BY <1>1, <1>2, <1>3 DEF Phase, FinWait
  <2>3. t.ep /\ t.state = "ESTABLISHED" => t.rxNext <= L.early
    BY <1>1 DEF Phase, PeerOpen
  <2>4. CASE t.state = "ESTABLISHED"
    <3>1. u = [SendEmptyPacket(t, {"FIN"}) EXCEPT !.state = "FIN_WAIT_1"]
      BY <2>4 DEF DoClose
    <3> HIDE DEF u
    <3> QED
      BY <1>1, <2>1, <2>2, <2>3, <2>4, <3>1, FinBounded DEF u
  <2>5. CASE t.state = "CLOSE_WAIT"
    <3>1. u = [SendEmptyPacket(t, {"FIN", "ACK"}) EXCEPT !.state = "LAST_ACK"]
      BY <2>5 DEF DoClose
    <3> HIDE DEF u
    <3> QED
      BY <1>1, <2>1, <2>2, <2>5, <3>1, FinBounded DEF u
  <2> QED
    BY <1>3, <2>4, <2>5
<1>4. CASE t.state \in {"SYN_SENT", "CLOSING"}
  <2>1. u = CloseAndNotify(SendRST(t))
    BY <1>4 DEF DoClose
  <2>2. LET s == SendRST(t) IN Bounded(s, L) /\ SameIn(t, s)
    BY <1>1, SendRSTBounded
  <2>3. Bounded(u, L) /\ SameIn(SendRST(t), u)
    BY <2>1, <2>2, DeallocateBounded DEF Bounded, SameIn
  <2> HIDE DEF u
  <2> QED
    BY <2>2, <2>3 DEF SameIn, u
<1>5. CASE t.state \notin {"ESTABLISHED", "CLOSE_WAIT", "SYN_SENT", "CLOSING"}
  BY <1>5 DEF DoClose, SameIn
<1> QED
  BY <1>3, <1>4, <1>5

\* Close.
LEMMA CloseBounded ==
  ASSUME NEW L \in Limits, NEW t, Bounded(t, L),
         t.ep => (L.quiet => t.fin # None)
  PROVE  LET u == Close(t)
         IN  Bounded(u, L) /\ SameIn(t, u)
<1> DEFINE u == Close(t)
<1>1. Numbers(t, L)
  BY DEF Bounded
<1>2. CASE t.ooo # {}
  BY <1>1, <1>2, SendRSTBounded DEF Close
<1>3. CASE t.ooo = {} /\ ~AllSent(t)
  <2>1. u = [t EXCEPT !.onEmpty = TRUE]
    BY <1>3 DEF Close
  <2> HIDE DEF u
  <2>2. u \in NumberedSockets
    BY <1>1, <2>1 DEF Numbers, NumberedSockets
  <2>3. SameNumbers(t, u) /\ SamePhase(t, u)
    BY <1>1, <2>1 DEF Numbers, NumberedSockets, SameNumbers, SamePhase
  <2> QED
    BY <2>2, <2>3, AlikeBounded DEF SameNumbers, SameIn, u
<1>4. CASE t.ooo = {} /\ AllSent(t)
  BY <1>4, DoCloseBounded DEF Close
<1> QED
  BY <1>2, <1>3, <1>4

\* The peer has ended, and this end goes on: DoPeerClose, at the writer.  The socket s
\* is the one before the end of the stream was noted.
LEMMA DoPeerCloseWaits ==
  ASSUME NEW L \in Limits, NEW t, Numbers(t, L), ~t.shut, t.fin # None,
         NEW s, Phase(s, L), s.state = "ESTABLISHED", SamePhase(s, t), t.tx = s.tx
  PROVE  LET u == DoPeerClose(t)
         IN  Bounded(u, L) /\ SameIn(t, u)
<1> DEFINE told == [t EXCEPT !.state = "CLOSE_WAIT", !.normal = TRUE]
           u == DoPeerClose(t)
<1>1. t \in NumberedSockets
  BY DEF Numbers
<1>2. told \in NumberedSockets
  BY <1>1 DEF NumberedSockets, States
<1>3. /\ SameNumbers(t, told) /\ told.state = "CLOSE_WAIT" /\ told.ep = t.ep
      /\ told.retx = t.retx /\ told.lastAck = t.lastAck /\ ~told.shut
  BY <1>1 DEF NumberedSockets, SameNumbers
<1>4. u = LET done == SendEmptyPacket(told, {"ACK"})
          IN  IF done.state = "LAST_ACK"
              THEN [done EXCEPT !.retries = DataRetries, !.lastAck = TRUE] ELSE done
  BY <1>3 DEF DoPeerClose
<1> HIDE DEF told, u
<1>5. Numbers(told, L)
  BY <1>2, <1>3, AlikeNumbers
<1>6. Phase(told, L)
  <2>1. "SYN" \notin t.retx /\ ~t.lastAck
    BY DEF Phase, Handshake, SamePhase
  <2>2. t.ep => L.open /\ "FIN" \notin t.retx /\ NoFin(t.tx)
    BY DEF Phase, FinUnsent, SamePhase
  <2>3. "CLOSE_WAIT" \notin PeerOpen /\ "CLOSE_WAIT" \notin Handshake
    BY DEF PeerOpen, Handshake
  <2> QED
    BY <1>3, <2>1, <2>2, <2>3 DEF Phase, SameNumbers
<1>7. LET done == SendEmptyPacket(told, {"ACK"})
      IN  Bounded(done, L) /\ Sending(told, done)
  BY <1>5, <1>6, SendPlainBounded DEF Bounded
<1>8. u = SendEmptyPacket(told, {"ACK"})
  BY <1>3, <1>4, <1>7 DEF Sending
<1> QED
  BY <1>3, <1>7, <1>8 DEF Sending, SameData, SameNumbers, SameIn, u

\* and this end ends as well: at the reader, which has all its data sent.
LEMMA DoPeerCloseEnds ==
  ASSUME NEW L \in Limits, NEW t, Numbers(t, L), t.shut, AllSent(t), t.fin # None,
         "SYN" \notin t.retx, ~t.lastAck
  PROVE  LET u == DoPeerClose(t)
         IN  Bounded(u, L) /\ SameIn(t, u)
<1> DEFINE told == [t EXCEPT !.state = "CLOSE_WAIT", !.normal = TRUE]
           done == Close(told)
           u == DoPeerClose(t)
<1>1. t \in NumberedSockets
  BY DEF Numbers
<1>2. told \in NumberedSockets
  BY <1>1 DEF NumberedSockets, States
<1>3. /\ SameNumbers(t, told) /\ told.state = "CLOSE_WAIT" /\ told.ep = t.ep
      /\ told.retx = t.retx /\ told.lastAck = t.lastAck /\ told.shut
      /\ AllSent(told)
  BY <1>1 DEF NumberedSockets, SameNumbers, AllSent
<1>4. u = IF done.state = "LAST_ACK"
          THEN [done EXCEPT !.retries = DataRetries, !.lastAck = TRUE] ELSE done
  BY <1>3 DEF DoPeerClose
<1> HIDE DEF told, u
<1>5. Numbers(told, L)
  BY <1>2, <1>3, AlikeNumbers
<1>6. CASE told.ooo # {}
  <2>1. done = SendRST(told)
    BY <1>6 DEF Close
  <2>2. Bounded(done, L) /\ ~done.ep /\ SameIn(told, done)
    BY <1>5, <2>1, SendRSTBounded
  <2>3. done.state = told.state
    <3> DEFINE s == SendEmptyPacket(told, {"RST"})
    <3>1. {"RST"} \in Asked /\ "SYN" \notin {"RST"} /\ "FIN" \notin {"RST"}
      BY DEF Asked
    <3>2. Sending(told, s) /\ Numbers(s, L)
      BY <1>5, <3>1, SendNumbers
    <3> HIDE DEF s
    <3>3. Drop(s).state = s.state
      BY <3>2 DEF Drop, DeallocateEndPoint, Numbers, NumberedSockets
    <3> QED
      BY <2>1, <3>2, <3>3 DEF SendRST, Sending, s
  <2> HIDE DEF done
  <2> QED
    BY <1>3, <1>4, <2>2, <2>3 DEF SameNumbers, SameIn, u
<1>7. CASE told.ooo = {}
  <2>1. done = [SendEmptyPacket(told, {"FIN", "ACK"}) EXCEPT !.state = "LAST_ACK"]
    BY <1>3, <1>7 DEF Close, DoClose
  <2>2. /\ Bounded(done, L) /\ SameIn(told, done) /\ done.state = "LAST_ACK"
    BY <1>3, <1>5, <2>1, FinBounded DEF SameNumbers
  <2> HIDE DEF done
  <2>3. u = [done EXCEPT !.retries = DataRetries, !.lastAck = TRUE]
    BY <1>4, <2>2
  <2>4. done \in NumberedSockets /\ Numbers(done, L) /\ Phase(done, L)
    BY <2>2 DEF Bounded, Numbers
  <2>5. u \in NumberedSockets
    BY <2>3, <2>4, Values DEF NumberedSockets
  <2>6. SameNumbers(done, u) /\ u.ep = done.ep /\ u.retx = done.retx /\ u.state = done.state
    BY <2>3, <2>4 DEF NumberedSockets, SameNumbers
  <2>7. Numbers(u, L)
    BY <2>4, <2>5, <2>6, AlikeNumbers
  <2>8. SameIn(t, u) /\ u.fin # None
    BY <1>3, <2>2, <2>6 DEF SameIn, SameNumbers
  <2>9. Phase(u, L)
    BY <2>2, <2>4, <2>6, <2>8 DEF Phase, SameNumbers
  <2> QED
    BY <2>7, <2>8, <2>9 DEF Bounded, u
<1> QED
  BY <1>6, <1>7

\* A socket with the peer's FIN noted is bound by its numbers alone in the last states.
LEMMA EndedBounded ==
  ASSUME NEW L, NEW t, Numbers(t, L), t.fin # None, "SYN" \notin t.retx, ~t.lastAck,
         t.state \in {"CLOSING", "TIME_WAIT"}
  PROVE  Bounded(t, L)
BY DEF Bounded, Phase, PeerOpen, FinUnsent, Handshake

\* TimeWait.
LEMMA TimeWaitBounded ==
  ASSUME NEW L \in Limits, NEW t, Numbers(t, L), t.fin # None \/ ~L.quiet,
         t.fin # None \/ t.nxt <= L.sent
  PROVE  LET u == TimeWait(t)
         IN  Bounded(u, L) /\ SameIn(t, u)
<1> DEFINE u == TimeWait(t)
<1>1. t \in NumberedSockets
  BY DEF Numbers
<1>2. u \in NumberedSockets /\ u.retx = {} /\ ~u.lastAck /\ u.state = "TIME_WAIT"
  BY <1>1, TimeWaitIs
<1>3. SameNumbers(t, u)
  BY <1>1 DEF TimeWait, NumberedSockets, SameNumbers
<1> HIDE DEF u
<1>4. Numbers(u, L)
  BY <1>2, <1>3, AlikeNumbers
<1>5. t.nxt \in Nat /\ L.sent \in Nat /\ L.quiet \in BOOLEAN
  BY <1>1 DEF NumberedSockets, Limits
<1>6. Phase(u, L)
  BY <1>2, <1>3, <1>5 DEF Phase, SameNumbers, PeerOpen, FinUnsent, Handshake
<1> QED
  BY <1>3, <1>4, <1>6 DEF Bounded, SameNumbers, SameIn, u

\* The end of ProcessWait: a socket that has all of the stream leaves the states in
\* which it may not.
LEMMA WaitFinishedBounded ==
  ASSUME NEW L \in Limits, NEW t, Numbers(t, L), NEW p,
         Phase(t, L) \/ (/\ Finished(t) /\ t.state \in FinWait
                         /\ "SYN" \notin t.retx /\ ~t.lastAck)
  PROVE  LET u == WaitFinished(t, p)
         IN  Bounded(u, L) /\ SameIn(t, u)
<1> DEFINE u == WaitFinished(t, p)
<1>1. t \in NumberedSockets
  BY DEF Numbers
<1>2. CASE ~(t.state \in FinWait /\ Finished(t))
  BY <1>2 DEF WaitFinished, FinWait, Bounded, SameIn
<1>3. CASE t.state \in FinWait /\ Finished(t)
  <2> DEFINE closing == [t EXCEPT !.state = "CLOSING"]
  <2>1. t.fin # None
    BY <1>3 DEF Finished
  <2>2. "SYN" \notin t.retx /\ ~t.lastAck
    BY <1>3 DEF Phase, FinWait, Handshake
  <2>3. Bounded(closing, L) /\ SameIn(t, closing)
    <3>1. closing \in NumberedSockets
      BY <1>1 DEF NumberedSockets, States
    <3>2. SameNumbers(t, closing) /\ closing.retx = t.retx /\ closing.lastAck = t.lastAck
          /\ closing.state = "CLOSING"
      BY <1>1 DEF NumberedSockets, SameNumbers
    <3> HIDE DEF closing
    <3>3. Numbers(closing, L)
      BY <3>1, <3>2, AlikeNumbers
    <3> QED
      BY <2>1, <2>2, <3>2, <3>3, EndedBounded DEF SameNumbers, SameIn
  <2>4. Bounded(TimeWait(t), L) /\ SameIn(t, TimeWait(t))
    BY <2>1, TimeWaitBounded
  <2>5. \E m \in {TimeWait(t), closing} : u = SendEmptyPacket(m, {"ACK"})
    BY <1>3 DEF WaitFinished, FinWait
  <2> HIDE DEF closing, u
  <2>6. PICK m \in {TimeWait(t), closing} : u = SendEmptyPacket(m, {"ACK"})
    BY <2>5
  <2>7. Bounded(m, L) /\ SameIn(t, m)
    BY <2>3, <2>4
  <2>8. Bounded(u, L) /\ Sending(m, u)
    BY <2>6, <2>7, SendPlainBounded
  <2> QED
    BY <2>7, <2>8 DEF Sending, SameData, SameIn, u
<1> QED
  BY <1>2, <1>3

\* SetFinSequence: a FIN within the limits.
LEMMA SetFinNumbers ==
  ASSUME NEW L \in Limits, NEW t, Numbers(t, L), NEW s \in Nat, s <= L.fin, s < L.rx
  PROVE  LET u == SetFinSequence(t, s)
         IN  /\ Numbers(u, L) /\ SamePhase(t, u) /\ u.nxt = t.nxt /\ u.tx = t.tx
             /\ u.fin = s /\ u.fin # None
             /\ u.rxNext = t.rxNext \/ Finished(u)
             /\ Phase(t, L) => Phase(u, L) \/ (Finished(u) /\ u.state \in PeerOpen)
<1> DEFINE u == SetFinSequence(t, s)
<1>1. t \in NumberedSockets /\ t.rxNext \in Nat /\ L.rx \in Nat /\ L.nxt \in Nat
  BY DEF Numbers, NumberedSockets, Limits
<1>2. u = [t EXCEPT !.fin = s, !.rxNext = IF t.rxNext = s THEN t.rxNext + 1 ELSE t.rxNext]
  BY <1>1 DEF SetFinSequence, NumberedSockets
<1>3. s \in MaybeNumber /\ (IF t.rxNext = s THEN t.rxNext + 1 ELSE t.rxNext) \in Nat
      /\ s # None
  BY <1>1 DEF MaybeNumber, None
<1> HIDE DEF u
<1>4. u \in NumberedSockets
  BY <1>1, <1>2, <1>3 DEF NumberedSockets
<1>5. /\ u.fin = s /\ u.rxNext = IF t.rxNext = s THEN t.rxNext + 1 ELSE t.rxNext
      /\ u.nxt = t.nxt /\ u.head = t.head /\ u.recover = t.recover /\ u.tx = t.tx
      /\ SamePhase(t, u)
  BY <1>1, <1>2 DEF NumberedSockets, SamePhase
<1>6. t.rxNext <= u.rxNext /\ u.rxNext <= L.rx
  BY <1>1, <1>5 DEF Numbers
<1>7. Numbers(u, L)
  BY <1>3, <1>4, <1>5, <1>6, MovedNumbers DEF Numbers
<1>8. u.rxNext = t.rxNext \/ Finished(u)
  BY <1>1, <1>3, <1>5 DEF Finished
<1>9. Phase(t, L) => Phase(u, L) \/ (Finished(u) /\ u.state \in PeerOpen)
  BY <1>3, <1>5, <1>8 DEF Phase, SamePhase
<1> QED
  BY <1>3, <1>5, <1>7, <1>8, <1>9 DEF u

\* ProcessAck, of the socket d that Discard has made of t: the next number is at most
\* the one acknowledged.
LEMMA AckedBounded ==
  ASSUME NEW L \in Limits, NEW t, Bounded(t, L), t.state \notin Handshake,
         NEW ack \in Nat, ack <= L.nxt,
         NEW d \in NumberedSockets, d.head = ack, d.nxt = t.nxt,
         d.recover = t.recover, SameIn(t, d), d.tx = t.tx, SamePhase(t, d),
         NEW dup, dup => ack <= L.sent,
         ack > L.sent /\ t.fin = None => t.state \in L.acked,
         NEW u, AckOutcome(d, u, ack, t.head, dup)
  PROVE  Bounded(u, L) /\ SameIn(t, u) /\ SameButAck(d, u)
<1>1. Numbers(t, L) /\ Phase(t, L)
  BY DEF Bounded
<1>2. /\ t \in NumberedSockets /\ t.nxt \in Nat /\ t.head \in Nat
      /\ L.nxt \in Nat /\ L.sent \in Nat /\ t.rxNext \in Nat
  BY <1>1 DEF Numbers, NumberedSockets, Limits
<1>3. SameButAck(d, u)
  BY AckFields
<1>4. u \in NumberedSockets /\ u.nxt \in Nat
  BY DEF AckOutcome, NumberedSockets
<1>5. u.recover = d.recover
  BY DEF AckOutcome, NumberedSockets
<1>6. \/ /\ u.nxt = t.nxt /\ u.retx = t.retx
         /\ ack = t.head \/ dup
      \/ /\ ack = t.head
         /\ u.nxt = ack /\ u.retx = t.retx
      \/ /\ u.nxt = IF ack > t.nxt THEN ack ELSE t.nxt
         /\ u.retx \in {{}, {"RTO"}}
  BY DEF AckOutcome, SamePhase
<1>7. /\ u.head = ack /\ u.rxNext = t.rxNext /\ u.fin = t.fin /\ u.tx = t.tx
      /\ u.state = t.state /\ u.ep = t.ep /\ u.lastAck = t.lastAck
  BY <1>3 DEF SameButAck, SamePhase, SameIn
<1>8. u.nxt <= L.nxt /\ (u.head > L.sent => u.nxt > L.sent)
  BY <1>1, <1>2, <1>4, <1>6, <1>7 DEF Numbers
<1>9. Numbers(u, L)
  <2>1. /\ u.head <= L.nxt /\ u.recover <= N + 1 /\ t.rxNext <= u.rxNext
        /\ u.rxNext <= L.rx /\ u.fin <= L.fin
    BY <1>1, <1>2, <1>5, <1>7 DEF Numbers
  <2> QED
    BY <1>1, <1>4, <1>7, <1>8, <2>1, MovedNumbers
<1>10. Phase(u, L)
  <2>1. /\ "SYN" \notin u.retx
        /\ t.ep /\ t.state \in FinUnsent => "FIN" \notin u.retx
    BY <1>1, <1>6 DEF Phase
  <2>2. t.ep /\ u.nxt > L.sent /\ t.fin = None =>
          t.state \in L.acked /\ "FIN" \notin u.retx
    <3>1. CASE t.nxt > L.sent
      BY <1>1, <1>6, <3>1 DEF Phase
    <3>2. CASE ~(t.nxt > L.sent)
      <4>1. t.head <= L.sent
        BY <1>1, <1>2, <3>2 DEF Numbers
      <4> QED
        BY <1>2, <1>4, <1>6, <3>2, <4>1
    <3> QED
      BY <3>1, <3>2
  <2> QED
    BY <1>1, <1>7, <2>1, <2>2 DEF Phase
<1> QED
  BY <1>3, <1>7, <1>9, <1>10 DEF Bounded, SameIn

-----------------------------------------------------------------------------
\* The numbers of the writer, in its handlers.

Writing(L) ==
  /\ L \in Limits /\ L.nxt = N + 2 /\ L.sent = N + 2 /\ ~L.quiet
  /\ L.early = 1 /\ L.rx >= 1

\* The state may change with the last segment.
SentIn(t, u) ==
  u.state = t.state \/ u.state = "LAST_ACK"
    \/ (u.state = "FIN_WAIT_1" /\ t.state = "ESTABLISHED")

\* A segment.
LEMMA SendDataBounded ==
  ASSUME NEW L, Writing(L), NEW t, Bounded(t, L), t.state \notin Handshake,
         GoodBuffer(t.buf), NEW seg, CanCopy(t.buf, seg), seg < t.written
  PROVE  LET u == SendDataPacket(t, seg)
         IN  /\ Bounded(u, L) /\ u.state \notin Handshake /\ GoodBuffer(u.buf)
             /\ SameIn(t, u) /\ SentIn(t, u)
<1> DEFINE last == t.onEmpty /\ seg + 1 = t.written
           flags == IF last THEN {"ACK", "FIN"} ELSE {"ACK"}
           p == [flags |-> flags, seq |-> seg + 1, ack |-> t.rxNext,
                 len |-> 1, sack |-> {}]
           b == Copy(t.buf, seg)
           rx == IF t.retx = {} THEN {"RTO"} ELSE t.retx
           st == CASE last /\ t.state = "ESTABLISHED" -> "FIN_WAIT_1"
                   [] last /\ t.state = "CLOSE_WAIT" -> "LAST_ACK"
                   [] OTHER -> t.state
           u == SendDataPacket(t, seg)
<1>1. Numbers(t, L) /\ Phase(t, L) /\ t \in NumberedSockets
  BY DEF Bounded, Numbers
<1>2. /\ t.written \in 0..N /\ N \in Nat /\ t.nxt \in Nat /\ t.head \in Nat
      /\ t.rxNext \in Nat /\ L.nxt = N + 2 /\ L.sent = N + 2
  BY <1>1, TxBufferAssumption DEF NumberedSockets, Amounts, Writing
<1>3. GoodBuffer(b) /\ b \in Buffers /\ seg \in 0..N-1
  BY CopyGood DEF GoodBuffer
<1>4. p \in NumberedPackets
  <2>1. flags \in FlagSets
    BY DEF FlagSets
  <2>2. seg + 1 \in Nat /\ {} \in SegmentSets
    BY <1>3, Values, TxBufferAssumption
  <2> HIDE DEF flags
  <2> QED
    BY <1>2, <2>1, <2>2 DEF NumberedPackets
<1>5. u = [t EXCEPT !.buf = b, !.nxt = seg + 2, !.delAck = 0, !.retx = rx,
                    !.state = st, !.tx = Append(@, p)]
  BY <1>1 DEF SendDataPacket, NumberedSockets
<1>6. /\ st \in States /\ rx \in RetxEvents /\ 0 \in DelAckCounts
      /\ Append(t.tx, p) \in PacketSeqs /\ seg + 2 \in Nat
  <2>1. t.state \in States /\ t.retx \in RetxEvents
    BY <1>1 DEF NumberedSockets
  <2>2. st \in States
    BY <2>1 DEF States
  <2>3. Append(t.tx, p) \in PacketSeqs
    <3> HIDE DEF p
    <3> QED
      BY <1>1, <1>4, AppendProperties DEF NumberedSockets, PacketSeqs
  <2>4. rx \in RetxEvents /\ 0 \in DelAckCounts
    BY <2>1, Values
  <2>5. seg + 2 \in Nat
    BY <1>2, <1>3
  <2> HIDE DEF st, rx, p
  <2> QED
    BY <2>2, <2>3, <2>4, <2>5
<1>7. \/ st = t.state /\ (t.state \in FinUnsent => ~last \/ t.state \in Handshake)
      \/ /\ t.state = "ESTABLISHED" /\ st = "FIN_WAIT_1"
      \/ /\ t.state = "CLOSE_WAIT" /\ st = "LAST_ACK"
  BY DEF FinUnsent, Handshake
<1>8. ~last => "FIN" \notin p.flags
  OBVIOUS
<1>9. PacketNumbers(p, t, L)
  BY <1>2, <1>3 DEF PacketNumbers
<1>10. "SYN" \notin t.retx /\ "SYN" \notin rx /\ ("FIN" \in rx => "FIN" \in t.retx)
  BY <1>1 DEF Phase
<1> HIDE DEF b, rx, st, p, u, flags, last
<1>11. u \in NumberedSockets
  BY <1>1, <1>3, <1>5, <1>6, ZenonT(60) DEF NumberedSockets
<1>12. /\ u.buf = b /\ u.nxt = seg + 2 /\ u.retx = rx
       /\ u.state = st /\ u.tx = Append(t.tx, p)
  BY <1>1, <1>5 DEF NumberedSockets
<1>13. /\ u.head = t.head /\ u.ep = t.ep /\ u.lastAck = t.lastAck
       /\ u.recover = t.recover /\ u.rxNext = t.rxNext /\ u.fin = t.fin
  BY <1>1, <1>5 DEF NumberedSockets
<1>14. /\ Len(t.tx) \in Nat /\ DOMAIN t.tx = 1 .. Len(t.tx)
       /\ DOMAIN u.tx = 1 .. Len(t.tx) + 1
       /\ \A i \in 1 .. Len(t.tx) : u.tx[i] = t.tx[i]
       /\ u.tx[Len(t.tx) + 1] = p
  BY <1>1, <1>12 DEF NumberedSockets, PacketSeqs
<1>15. \A i \in DOMAIN u.tx : PacketNumbers(u.tx[i], u, L)
  <2>1. \A q : PacketNumbers(q, t, L) => PacketNumbers(q, u, L)
    BY <1>13 DEF PacketNumbers
  <2>2. \A i \in 1 .. Len(t.tx) : PacketNumbers(t.tx[i], t, L)
    BY <1>1, <1>14 DEF Numbers
  <2> QED
    BY <1>9, <1>14, <2>1, <2>2
<1>16. Numbers(u, L)
  <2>1. u.nxt <= L.nxt /\ ~(u.head > L.sent) /\ ~L.quiet
    BY <1>1, <1>2, <1>3, <1>12, <1>13 DEF Numbers, Writing
  <2> QED
    BY <1>1, <1>11, <1>13, <1>15, <2>1 DEF Numbers
<1>17. Phase(u, L)
  <2>1. t.ep => L.open \/ t.state \notin FinUnsent
    BY <1>1 DEF Phase
  <2>2. t.ep /\ st \in FinUnsent => L.open /\ "FIN" \notin rx /\ NoFin(u.tx)
    <3> SUFFICES ASSUME t.ep, st \in FinUnsent
                 PROVE  L.open /\ "FIN" \notin rx /\ NoFin(u.tx)
      OBVIOUS
    <3>1. st = t.state /\ ~last
      BY <1>7 DEF FinUnsent
    <3>2. L.open /\ "FIN" \notin t.retx /\ NoFin(t.tx)
      BY <1>1, <3>1 DEF Phase
    <3>3. NoFin(u.tx)
      BY <1>8, <1>14, <3>1, <3>2 DEF NoFin
    <3> QED
      BY <1>10, <3>2, <3>3
  <2>3. t.ep /\ st \in PeerOpen => t.state \in PeerOpen
    BY <1>7 DEF PeerOpen
  <2>4. st \notin Handshake
    BY <1>7 DEF Handshake
  <2>5. t.lastAck => st = "LAST_ACK" /\ t.fin # None
    BY <1>1, <1>7 DEF Phase
  <2>6. ~(u.nxt > L.sent) /\ ~L.quiet
    BY <1>2, <1>3, <1>12 DEF Writing
  <2> QED
    BY <1>1, <1>10, <1>12, <1>13, <2>2, <2>3, <2>4, <2>5, <2>6 DEF Phase
<1> QED
  BY <1>3, <1>7, <1>12, <1>13, <1>16, <1>17 DEF Bounded, SameIn, SentIn, Handshake, u

\* SendPendingData.
LEMMA SendPendingBounded ==
  ASSUME NEW L, Writing(L), NEW t, Bounded(t, L), t.state \notin Handshake,
         GoodBuffer(t.buf)
  PROVE  LET u == SendPendingData(t)
         IN  Bounded(u, L) /\ SameIn(t, u) /\ SentIn(t, u)
<1> DEFINE S == {u \in NumberedSockets : /\ Bounded(u, L) /\ u.state \notin Handshake
                                         /\ GoodBuffer(u.buf) /\ SameIn(t, u)
                                         /\ SentIn(t, u)}
<1>1. \A u \in S : SendNext(u) \in S
  <2> TAKE u \in S
  <2>1. CASE SendNext(u) = u
    BY <2>1
  <2>2. CASE SendNext(u) # u
    <3>1. PICK seg : /\ CanCopy(u.buf, seg) /\ seg < u.written
                     /\ SendNext(u) = SendDataPacket(u, seg)
      BY <2>2, SendNextIs
    <3>2. LET v == SendDataPacket(u, seg)
          IN  /\ Bounded(v, L) /\ v.state \notin Handshake /\ GoodBuffer(v.buf)
              /\ SameIn(u, v) /\ SentIn(u, v)
      BY <3>1, SendDataBounded
    <3> QED
      BY <3>1, <3>2 DEF Bounded, Numbers, SameIn, SentIn
  <2> QED
    BY <2>1, <2>2
<1>2. t \in S
  BY DEF Bounded, Numbers, SameIn, SentIn
<1> HIDE DEF S
<1>3. SendPendingData(t) \in S
  BY <1>1, <1>2, SendPendingDataStays
<1> QED
  BY <1>3 DEF S

\* What a packet for the writer may say.
WriterHears(t, p, L) ==
  /\ p \in NumberedPackets /\ p.len = 0 /\ p.ack <= L.nxt
  /\ "SYN" \in p.flags => p.seq = 0
  /\ "FIN" \in p.flags /\ t.state \notin {"CLOSING", "LAST_ACK", "TIME_WAIT"} =>
       p.seq <= L.fin /\ p.seq < L.rx

\* ReceivedAck, at the writer.
LEMMA ReceivedAckWrites ==
  ASSUME NEW L, Writing(L), NEW t, Bounded(t, L),
         NEW c \in Nat, NEW R \in Nat, NEW h, WriterData(t, c, R, h), t.head > 0,
         t.state \in {"ESTABLISHED", "FIN_WAIT_1", "FIN_WAIT_2", "CLOSE_WAIT"},
         NEW p \in NumberedPackets, p.len = 0, Honest(p, R), Below(t, p), p.ack <= L.nxt
  PROVE  LET u == ReceivedAck(t, p)
         IN  Bounded(u, L) /\ SameIn(t, u) /\ SentIn(t, u)
<1> DEFINE board == [t EXCEPT !.buf = Update(@, p.sack)]
           dup == board.buf.sacked # t.buf.sacked
           d == Discard(board, p.ack)
           a == ProcessAck(d, p.ack, t.head, dup)
           u == ReceivedAck(t, p)
<1>1. t \in NumberedSockets
  BY DEF WriterData
<1>2. t.head \in Nat /\ p.ack \in Nat
  BY <1>1 DEF NumberedSockets, NumberedPackets
<1>3. u = SendPendingData(a)
  BY <1>2 DEF ReceivedAck, Below
<1>4. d = [t EXCEPT !.buf = d.buf, !.head = p.ack] /\ GoodBuffer(d.buf)
  BY DiscardWriter, ZenonT(60)
<1> HIDE DEF d
<1>5. d.buf \in Buffers
  BY <1>4 DEF GoodBuffer
<1>6. d \in NumberedSockets
  BY <1>1, <1>2, <1>4, <1>5, ZenonT(60) DEF NumberedSockets
<1>7. /\ d.head = p.ack /\ d.nxt = t.nxt /\ d.recover = t.recover /\ SameIn(t, d)
      /\ d.tx = t.tx /\ SamePhase(t, d)
  BY <1>1, <1>4 DEF NumberedSockets, SameIn, SamePhase
<1>8. dup \in BOOLEAN
  OBVIOUS
<1> HIDE DEF dup
<1>9. AckOutcome(d, a, p.ack, t.head, dup)
  BY <1>2, <1>6, <1>8, ProcessAckIs
<1> HIDE DEF a
<1>10. L \in Limits /\ t.state \notin Handshake /\ ~(p.ack > L.sent)
  BY <1>2, TxBufferAssumption DEF Writing, Handshake
<1>11. p.ack <= L.sent
  BY DEF Writing
<1>12. Bounded(a, L) /\ SameIn(t, a) /\ SameButAck(d, a)
  BY <1>2, <1>6, <1>7, <1>9, <1>10, <1>11, AckedBounded
<1>13. a.state = t.state /\ GoodBuffer(a.buf)
  BY <1>4, <1>7, <1>12 DEF SameButAck, SamePhase
<1>14. LET v == SendPendingData(a) IN Bounded(v, L) /\ SameIn(a, v) /\ SentIn(a, v)
  BY <1>10, <1>12, <1>13, SendPendingBounded
<1> HIDE DEF u
<1> QED
  BY <1>3, <1>12, <1>13, <1>14 DEF SameIn, SentIn, u

\* PeerClose, at the writer.
LEMMA PeerCloseWrites ==
  ASSUME NEW L, Writing(L), NEW t, Bounded(t, L), ~t.shut, t.state = "ESTABLISHED",
         NEW p, WriterHears(t, p, L), "FIN" \in p.flags
  PROVE  Bounded(PeerClose(t, p), L)
<1> DEFINE noted == SetFinSequence(t, p.seq)
           u == PeerClose(t, p)
<1>1. L \in Limits /\ Numbers(t, L) /\ Phase(t, L) /\ t \in NumberedSockets
  BY DEF Writing, Bounded, Numbers
<1>2. p.seq \in Nat /\ p.len = 0 /\ p.seq <= L.fin /\ p.seq < L.rx
  BY DEF WriterHears, NumberedPackets
<1>3. u = t \/ u = IF Finished(noted) THEN DoPeerClose(noted) ELSE noted
  <2>1. p.seq + p.len = p.seq /\ ~(p.len > 0)
    BY <1>2
  <2> QED
    BY <2>1 DEF PeerClose
<1>4. /\ Numbers(noted, L) /\ SamePhase(t, noted) /\ noted.tx = t.tx
      /\ noted.fin # None
      /\ Phase(noted, L) \/ Finished(noted)
  BY <1>1, <1>2, SetFinNumbers
<1>5. ~noted.shut
  BY <1>1 DEF SetFinSequence, NumberedSockets
<1> HIDE DEF noted
<1>6. Bounded(DoPeerClose(noted), L)
  BY <1>1, <1>4, <1>5, DoPeerCloseWaits
<1> HIDE DEF u
<1> QED
  BY <1>3, <1>4, <1>6 DEF Bounded, u

\* ProcessEstablished, at the writer.
LEMMA ProcessEstablishedWrites ==
  ASSUME NEW L, Writing(L), NEW t, Bounded(t, L),
         NEW c \in Nat, NEW R \in Nat, NEW h, WriterData(t, c, R, h), t.head > 0,
         t.state = "ESTABLISHED", NEW p, WriterHears(t, p, L),
         Acks(p) => Honest(p, R) /\ Below(t, p)
  PROVE  Bounded(ProcessEstablished(t, p), L)
<1> DEFINE u == ProcessEstablished(t, p)
<1>1. L \in Limits /\ Numbers(t, L) /\ ~t.shut /\ p \in NumberedPackets /\ p.len = 0
      /\ p.ack <= L.nxt
  BY DEF Writing, Bounded, WriterData, WriterHears
<1>2. \/ u = t \/ u = SendEmptyPacket(t, {"ACK"}) \/ u = CloseAndNotify(t)
      \/ u = PeerClose(t, p) /\ p.flags = {"FIN", "ACK"}
      \/ u = ReceivedAck(t, p) /\ p.flags = {"ACK"}
  BY DEF ProcessEstablished
<1>3. Bounded(SendEmptyPacket(t, {"ACK"}), L)
  BY <1>1, SendPlainBounded
<1>4. Bounded(CloseAndNotify(t), L)
  BY <1>1, DeallocateBounded
<1>5. p.flags = {"FIN", "ACK"} => Bounded(PeerClose(t, p), L)
  BY <1>1, PeerCloseWrites
<1>6. p.flags = {"ACK"} => Bounded(ReceivedAck(t, p), L)
  <2>1. p.flags = {"ACK"} => Acks(p)
    BY DEF Acks
  <2> QED
    BY <1>1, <2>1, ReceivedAckWrites
<1> HIDE DEF u
<1> QED
  BY <1>2, <1>3, <1>4, <1>5, <1>6 DEF u

\* ProcessWait, at the writer.
LEMMA ProcessWaitWrites ==
  ASSUME NEW L, Writing(L), NEW t, Bounded(t, L),
         NEW c \in Nat, NEW R \in Nat, NEW h, WriterData(t, c, R, h), t.head > 0,
         t.state \in {"FIN_WAIT_1", "FIN_WAIT_2", "CLOSE_WAIT"},
         NEW p, WriterHears(t, p, L),
         Acks(p) => Honest(p, R) /\ Below(t, p)
  PROVE  Bounded(ProcessWait(t, p), L)
<1> DEFINE acked == ReceivedAck(t, p)
           half == [acked EXCEPT !.state = "FIN_WAIT_2"]
           noted == SetFinSequence(acked, p.seq)
           u == ProcessWait(t, p)
<1>1. L \in Limits /\ Numbers(t, L) /\ p \in NumberedPackets /\ p.len = 0
      /\ p.ack <= L.nxt
  BY DEF Writing, Bounded, WriterHears
<1>2. \/ u = t \/ u = CloseAndNotify(t)
      \/ p.flags = {"ACK"} /\ u = WaitFinished(acked, p)
      \/ p.flags = {"ACK"} /\ acked.state = "FIN_WAIT_1" /\ u = WaitFinished(half, p)
      \/ p.flags = {"FIN", "ACK"} /\ u = WaitFinished(noted, p)
  <2> HIDE DEF acked
  <2>1. u = CASE p.flags = {"ACK"} ->
                   WaitFinished(IF acked.state = "FIN_WAIT_1" /\ Size(acked) = 0
                                     /\ p.ack = HighTx(acked) + 1
                                THEN half ELSE acked, p)
              [] p.flags = {"FIN", "ACK"} -> WaitFinished(noted, p)
              [] "SYN" \in p.flags -> t
              [] OTHER -> CloseAndNotify(t)
    BY DEF ProcessWait, acked
  <2> HIDE DEF u, half, noted
  <2> QED
    BY <2>1
<1>3. Bounded(CloseAndNotify(t), L)
  BY <1>1, DeallocateBounded
<1>4. CASE ~Acks(p)
  <2> HIDE DEF u, acked, half, noted
  <2> QED
    BY <1>2, <1>3, <1>4 DEF Acks, u
<1>5. CASE Acks(p)
  <2>1. Bounded(acked, L) /\ SameIn(t, acked) /\ SentIn(t, acked)
    BY <1>1, <1>5, ReceivedAckWrites
  <2> HIDE DEF acked
  <2>2. acked \in NumberedSockets /\ Numbers(acked, L) /\ Phase(acked, L)
    BY <2>1 DEF Bounded, Numbers
  <2>3. acked.state \in FinWait \/ acked.state \notin PeerOpen
    BY <2>1 DEF SentIn, FinWait, PeerOpen
  <2>4. Bounded(WaitFinished(acked, p), L)
    BY <1>1, <2>2, WaitFinishedBounded
  <2>5. acked.state = "FIN_WAIT_1" => Bounded(WaitFinished(half, p), L)
    <3> SUFFICES ASSUME acked.state = "FIN_WAIT_1"
                 PROVE  Bounded(WaitFinished(half, p), L)
      OBVIOUS
    <3>1. /\ half \in NumberedSockets /\ SameNumbers(acked, half)
          /\ half.state = "FIN_WAIT_2" /\ half.ep = acked.ep /\ half.retx = acked.retx
          /\ half.lastAck = acked.lastAck
      BY <2>2 DEF NumberedSockets, SameNumbers, States
    <3> HIDE DEF half
    <3>2. Numbers(half, L)
      BY <2>2, <3>1, AlikeNumbers
    <3>3. ~(half.nxt > L.sent) /\ ~L.quiet
      <4>1. half.nxt <= L.nxt /\ L.nxt = L.sent /\ half.nxt \in Nat /\ L.nxt \in Nat
        BY <1>1, <3>1, <3>2 DEF Numbers, NumberedSockets, Writing, Limits
      <4> QED
        BY <4>1 DEF Writing
    <3>4. Phase(half, L)
      BY <2>2, <3>1, <3>3 DEF Phase, SameNumbers, PeerOpen, FinUnsent, Handshake
    <3> QED
      BY <1>1, <3>2, <3>4, WaitFinishedBounded
  <2>6. p.flags = {"FIN", "ACK"} => Bounded(WaitFinished(noted, p), L)
    <3> SUFFICES ASSUME p.flags = {"FIN", "ACK"}
                 PROVE  Bounded(WaitFinished(noted, p), L)
      OBVIOUS
    <3>1. p.seq \in Nat /\ p.seq <= L.fin /\ p.seq < L.rx
      BY DEF WriterHears, NumberedPackets
    <3>2. /\ Numbers(noted, L) /\ SamePhase(acked, noted)
          /\ Phase(noted, L) \/ (Finished(noted) /\ noted.state \in PeerOpen)
      BY <1>1, <2>2, <3>1, SetFinNumbers
    <3> HIDE DEF noted
    <3>3. Phase(noted, L) \/ (Finished(noted) /\ noted.state \in FinWait
                              /\ "SYN" \notin noted.retx /\ ~noted.lastAck)
      BY <2>2, <2>3, <3>2 DEF Phase, SamePhase, FinWait, Handshake
    <3> QED
      BY <1>1, <3>2, <3>3, WaitFinishedBounded
  <2> HIDE DEF u, half, noted
  <2> QED
    BY <1>2, <1>3, <2>4, <2>5, <2>6 DEF u
<1> QED
  BY <1>4, <1>5

\* ProcessSynSent: the number the peer has begun with is expected, one past its SYN.
LEMMA ProcessSynSentWrites ==
  ASSUME NEW L, Writing(L), NEW t, Bounded(t, L), t.ep,
         NEW c \in Nat, NEW R \in Nat, NEW h, WriterData(t, c, R, h),
         t.state = "SYN_SENT", NEW p, WriterHears(t, p, L)
  PROVE  Bounded(ProcessSynSent(t, p), L)
<1> DEFINE u == ProcessSynSent(t, p)
           up == [Established(t) EXCEPT !.state = "ESTABLISHED", !.rxNext = p.seq + 1]
           s == SendEmptyPacket(up, {"ACK"})
           v == [SendPendingData(s) EXCEPT !.delAck = DelAckMax]
<1>1. L \in Limits /\ Numbers(t, L) /\ Phase(t, L) /\ t \in NumberedSockets
  BY DEF Writing, Bounded, Numbers
<1>2. t.nxt = 0 /\ t.rxNext <= 1 /\ t.rxNext \in Nat /\ L.open /\ NoFin(t.tx)
  BY <1>1 DEF Phase, PeerOpen, FinUnsent, Handshake, Writing, NumberedSockets
<1>3. Bounded(CloseAndNotify(t), L)
  BY <1>1, DeallocateBounded
<1>4. CASE p.flags = {"SYN", "ACK"}
  <2>1. p.seq = 0
    BY <1>4 DEF WriterHears
  <2>2. up = [t EXCEPT !.app = TRUE, !.retx = {}, !.nxt = 1, !.head = 1,
                       !.state = "ESTABLISHED", !.rxNext = 1]
    BY <1>1, <1>2, <2>1 DEF Established, NumberedSockets
  <2>3. u = v
    BY <1>4 DEF ProcessSynSent
  <2> HIDE DEF up
  <2>4. "ESTABLISHED" \in States /\ {} \in RetxEvents
    BY Values DEF States
  <2>5. up \in NumberedSockets
    BY <1>1, <2>2, <2>4 DEF NumberedSockets
  <2>6. /\ up.nxt = 1 /\ up.head = 1 /\ up.state = "ESTABLISHED" /\ up.rxNext = 1
        /\ up.retx = {} /\ up.ep = t.ep /\ up.lastAck = t.lastAck /\ up.tx = t.tx
        /\ up.recover = t.recover /\ up.fin = t.fin /\ up.buf = t.buf
    BY <1>1, <2>2 DEF NumberedSockets
  <2>7. Numbers(up, L)
    <3>1. 1 <= L.nxt /\ ~(1 > L.sent) /\ 1 <= L.rx
      BY TxBufferAssumption DEF Writing, Limits
    <3>2. /\ up.nxt <= L.nxt /\ up.head <= L.nxt /\ up.recover <= N + 1
          /\ up.head > L.sent => up.nxt > L.sent
          /\ t.rxNext <= up.rxNext /\ up.rxNext <= L.rx /\ up.fin <= L.fin
          /\ up.fin = None => t.fin = None
      BY <1>1, <1>2, <2>6, <3>1 DEF Numbers
    <3> QED
      BY <1>1, <2>5, <2>6, <3>2, MovedNumbers
  <2>8. ~(1 > L.sent) /\ ~L.quiet /\ L.early = 1
    BY TxBufferAssumption DEF Writing
  <2>9. Phase(up, L)
    BY <1>1, <1>2, <2>6, <2>8 DEF Phase, Handshake
  <2>10. Bounded(s, L) /\ Sending(up, s)
    BY <1>1, <2>7, <2>9, SendPlainBounded DEF Bounded
  <2> HIDE DEF s
  <2>11. s.state \notin Handshake /\ GoodBuffer(s.buf)
    BY <2>6, <2>10 DEF Sending, SameData, Handshake, WriterData
  <2>12. LET w == SendPendingData(s) IN Bounded(w, L)
    BY <2>10, <2>11, SendPendingBounded
  <2> DEFINE w == SendPendingData(s)
  <2> HIDE DEF w, u
  <2>13. v = [w EXCEPT !.delAck = DelAckMax] /\ w \in NumberedSockets /\ Bounded(w, L)
    BY <2>12 DEF w, Bounded, Numbers
  <2> HIDE DEF v
  <2>14. v \in NumberedSockets /\ SameNumbers(w, v) /\ SamePhase(w, v)
    BY <2>13, Values DEF NumberedSockets, SameNumbers, SamePhase
  <2> QED
    BY <2>3, <2>13, <2>14, AlikeBounded DEF u
<1>5. CASE p.flags # {"SYN", "ACK"}
  <2>1. u = t \/ u = CloseAndNotify(t)
    BY <1>5 DEF ProcessSynSent
  <2> HIDE DEF u
  <2> QED
    BY <1>3, <2>1 DEF u
<1> QED
  BY <1>4, <1>5

\* ProcessClosing and ProcessLastAck, at either end.
LEMMA ProcessLastBounded ==
  ASSUME NEW L \in Limits, NEW t, Bounded(t, L), t.ep, NEW p, NEW u,
         \/ t.state = "CLOSING" /\ u = ProcessClosing(t, p)
         \/ u = ProcessLastAck(t, p)
  PROVE  Bounded(u, L)
<1> DEFINE s == SendEmptyPacket(t, {"ACK"})
           r == SendRST(t)
<1>1. Numbers(t, L) /\ Phase(t, L)
  BY DEF Bounded
<1>2. \/ u = t
      \/ t.state = "CLOSING" /\ u = TimeWait(t)
      \/ u = CloseAndNotify(t) \/ u = CloseAndNotify(s) \/ u = CloseAndNotify(r)
  BY DEF ProcessClosing, ProcessLastAck
<1>3. t.state = "CLOSING" => Bounded(TimeWait(t), L)
  <2> SUFFICES ASSUME t.state = "CLOSING"
               PROVE  Bounded(TimeWait(t), L)
    OBVIOUS
  <2>1. t.nxt \in Nat /\ L.sent \in Nat /\ L.quiet \in BOOLEAN /\ L.acked \subseteq FinWait
    BY <1>1 DEF Numbers, NumberedSockets, Limits
  <2>2. (t.fin # None \/ ~L.quiet) /\ (t.fin # None \/ t.nxt <= L.sent)
    BY <1>1, <2>1 DEF Phase, FinUnsent, FinWait
  <2> QED
    BY <1>1, <2>2, TimeWaitBounded
<1>4. Numbers(s, L) /\ Numbers(r, L)
  BY <1>1, SendPlainBounded, SendRSTBounded DEF Bounded
<1>5. \A x \in {t, s, r} : Bounded(CloseAndNotify(x), L)
  BY <1>1, <1>4, DeallocateBounded
<1> HIDE DEF s, r
<1> QED
  BY <1>2, <1>3, <1>5

\* DoForwardUp, at the writer.
LEMMA DoForwardUpWrites ==
  ASSUME NEW L, Writing(L), NEW t, Bounded(t, L), t.ep,
         NEW c \in Nat, NEW R \in Nat, NEW h, WriterData(t, c, R, h),
         NEW p, WriterHears(t, p, L),
         Acks(p) => Honest(p, R) /\ Below(t, p)
  PROVE  Bounded(DoForwardUp(t, p), L)
<1> DEFINE v == IF "SYN" \in p.flags THEN [t EXCEPT !.cwnd = N] ELSE t
           u == DoForwardUp(t, p)
<1>1. t \in NumberedSockets /\ L \in Limits /\ p \in NumberedPackets /\ p.len = 0
  BY DEF WriterData, Writing, WriterHears
<1>2. v \in NumberedSockets /\ Alike(t, v) /\ SameNumbers(t, v) /\ SamePhase(t, v)
  <2>1. CASE "SYN" \in p.flags
    <3>1. v = [t EXCEPT !.cwnd = N] /\ N \in Windows
      BY <2>1, Values
    <3> HIDE DEF v
    <3>2. v \in NumberedSockets
      BY <1>1, <3>1 DEF NumberedSockets
    <3>3. SameNumbers(t, v) /\ SamePhase(t, v)
      BY <1>1, <3>1 DEF NumberedSockets, SameNumbers, SamePhase
    <3> QED
      BY <1>1, <3>1, <3>2, <3>3, ZenonT(60) DEF NumberedSockets, Alike
  <2>2. CASE "SYN" \notin p.flags
    BY <1>1, <2>2 DEF Alike, SameNumbers, SamePhase
  <2> QED
    BY <2>1, <2>2
<1>3. t.state \in States /\ t.state \notin {"CLOSED", "SYN_RCVD"}
  BY <1>1 DEF WriterData, NumberedSockets
<1>4. \/ u = t
      \/ t.state = "ESTABLISHED" /\ u = ProcessEstablished(v, p)
      \/ t.state = "SYN_SENT" /\ u = ProcessSynSent(v, p)
      \/ /\ t.state \in {"FIN_WAIT_1", "FIN_WAIT_2", "CLOSE_WAIT"}
         /\ u = ProcessWait(v, p)
      \/ t.state = "CLOSING" /\ u = ProcessClosing(v, p)
      \/ t.state = "LAST_ACK" /\ u = ProcessLastAck(v, p)
      \/ u = v
  <2> HIDE DEF v
  <2> DEFINE out == p.len > 0 /\ OutOfRange(t, p)
             odd == p.flags = {"RST", "ACK"}
             handled ==
               CASE t.state = "ESTABLISHED" -> ProcessEstablished(v, p)
                 [] t.state = "SYN_SENT" -> ProcessSynSent(v, p)
                 [] t.state = "SYN_RCVD" -> ProcessSynRcvd(v, p)
                 [] t.state \in {"FIN_WAIT_1", "FIN_WAIT_2", "CLOSE_WAIT"} -> ProcessWait(v, p)
                 [] t.state = "CLOSING" -> ProcessClosing(v, p)
                 [] t.state = "LAST_ACK" -> ProcessLastAck(v, p)
                 [] t.state = "TIME_WAIT" -> v
  <2>1. u = IF out THEN SendEmptyPacket(t, {"ACK"}) ELSE IF odd THEN t ELSE handled
    BY DEF DoForwardUp, v
  <2>2. ~out
    BY <1>1
  <2> HIDE DEF out, odd
  <2> HIDE DEF u
  <2> QED
    BY <1>3, <2>1, <2>2 DEF States
<1> HIDE DEF v
<1>5. Bounded(v, L) /\ WriterData(v, c, R, h) /\ v.state = t.state /\ v.ep
  BY <1>2, AlikeBounded, AlikeWriter DEF SamePhase
<1>6. (Acks(p) => Honest(p, R) /\ Below(v, p)) /\ WriterHears(v, p, L)
  BY <1>2 DEF Below, Alike, WriterHears
<1>7. t.state \notin Handshake => v.head > 0
  <2>1. t.head \in Nat
    BY <1>1 DEF NumberedSockets
  <2> QED
    BY <1>2, <1>3, <2>1 DEF WriterData, Handshake, Alike
<1>8. t.state = "ESTABLISHED" => Bounded(ProcessEstablished(v, p), L)
  BY <1>5, <1>6, <1>7, ProcessEstablishedWrites DEF Handshake
<1>9. t.state = "SYN_SENT" => Bounded(ProcessSynSent(v, p), L)
  BY <1>5, <1>6, ProcessSynSentWrites
<1>10. t.state \in {"FIN_WAIT_1", "FIN_WAIT_2", "CLOSE_WAIT"} => Bounded(ProcessWait(v, p), L)
  BY <1>5, <1>6, <1>7, ProcessWaitWrites DEF Handshake
<1>11. /\ t.state = "CLOSING" => Bounded(ProcessClosing(v, p), L)
       /\ Bounded(ProcessLastAck(v, p), L)
  BY <1>1, <1>5, ProcessLastBounded
<1> HIDE DEF u
<1> QED
  BY <1>4, <1>5, <1>8, <1>9, <1>10, <1>11 DEF u

-----------------------------------------------------------------------------
\* The numbers of either end, when a timer expires.

\* A FIN sent again.
LEMMA SendFinBounded ==
  ASSUME NEW L \in Limits, NEW t, Bounded(t, L),
         t.ep => /\ t.state \notin FinUnsent
                 /\ t.nxt <= L.sent \/ t.fin # None
                 /\ L.quiet => t.fin # None,
         NEW asked \in {{"FIN"}, {"FIN", "ACK"}}
  PROVE  LET u == SendEmptyPacket(t, asked)
         IN  Bounded(u, L) /\ SameIn(t, u)
<1> DEFINE u == SendEmptyPacket(t, asked)
<1>1. asked \in Asked /\ "SYN" \notin asked
  BY DEF Asked
<1>2. Numbers(t, L) /\ Phase(t, L) /\ t.nxt \in Nat /\ L.sent \in Nat
  BY DEF Bounded, Numbers, NumberedSockets, Limits
<1>3. /\ Numbers(u, L) /\ Sending(t, u)
      /\ u.retx = IF t.ep /\ t.retx = {} /\ {"FIN", "ACK"} \notin {{"ACK"}, {"RST"}}
                  THEN {"FIN", "ACK"} ELSE t.retx
  BY <1>1, <1>2, SendNumbers
<1>4. "SYN" \in u.retx => "SYN" \in t.retx
  BY <1>3
<1> HIDE DEF u
<1>5. Phase(u, L)
  BY <1>2, <1>3, <1>4 DEF Phase, Sending, SameData
<1> QED
  BY <1>3, <1>5 DEF Bounded, Sending, SameData, SameIn, u

\* A SYN sent again, or given up.
LEMMA SendSynBounded ==
  ASSUME NEW L \in Limits, NEW t, Bounded(t, L), t.state \in Handshake,
         NEW asked \in {{"SYN"}, {"SYN", "ACK"}}
  PROVE  LET u == SendEmptyPacket(t, asked)
         IN  Bounded(u, L) /\ SameIn(t, u)
<1> DEFINE u == SendEmptyPacket(t, asked)
           d == DeallocateEndPoint(t)
<1>1. asked \in Asked /\ "SYN" \in asked /\ "FIN" \notin asked
  BY DEF Asked
<1>2. Numbers(t, L) /\ Phase(t, L) /\ t \in NumberedSockets
  BY DEF Bounded, Numbers
<1>3. CASE t.ep /\ t.synCount = 0
  <2>1. u = [d EXCEPT !.failed = TRUE, !.state = "CLOSED"]
    BY <1>1, <1>3 DEF SendEmptyPacket
  <2>2. Bounded(d, L) /\ ~d.ep /\ SameIn(t, d)
    BY <1>2, DeallocateBounded DEF SameIn
  <2>3. d \in NumberedSockets /\ d.retx = {} /\ ~d.lastAck
    BY <1>2, DeallocateIs
  <2>4. "CLOSED" \in States
    BY DEF States
  <2> HIDE DEF d, u
  <2>5. u \in NumberedSockets
    BY <2>1, <2>3, <2>4 DEF NumberedSockets
  <2>6. SameNumbers(d, u) /\ ~u.ep /\ u.retx = {} /\ ~u.lastAck
    BY <2>1, <2>2, <2>3 DEF NumberedSockets, SameNumbers
  <2>7. Bounded(u, L)
    BY <2>2, <2>5, <2>6, GoneBounded DEF Bounded
  <2> QED
    BY <2>2, <2>6, <2>7 DEF SameIn, SameNumbers, u
<1>4. CASE t.ep /\ t.synCount # 0
  <2>1. t.nxt = 0 /\ t.state \in Handshake \cup {"CLOSED"}
    BY <1>2, <1>4 DEF Phase
  <2>2. asked \notin {{"ACK"}, {"RST"}}
    BY <1>1
  <2>3. /\ Numbers(u, L) /\ Sending(t, u)
        /\ u.retx = IF t.ep /\ t.retx = {} /\ asked \notin {{"ACK"}, {"RST"}}
                    THEN asked ELSE t.retx
        /\ NoFin(t.tx) => NoFin(u.tx)
    BY <1>1, <1>2, <1>4, <2>1, SendNumbers
  <2>4. "FIN" \in u.retx => "FIN" \in t.retx
    BY <1>1, <2>3
  <2> HIDE DEF u
  <2>5. Phase(u, L)
    BY <1>2, <2>3, <2>4 DEF Phase, Sending, SameData
  <2> QED
    BY <2>3, <2>5 DEF Bounded, Sending, SameData, SameIn, u
<1>5. CASE ~t.ep
  BY <1>5 DEF SendEmptyPacket, SameIn
<1> QED
  BY <1>3, <1>4, <1>5

\* ReTxTimeout: a socket in FIN_WAIT_1 has its FIN still to be acknowledged.
LEMMA ReTxTimeoutBounded ==
  ASSUME NEW L \in Limits, L.acked = {"FIN_WAIT_2"}, NEW t, Bounded(t, L), t.ep,
         GoodBuffer(t.buf), t.buf.high <= t.written,
         Size(t) # 0 => Writing(L) /\ t.state \notin Handshake
  PROVE  LET u == ReTxTimeout(t)
         IN  Bounded(u, L) /\ SameIn(t, u)
<1> DEFINE lost == [t EXCEPT !.retries = @ - 1, !.buf = SetSentListLost(@),
                             !.recover = HighTx(t), !.cong = "CA_LOSS", !.cwnd = 1]
           u == ReTxTimeout(t)
<1>1. Numbers(t, L) /\ Phase(t, L) /\ t \in NumberedSockets
  BY DEF Bounded, Numbers
<1>2. CASE Size(t) = 0 /\ t.state \notin {"FIN_WAIT_1", "CLOSING"}
  BY <1>2 DEF ReTxTimeout, SameIn
<1>3. CASE Size(t) = 0 /\ t.state \in {"FIN_WAIT_1", "CLOSING"}
  <2>1. u = SendEmptyPacket(t, {"FIN"})
    BY <1>3 DEF ReTxTimeout
  <2>2. t.nxt \in Nat /\ L.sent \in Nat
    BY <1>1 DEF NumberedSockets, Limits
  <2>3. /\ t.state \notin FinUnsent
        /\ t.nxt <= L.sent \/ t.fin # None
        /\ L.quiet => t.fin # None
    BY <1>1, <1>3, <2>2 DEF Phase, FinUnsent
  <2> HIDE DEF u
  <2> QED
    BY <2>1, <2>3, SendFinBounded DEF u
<1>4. CASE Size(t) # 0 /\ t.retries = 0
  <2>1. u = Drop(t)
    BY <1>4 DEF ReTxTimeout
  <2> HIDE DEF u
  <2> QED
    BY <1>1, <2>1, DeallocateBounded DEF SameIn, u
<1>5. CASE Size(t) # 0 /\ t.retries # 0
  <2> DEFINE b == SetSentListLost(t.buf)
  <2>1. u = SendPendingData(lost)
    BY <1>5 DEF ReTxTimeout
  <2>2. GoodBuffer(b)
    BY SetSentListLostGood
  <2>3. HighTx(t) \in Nat /\ HighTx(t) <= N + 1
    <3>1. t.buf.high \in Nat /\ t.written \in 0..N /\ N \in Nat
      BY <1>1, TxBufferAssumption DEF GoodBuffer, Buffers, NumberedSockets, Amounts
    <3> QED
      BY <3>1 DEF HighTx
  <2> HIDE DEF b
  <2>4. /\ lost \in NumberedSockets /\ lost.buf = b /\ lost.recover = HighTx(t)
        /\ lost.nxt = t.nxt /\ lost.head = t.head /\ lost.rxNext = t.rxNext
        /\ lost.fin = t.fin /\ lost.tx = t.tx /\ SamePhase(t, lost)
    <3>1. t.retries - 1 \in RetryCounts
      BY <1>1, <1>5, ConnectionAssumption DEF NumberedSockets, RetryCounts
    <3>2. lost = [t EXCEPT !.retries = t.retries - 1, !.buf = b,
                           !.recover = HighTx(t), !.cong = "CA_LOSS", !.cwnd = 1]
      BY DEF b
    <3>3. b \in Buffers /\ "CA_LOSS" \in CongStates
      BY <2>2 DEF GoodBuffer, CongStates
    <3> HIDE DEF lost
    <3>4. lost \in NumberedSockets
      BY <1>1, <2>3, <3>1, <3>2, <3>3, Values DEF NumberedSockets
    <3> QED
      BY <1>1, <3>2, <3>4 DEF NumberedSockets, SamePhase
  <2> HIDE DEF lost, u
  <2>5. Numbers(lost, L)
    <3>1. /\ lost.nxt <= L.nxt /\ lost.head <= L.nxt /\ lost.recover <= N + 1
          /\ lost.head > L.sent => lost.nxt > L.sent
          /\ lost.rxNext <= L.rx /\ lost.fin <= L.fin
      BY <1>1, <2>3, <2>4 DEF Numbers
    <3>2. t.rxNext <= lost.rxNext
      BY <1>1, <2>4 DEF NumberedSockets
    <3> QED
      BY <1>1, <2>4, <3>1, <3>2, MovedNumbers
  <2>6. Phase(lost, L)
    BY <1>1, <2>4 DEF Phase, SamePhase
  <2>7. LET v == SendPendingData(lost) IN Bounded(v, L) /\ SameIn(lost, v)
    BY <1>5, <2>2, <2>4, <2>5, <2>6, SendPendingBounded DEF Bounded, SamePhase
  <2> QED
    BY <2>1, <2>4, <2>7 DEF SameIn, u
<1> QED
  BY <1>2, <1>3, <1>4, <1>5

\* m_retxEvent, at either end.
LEMMA RetxBounded ==
  ASSUME NEW L \in Limits, L.acked = {"FIN_WAIT_2"}, NEW s, Bounded(s, L), s.ep,
         GoodBuffer(s.buf), s.buf.high <= s.written, s.retx # {},
         Size(s) # 0 => Writing(L) /\ s.state \notin Handshake
  PROVE  LET t == [s EXCEPT !.retx = {}]
             u == IF s.retx = {"RTO"} THEN ReTxTimeout(t) ELSE SendEmptyPacket(t, s.retx)
         IN  Bounded(u, L) /\ SameIn(s, u)
<1> DEFINE t == [s EXCEPT !.retx = {}]
           u == IF s.retx = {"RTO"} THEN ReTxTimeout(t) ELSE SendEmptyPacket(t, s.retx)
<1> SUFFICES Bounded(u, L) /\ SameIn(s, u)
  OBVIOUS
<1>1. Numbers(s, L) /\ Phase(s, L) /\ s \in NumberedSockets
  BY DEF Bounded, Numbers
<1>2. t \in NumberedSockets
  BY <1>1, Values DEF NumberedSockets
<1>3. /\ SameNumbers(s, t) /\ t.state = s.state /\ t.ep /\ t.retx = {}
      /\ t.lastAck = s.lastAck /\ t.buf = s.buf /\ t.written = s.written
  BY <1>1 DEF NumberedSockets, SameNumbers
<1> HIDE DEF t
<1>4. Numbers(t, L)
  BY <1>1, <1>2, <1>3, AlikeNumbers
<1>5. Phase(t, L)
  BY <1>1, <1>3 DEF Phase, SameNumbers
<1>6. Bounded(t, L) /\ SameIn(s, t)
  BY <1>3, <1>4, <1>5 DEF Bounded, SameNumbers, SameIn
<1>7. CASE s.retx = {"RTO"}
  <2>1. LET v == ReTxTimeout(t) IN Bounded(v, L) /\ SameIn(t, v)
    BY <1>3, <1>6, ReTxTimeoutBounded DEF Size
  <2> QED
    BY <1>6, <1>7, <2>1 DEF SameIn
<1>8. CASE "SYN" \in s.retx
  <2>1. s.retx \in {{"SYN"}, {"SYN", "ACK"}} /\ s.retx # {"RTO"}
    BY <1>1, <1>8 DEF NumberedSockets, RetxEvents
  <2>2. t.state \in Handshake
    BY <1>1, <1>3, <1>8 DEF Phase
  <2> DEFINE asked == s.retx
  <2>3. asked \in {{"SYN"}, {"SYN", "ACK"}}
    BY <2>1
  <2> HIDE DEF asked
  <2>4. LET v == SendEmptyPacket(t, asked) IN Bounded(v, L) /\ SameIn(t, v)
    BY <1>6, <2>2, <2>3, SendSynBounded
  <2>5. u = SendEmptyPacket(t, asked)
    BY <2>1 DEF asked
  <2> QED
    BY <1>6, <2>4, <2>5 DEF SameIn
<1>9. CASE s.retx # {"RTO"} /\ "SYN" \notin s.retx
  <2>1. s.retx \in {{"FIN"}, {"FIN", "ACK"}}
    BY <1>1, <1>9 DEF NumberedSockets, RetxEvents
  <2>2. s.nxt \in Nat /\ L.sent \in Nat
    BY <1>1 DEF NumberedSockets, Limits
  <2>3. /\ t.state \notin FinUnsent
        /\ t.nxt <= L.sent \/ t.fin # None
        /\ L.quiet => t.fin # None
    BY <1>1, <1>3, <2>1, <2>2 DEF Phase, SameNumbers
  <2> DEFINE asked == s.retx
  <2>4. asked \in {{"FIN"}, {"FIN", "ACK"}}
    BY <2>1
  <2> HIDE DEF asked
  <2>5. LET v == SendEmptyPacket(t, asked) IN Bounded(v, L) /\ SameIn(t, v)
    BY <1>6, <2>3, <2>4, SendFinBounded
  <2>6. u = SendEmptyPacket(t, asked)
    BY <1>9 DEF asked
  <2> QED
    BY <1>6, <2>5, <2>6 DEF SameIn
<1> QED
  BY <1>7, <1>8, <1>9

\* m_lastAckEvent.
LEMMA LastAckBounded ==
  ASSUME NEW L \in Limits, NEW s, Bounded(s, L), s.lastAck
  PROVE  LET u == LastAckTimeout(s)
         IN  Bounded(u, L) /\ SameIn(s, u)
<1> DEFINE t == [s EXCEPT !.retries = @ - 1]
           u == LastAckTimeout(s)
<1>1. Numbers(s, L) /\ Phase(s, L) /\ s \in NumberedSockets
  BY DEF Bounded, Numbers
<1>2. CASE s.retries = 0
  <2>1. u = Drop(s)
    BY <1>2 DEF LastAckTimeout
  <2> HIDE DEF u
  <2> QED
    BY <1>1, <2>1, DeallocateBounded DEF SameIn, u
<1>3. CASE s.retries # 0
  <2>1. u = SendEmptyPacket(t, {"FIN", "ACK"})
    BY <1>3 DEF LastAckTimeout
  <2>2. s.retries - 1 \in RetryCounts
    BY <1>1, <1>3, ConnectionAssumption DEF NumberedSockets, RetryCounts
  <2>3. t \in NumberedSockets
    BY <1>1, <2>2 DEF NumberedSockets
  <2>4. SameNumbers(s, t) /\ SamePhase(s, t)
    BY <1>1 DEF NumberedSockets, SameNumbers, SamePhase
  <2> HIDE DEF t, u
  <2>5. Bounded(t, L)
    BY <2>3, <2>4, AlikeBounded
  <2>6. t.fin # None /\ t.state \notin FinUnsent
    BY <1>1, <2>4 DEF Phase, SameNumbers, SamePhase, FinUnsent
  <2>7. LET v == SendEmptyPacket(t, {"FIN", "ACK"}) IN Bounded(v, L) /\ SameIn(t, v)
    BY <2>5, <2>6, SendFinBounded
  <2> QED
    BY <2>1, <2>4, <2>7 DEF SameIn, SameNumbers, u
<1> QED
  BY <1>2, <1>3

=============================================================================
